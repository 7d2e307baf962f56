----------------------------- MODULE CorpusProofs -----------------------------
(***************************************************************************)
(* Proofs about Corpus, for every manifest and all data files, every       *)
(* command line and batch size, and any number of bootstraps, of changes   *)
(* of the manifest and of retrievers.                                      *)
(***************************************************************************)
EXTENDS Corpus, WellFoundedInduction, TLAPS

-----------------------------------------------------------------------------
(* What the loaders give *)

\* The documents of a stage have ids of their own.
Distinct(k, documents) == \A a, b \in documents : Id(k, a) = Id(k, b) => a = b

\* An example of hate has a category, and only such a one.
Agree(documents) == \A doc \in documents : doc.hate <=> doc.category # "unclassified"

\* A number that no other of the set is below.
LEMMA Least ==
  ASSUME NEW S \in SUBSET Nat, S # {}
  PROVE  \E i \in S : \A j \in S : i <= j
<1> DEFINE less == {ss \in Nat \X Nat : ss[1] < ss[2]}
<1>1. IsWellFoundedOn(less, Nat)
  BY NatLessThanWellFounded DEF OpToRel
<1>2. \E x \in S : \A y \in S : ~(<<y, x>> \in less)
  <2> HIDE DEF less
  <2> QED BY <1>1, WFMin
<1>3. PICK x \in S : \A y \in S : ~(<<y, x>> \in less)
  BY <1>2
<1>4. ASSUME NEW y \in S PROVE x <= y
  <2>1. ~(y < x)
    BY <1>3
  <2> QED BY <2>1
<1> QED BY <1>4

\* A row of K-HATERS has a category exactly if it is labelled as hate.
\* (_k_haters_categories)
LEMMA KHatersAgree ==
  ASSUME NEW row, row.targets \in Seq(STRING)
  PROVE  row.label # "normal" <=> KHatersCategory(row) # "unclassified"
<1> DEFINE named == {n \in 1..Len(row.targets) : row.targets[n] \in DOMAIN KHatersNames}
           first == CHOOSE n \in named : \A m \in named : n <= m
<1>1. \A name \in DOMAIN KHatersNames : KHatersNames[name] # "unclassified"
  BY DEF KHatersNames
<1>2. ASSUME named # {} PROVE row.targets[first] \in DOMAIN KHatersNames
  <2>1. named \in SUBSET Nat
    OBVIOUS
  <2>2. \E n \in named : \A m \in named : n <= m
    <3> HIDE DEF named
    <3> QED BY <1>2, <2>1, Least
  <2> QED BY <2>2
<1> QED BY <1>1, <1>2 DEF KHatersCategory

\* The rows of all datasets with a loader agree.  (_load_beep, _load_k_haters,
\* _load_kodoli)
LEMMA RowsAgree ==
  ASSUME NEW d \in Datasets \cap Loaders, NEW v \in DOMAIN Rows[d], NEW n \in 1..Len(Rows[d][v])
  PROVE  IsHate(d, Rows[d][v][n]) <=> Category(d, Rows[d][v][n]) # "unclassified"
<1> DEFINE row == Rows[d][v][n]
<1>1. CASE d = "beep"
  <2>1. row.bias \in {"none", "gender", "others"} /\ row.hate \in {"none", "offensive", "hate"}
    BY <1>1, RowsAssumption
  <2> QED BY <1>1, <2>1 DEF IsHate, Category, BeepCategory
<1>2. CASE d = "k-haters"
  <2>1. row.targets \in Seq(STRING)
    BY <1>2, RowsAssumption
  <2>2. row.label # "normal" <=> KHatersCategory(row) # "unclassified"
    BY <2>1, KHatersAgree
  <2> QED BY <1>2, <2>2 DEF IsHate, Category
<1>3. CASE d = "kodoli"
  BY <1>3 DEF IsHate, Category
<1> QED BY <1>1, <1>2, <1>3 DEF Loaders

\* What the code takes for commercial is unrestricted, as far as no review is
\* asked for beside a permissive licence.
LEMMA AllowedUnrestricted ==
  ASSUME NoReviewBesideCcBy, NEW m \in Manifests, NEW d \in Datasets,
         LicenceTier(m[d].licence) = "commercial_ok"
  PROVE  Unrestricted(m[d].licence)
<1>1. m[d].licence \subseteq Licences
  BY CorpusAssumption DEF Entry
<1>2. /\ "cc_by_4_0" \in m[d].licence
      /\ m[d].licence \cap {"internal_eval", "permission_required", "approval_required", "cc_by_nc",
                              "cc_by_sa"} = {}
  BY DEF LicenceTier
<1>3. m[d].licence \cap {"license_review_required", "usage_restriction"} = {}
  BY <1>2 DEF NoReviewBesideCcBy
<1> QED BY <1>1, <1>2, <1>3 DEF Unrestricted, Conditions, Licences

\* What a stage loads.
LEMMA LoadableDocuments ==
  ASSUME NEW k \in Collections, NEW m \in Manifests, NEW o \in Options,
         NEW documents \in Loadable(k, m, o)
  PROVE  /\ Distinct(k, documents)
         /\ k = examples => Agree(documents)
         /\ NoReviewBesideCcBy /\ k \in {authoritative, examples} =>
              \A doc \in documents : doc.source \in FreeToUse(m)
<1> USE DEF taxonomy, authoritative, examples, Collections
<1>1. CASE k = taxonomy
  <2>1. documents = TaxonomyDocuments
    BY <1>1 DEF Loadable
  <2>2. ASSUME NEW a \in documents, NEW b \in documents, Id(k, a) = Id(k, b) PROVE a = b
    <3>1. PICK i \in 1..Len(Cards) : a = Document("internal_taxonomy", i, Cards[i], FALSE, "none")
      BY <2>1 DEF TaxonomyDocuments
    <3>2. PICK j \in 1..Len(Cards) : b = Document("internal_taxonomy", j, Cards[j], FALSE, "none")
      BY <2>1 DEF TaxonomyDocuments
    <3>3. i = j
      BY <2>2, <3>1, <3>2 DEF Id, Document
    <3> QED BY <3>1, <3>2, <3>3
  <2> QED BY <1>1, <2>2 DEF Distinct
<1>2. CASE k = authoritative
  <2>1. \A doc \in documents :
          \E d \in Datasets : \E n \in 1..Len(Sections[d][m[d].version]) :
            /\ DefinitionsAllowed(m[d])
            /\ doc = Document(d, n, Sections[d][m[d].version][n].text, FALSE, "none")
    <3> DEFINE usable == {e \in Datasets : DefinitionsAllowed(m[e])}
               of(d) == MarkdownDocuments(d, Sections[d][m[d].version])
    <3>1. documents = UNION {of(d) : d \in usable}
      BY <1>2 DEF Loadable, DefinitionDocuments
    <3>2. \A doc \in documents : \E d \in usable : doc \in of(d)
      <4> HIDE DEF of, usable
      <4> QED BY <3>1
    <3> QED BY <3>2 DEF MarkdownDocuments
  <2>2. Distinct(k, documents)
    <3>1. ASSUME NEW a \in documents, NEW b \in documents, Id(k, a) = Id(k, b) PROVE a = b
      <4>1. PICK d, i : a = Document(d, i, Sections[d][m[d].version][i].text, FALSE, "none")
        BY <2>1
      <4>2. PICK e, j : b = Document(e, j, Sections[e][m[e].version][j].text, FALSE, "none")
        BY <2>1
      <4>3. d = e /\ i = j
        BY <3>1, <4>1, <4>2 DEF Id, Document
      <4> QED BY <4>1, <4>2, <4>3
    <3> QED BY <3>1 DEF Distinct
  <2>3. NoReviewBesideCcBy => \A doc \in documents : doc.source \in FreeToUse(m)
    <3>1. ASSUME NEW doc \in documents PROVE doc.source \in Datasets /\ DefinitionsAllowed(m[doc.source])
      <4>1. PICK d \in Datasets : \E n : DefinitionsAllowed(m[d])
              /\ doc = Document(d, n, Sections[d][m[d].version][n].text, FALSE, "none")
        BY <2>1
      <4>2. doc.source = d
        BY <4>1 DEF Document
      <4> QED BY <4>1, <4>2
    <3> QED BY <3>1, AllowedUnrestricted DEF DefinitionsAllowed, FreeToUse
  <2> QED BY <1>2, <2>2, <2>3
<1>3. CASE k = examples
  <2>1. documents \subseteq ExampleDocuments(m, o.limit)
    BY <1>3 DEF Loadable, Samples
  <2>2. ASSUME NEW doc \in documents
        PROVE  \E d \in Datasets \cap Loaders : \E n \in 1..Len(Rows[d][m[d].version]) :
                 LET row == Rows[d][m[d].version][n] IN
                 /\ ExamplesAllowed(m[d])
                 /\ doc = Document(d, n, row.text, IsHate(d, row), Category(d, row))
    BY <2>1 DEF ExampleDocuments, ExamplesOf, Kept
  <2>3. Distinct(k, documents)
    <3> DEFINE row(d, n) == Rows[d][m[d].version][n]
    <3>1. ASSUME NEW a \in documents, NEW b \in documents, Id(k, a) = Id(k, b) PROVE a = b
      <4>1. PICK d, i : a = Document(d, i, row(d, i).text, IsHate(d, row(d, i)), Category(d, row(d, i)))
        BY <2>2
      <4>2. PICK e, j : b = Document(e, j, row(e, j).text, IsHate(e, row(e, j)), Category(e, row(e, j)))
        BY <2>2
      <4>3. d = e /\ i = j
        BY <3>1, <4>1, <4>2 DEF Id, Document
      <4> QED BY <4>1, <4>2, <4>3
    <3> QED BY <3>1 DEF Distinct
  <2>4. NoReviewBesideCcBy => \A doc \in documents : doc.source \in FreeToUse(m)
    <3>1. \A doc \in documents : doc.source \in Datasets /\ ExamplesAllowed(m[doc.source])
      BY <2>2 DEF Document
    <3> QED BY <3>1, AllowedUnrestricted DEF ExamplesAllowed, FreeToUse
  <2>5. Agree(documents)
    <3>1. ASSUME NEW doc \in documents PROVE doc.hate <=> doc.category # "unclassified"
      <4>1. PICK d \in Datasets \cap Loaders : \E n \in 1..Len(Rows[d][m[d].version]) :
              LET row == Rows[d][m[d].version][n] IN
                doc = Document(d, n, row.text, IsHate(d, row), Category(d, row))
        BY <2>2
      <4>2. m[d].version \in DOMAIN Rows[d]
        BY CorpusAssumption
      <4> DEFINE rows == Rows[d][m[d].version]
      <4>3. PICK n \in 1..Len(rows) :
              doc = Document(d, n, rows[n].text, IsHate(d, rows[n]), Category(d, rows[n]))
        BY <4>1
      <4>4. IsHate(d, rows[n]) <=> Category(d, rows[n]) # "unclassified"
        BY <4>2, RowsAgree
      <4> QED BY <4>3, <4>4 DEF Document
    <3> QED BY <3>1 DEF Agree
  <2> QED BY <1>3, <2>3, <2>4, <2>5
<1> QED BY <1>1, <1>2, <1>3

-----------------------------------------------------------------------------
(* The inductive invariant *)

TypeOK ==
  /\ manifest \in Manifests /\ option \in Options
  /\ doing \in {"nothing", "load", "open", "create", "upsert"} /\ stage \in Collections
  /\ DOMAIN loaded = Collections /\ DOMAIN store = Collections /\ DOMAIN allowed = Collections
  /\ ids \in Nat /\ live \in [Collections -> Nat] /\ handles \in [Collections -> Nat]
  /\ bundle \in [Collections -> {"unasked", "failed", "empty", "found"}]
  /\ answer \in {"none", "RAG_RETRIEVAL_ERROR", "complete", "example_only", "definition_only", "unavailable"}
  /\ ended \in BOOLEAN /\ quiet \in BOOLEAN

\* what was loaded has ids and labels of its own, and the licences it needs
LoadedWell ==
  \A k \in Collections :
    /\ Distinct(k, loaded[k])
    /\ k = examples => Agree(loaded[k]) /\ Agree(store[k])
    /\ NoReviewBesideCcBy /\ k \in {authoritative, examples} =>
         \A doc \in loaded[k] : doc.source \in allowed[k]

\* collection k holds the documents
Holds(k, documents) ==
  documents \subseteq store[k] /\ (option.reset => store[k] = documents)

\* how far the bootstrap has come
Filled ==
  /\ doing # "nothing" => ~ended /\ \A k \in 1..(stage - 1) : Holds(k, loaded[k])
  /\ ended => \A k \in Collections : Holds(k, loaded[k])
  /\ doing \in {"open", "create", "upsert"} => pending \subseteq loaded[stage]
  /\ doing \in {"open", "create"} => pending = loaded[stage]
  /\ doing = "create" /\ option.reset => store[stage] = {}
  /\ doing = "upsert" => Holds(stage, loaded[stage] \ pending)

\* a retriever that was opened in time has handles on the collections there are
Served ==
  /\ Opened # Collections => bundle = Unasked /\ answer = "none"
  /\ quiet => /\ ended
              /\ \A k \in Opened : handles[k] = live[k]
              /\ \A k \in Collections : bundle[k] # "failed" /\ (bundle[k] = "empty" => loaded[k] = {})
              /\ answer # "RAG_RETRIEVAL_ERROR"

Inv == TypeOK /\ LoadedWell /\ Filled /\ Served

LEMMA InitInv == Init => Inv
<1> SUFFICES ASSUME Init PROVE Inv
  OBVIOUS
<1> USE DEF Init
<1>1. TypeOK
  <2>1. taxonomy \in Collections
    BY DEF taxonomy, Collections
  <2> QED BY <2>1 DEF TypeOK, Unasked
<1>2. LoadedWell
  BY DEF LoadedWell, Distinct, Agree
<1>3. Filled
  BY DEF Filled
<1>4. Served
  BY DEF Served, Unasked
<1> QED BY <1>1, <1>2, <1>3, <1>4 DEF Inv

\* Steps of the bootstrap are none of the retriever's, and a bootstrap that
\* runs has not ended: what a retriever is promised does not bind.
LEMMA ServedMeanwhile ==
  ASSUME Inv, doing # "nothing", UNCHANGED <<worker, quiet>>
  PROVE  Served' /\ ~quiet
BY DEF Inv, Served, Filled, worker, Opened, Unasked

LEMMA LoadInv == ASSUME Inv, Load PROVE Inv'
<1> USE DEF Load, worker
<1> PICK documents \in Loadable(stage, manifest, option) :
      loaded' = [loaded EXCEPT ![stage] = documents] /\ pending' = documents
  OBVIOUS
<1>1. TypeOK'
  BY DEF Inv, TypeOK
<1>2. /\ Distinct(stage, documents)
      /\ stage = examples => Agree(documents)
      /\ NoReviewBesideCcBy /\ stage \in {authoritative, examples} =>
           \A doc \in documents : doc.source \in FreeToUse(manifest)
  BY LoadableDocuments DEF Inv, TypeOK
<1>3. LoadedWell'
  <2> SUFFICES ASSUME NEW k \in Collections
               PROVE  /\ Distinct(k, loaded'[k])
                      /\ k = examples => Agree(loaded'[k]) /\ Agree(store[k])
                      /\ NoReviewBesideCcBy /\ k \in {authoritative, examples} =>
                           \A doc \in loaded'[k] : doc.source \in allowed'[k]
    BY DEF LoadedWell, Distinct, Agree, Id
  <2>1. CASE k = stage
    <3>1. loaded'[k] = documents /\ allowed'[k] = FreeToUse(manifest)
      BY <2>1 DEF Inv, TypeOK
    <3> QED BY <1>2, <2>1, <3>1 DEF Inv, LoadedWell
  <2>2. CASE k # stage
    <3>1. loaded'[k] = loaded[k] /\ allowed'[k] = allowed[k]
      BY <2>2 DEF Inv, TypeOK
    <3> QED BY <3>1 DEF Inv, LoadedWell
  <2> QED BY <2>1, <2>2
<1>4. Filled'
  <2>1. ~ended /\ \A k \in 1..(stage - 1) : Holds(k, loaded[k]) /\ loaded'[k] = loaded[k]
    BY DEF Inv, TypeOK, Filled, Collections
  <2>2. \A k \in 1..(stage - 1) : Holds(k, loaded[k])'
    BY <2>1 DEF Holds
  <2> QED BY <2>1, <2>2 DEF Inv, TypeOK, Filled, Holds
<1>5. Served'
  BY ServedMeanwhile
<1> QED BY <1>1, <1>3, <1>4, <1>5 DEF Inv

LEMMA DeleteInv == ASSUME Inv, DeleteCollection PROVE Inv'
<1> USE DEF DeleteCollection, worker
<1>1. TypeOK'
  BY DEF Inv, TypeOK
<1>2. LoadedWell'
  BY DEF Inv, TypeOK, LoadedWell, Distinct, Agree
<1>3. Filled'
  <2>1. \A k \in 1..(stage - 1) : Holds(k, loaded[k])'
    BY DEF Inv, TypeOK, Filled, Holds, Collections
  <2> QED BY <2>1 DEF Inv, TypeOK, Filled
<1>4. Served'
  BY ServedMeanwhile
<1> QED BY <1>1, <1>2, <1>3, <1>4 DEF Inv

LEMMA OpenInv == ASSUME Inv, Open PROVE Inv'
<1> USE DEF Open, worker, GetOrCreate
<1>1. TypeOK'
  BY DEF Inv, TypeOK
<1>2. LoadedWell'
  BY DEF Inv, LoadedWell, Distinct, Agree, Id
<1>3. Filled'
  BY DEF Inv, Filled, Holds
<1>4. Served'
  BY ServedMeanwhile
<1> QED BY <1>1, <1>2, <1>3, <1>4 DEF Inv

\* An upsert of documents whose ids are none of the others'.  (upsert_documents)
LEMMA UpsertHolds ==
  ASSUME NEW k, NEW documents, NEW done, NEW held, NEW batch,
         Distinct(k, documents), done \subseteq documents, batch \subseteq documents,
         batch \cap done = {}, done \subseteq held
  PROVE  /\ done \cup batch \subseteq Upserted(k, held, batch)
         /\ held = done => Upserted(k, held, batch) = done \cup batch
BY DEF Distinct, Upserted

LEMMA UpsertInv == ASSUME Inv, UpsertBatch PROVE Inv'
<1> USE DEF UpsertBatch, worker
<1> PICK batch \in SUBSET pending :
      store' = [store EXCEPT ![stage] = Upserted(stage, @, batch)] /\ pending' = pending \ batch
  OBVIOUS
<1>1. TypeOK'
  BY DEF Inv, TypeOK
<1>2. /\ pending \subseteq loaded[stage] /\ Holds(stage, loaded[stage] \ pending)
      /\ Distinct(stage, loaded[stage])
      /\ store'[stage] = Upserted(stage, store[stage], batch)
      /\ \A k \in Collections \ {stage} : store'[k] = store[k]
  BY DEF Inv, TypeOK, Filled, LoadedWell
<1>3. LoadedWell'
  <2>1. stage = examples => Agree(store'[stage])
    BY <1>2 DEF Inv, TypeOK, LoadedWell, Agree, Upserted
  <2>2. Agree(store[examples]) => Agree(store'[examples])
    BY <1>2, <2>1 DEF Inv, TypeOK, Collections, examples
  <2> QED BY <2>2 DEF Inv, LoadedWell, Distinct, Agree, Id
<1>4. Holds(stage, loaded[stage] \ pending)'
  <2> DEFINE done == loaded[stage] \ pending
  <2>1. /\ done \cup batch \subseteq Upserted(stage, store[stage], batch)
        /\ store[stage] = done => Upserted(stage, store[stage], batch) = done \cup batch
    <3>1. done \subseteq loaded[stage] /\ batch \subseteq loaded[stage] /\ batch \cap done = {}
          /\ done \subseteq store[stage]
      BY <1>2 DEF Holds
    <3> HIDE DEF done
    <3> QED BY ONLY <1>2, <3>1, UpsertHolds
  <2>2. (loaded[stage] \ pending)' = done \cup batch
    BY <1>2
  <2> QED BY <1>2, <2>1, <2>2 DEF Holds
<1>5. Filled'
  <2>1. ~ended /\ \A k \in 1..(stage - 1) : Holds(k, loaded[k])'
    BY <1>2 DEF Inv, TypeOK, Filled, Holds, Collections
  <2> QED BY <1>2, <1>4, <2>1 DEF Inv, Filled
<1>6. Served'
  BY ServedMeanwhile
<1> QED BY <1>1, <1>3, <1>5, <1>6 DEF Inv

LEMMA NextStageInv == ASSUME Inv, NextStage PROVE Inv'
<1> USE DEF NextStage, worker
<1>1. TypeOK'
  <2>1. stage' \in Collections
    BY DEF Inv, TypeOK, Collections, examples
  <2> QED BY <2>1 DEF Inv, TypeOK
<1>2. LoadedWell'
  BY DEF Inv, LoadedWell, Distinct, Agree, Id
<1>3. \A k \in 1..stage : Holds(k, loaded[k])'
  <2>1. Holds(stage, loaded[stage])
    BY DEF Inv, Filled, Holds
  <2>2. \A k \in 1..(stage - 1) : Holds(k, loaded[k])
    BY DEF Inv, Filled
  <2>3. \A k \in 1..stage : k = stage \/ k \in 1..(stage - 1)
    BY DEF Inv, TypeOK, Collections
  <2>4. \A k : Holds(k, loaded[k]) => Holds(k, loaded[k])'
    BY DEF Holds
  <2> QED BY <2>1, <2>2, <2>3, <2>4
<1>4. Filled'
  BY <1>3 DEF Inv, TypeOK, Filled, Holds, Collections, examples
<1>5. Served'
  BY ServedMeanwhile
<1> QED BY <1>1, <1>2, <1>4, <1>5 DEF Inv

LEMMA OtherInv == ASSUME Inv, EditManifest \/ Run \/ Abort PROVE Inv'
<1> USE DEF EditManifest, Run, Abort, bootstrap, worker
<1>1. TypeOK'
  <2>1. taxonomy \in Collections
    BY DEF taxonomy, Collections
  <2> QED BY <2>1 DEF Inv, TypeOK
<1>2. LoadedWell'
  BY DEF Inv, LoadedWell, Distinct, Agree, Id
<1>3. Filled'
  BY DEF Inv, Filled, Holds, taxonomy
<1>4. Served'
  BY DEF Inv, Served, Opened
<1> QED BY <1>1, <1>2, <1>3, <1>4 DEF Inv

LEMMA OpenHandleInv == ASSUME Inv, NEW k \in Collections, OpenHandle(k) PROVE Inv'
<1> USE DEF OpenHandle, bootstrap, GetOrCreate
<1>1. TypeOK'
  <2>1. ids' \in Nat /\ live' \in [Collections -> Nat]
    BY DEF Inv, TypeOK
  <2>2. handles' \in [Collections -> Nat] /\ quiet' \in BOOLEAN
    BY <2>1 DEF Inv, TypeOK
  <2> QED BY <2>1, <2>2 DEF Inv, TypeOK
<1>2. LoadedWell' /\ Filled'
  BY DEF Inv, LoadedWell, Distinct, Agree, Id, Filled, Holds
<1>3. Opened # Collections /\ k \notin Opened /\ (k = taxonomy => Opened = {})
  <2>1. Opened = 1..(k-1)
    OBVIOUS
  <2>2. k \in Int /\ 1 <= k /\ k <= 3
    BY DEF Collections
  <2>3. k \notin 1..(k-1) /\ k \in Collections /\ (k = 1 => 1..(k-1) = {})
    BY <2>2
  <2> QED BY <2>1, <2>3 DEF taxonomy
<1>4. bundle' = Unasked /\ answer' = "none"
  BY <1>3 DEF Inv, Served
<1>5. Opened' = Opened \cup {k}
  BY DEF Inv, TypeOK, Opened
<1>6. ASSUME quiet' PROVE ended /\ \A j \in Opened' : handles'[j] = live'[j]
  <2>1. \A j \in Opened : handles[j] = live[j] /\ handles[j] # 0 /\ j # k /\ j \in Collections
    BY <1>3, <1>6 DEF Inv, Served, Opened
  <2>2. \A j \in Opened : handles'[j] = live'[j]
    BY <2>1 DEF Inv, TypeOK
  <2>3. handles'[k] = live'[k]
    BY DEF Inv, TypeOK
  <2> QED BY <1>5, <1>6, <2>2, <2>3 DEF Inv, Served
<1>7. Served'
  BY <1>4, <1>6 DEF Served, Unasked
<1> QED BY <1>1, <1>2, <1>7 DEF Inv

LEMMA QueryInv == ASSUME Inv, NEW k \in Collections, Query(k) PROVE Inv'
<1> USE DEF Query, bootstrap
<1>1. TypeOK'
  BY DEF Inv, TypeOK, Queried
<1>2. LoadedWell' /\ Filled'
  BY DEF Inv, LoadedWell, Distinct, Agree, Id, Filled, Holds
<1>3. ASSUME quiet PROVE bundle'[k] # "failed" /\ (bundle'[k] = "empty" => loaded[k] = {})
  BY <1>3 DEF Inv, TypeOK, Served, Filled, Holds, Queried
<1>4. Served'
  BY <1>3 DEF Inv, TypeOK, Served, Opened
<1> QED BY <1>1, <1>2, <1>4 DEF Inv

LEMMA AnswerInv == ASSUME Inv, Answer \/ NextText \/ Close PROVE Inv'
<1> USE DEF Answer, NextText, Close, bootstrap
<1>1. TypeOK'
  <2>1. handles' \in [Collections -> Nat]
    <3>1. handles' = handles \/ handles' = [k \in Collections |-> 0]
      OBVIOUS
    <3>2. handles \in [Collections -> Nat]
      BY DEF Inv, TypeOK
    <3> QED BY ONLY <3>1, <3>2
  <2>2. bundle' \in [Collections -> {"unasked", "failed", "empty", "found"}]
    BY DEF Inv, TypeOK, Unasked
  <2>3. answer' \in {"none", "RAG_RETRIEVAL_ERROR", "complete", "example_only", "definition_only", "unavailable"}
    BY DEF ContextStatus
  <2> QED BY <2>1, <2>2, <2>3 DEF Inv, TypeOK
<1>2. LoadedWell' /\ Filled'
  <2>1. UNCHANGED <<bootstrap, store>>
    OBVIOUS
  <2> HIDE DEF Answer, NextText, Close
  <2> QED BY <2>1 DEF Inv, LoadedWell, Distinct, Agree, Id, Filled, Holds
<1>3. Served'
  <2>1. CASE Answer
    <3>1. Opened = Collections
      BY <2>1 DEF Inv, Served, Unasked, Collections
    <3>2. quiet => Failures # Collections
      BY DEF Inv, Served, Failures, Collections
    <3> QED BY <2>1, <3>1, <3>2 DEF Inv, Served, Opened, ContextStatus
  <2>2. CASE NextText
    BY <2>2 DEF Inv, Served, Opened, Unasked
  <2>3. CASE Close
    BY <2>3 DEF Inv, Served, Opened, Unasked
  <2> QED BY <2>1, <2>2, <2>3
<1> QED BY <1>1, <1>2, <1>3 DEF Inv

LEMMA AlwaysInv == Spec => []Inv
<1>1. ASSUME Inv, UNCHANGED vars PROVE Inv'
  BY <1>1 DEF vars, bootstrap, worker, Inv, TypeOK, LoadedWell, Distinct, Agree, Id, Filled, Holds, Served, Opened
<1>2. Inv /\ [Next]_vars => Inv'
  BY <1>1, LoadInv, DeleteInv, OpenInv, UpsertInv, NextStageInv, OtherInv, OpenHandleInv, QueryInv, AnswerInv
     DEF Next
<1> QED BY InitInv, <1>2, PTL DEF Spec

-----------------------------------------------------------------------------
(* What the corpus promises *)

\* A bootstrap that ended has left in each collection what it loaded, and with
\* --reset nothing else, whatever was left by those before it.
\* (scripts/bootstrap_corpus.py, main; vector_store.py, upsert_documents)
THEOREM Complete == Spec => []FinishedIsComplete
<1>1. Inv => FinishedIsComplete
  BY DEF Inv, Filled, Holds, FinishedIsComplete
<1> QED BY AlwaysInv, <1>1, PTL

\* With --reset no document stays whose licence asks for more, if no entry of
\* the manifest asks for a review beside a permissive licence: without that the
\* order of the tests in normalize_license_tier lets it in.
\* (license_policy.py, normalize_license_tier)
THEOREM Licensed ==
  ASSUME NoReviewBesideCcBy
  PROVE  Spec => []LicensedOnly
<1>1. Inv => LicensedOnly
  BY DEF Inv, Filled, Holds, LoadedWell, LicensedOnly, Collections, authoritative, examples
<1> QED BY AlwaysInv, <1>1, PTL

\* Every example in the collection is labelled the same way twice.
\* (example_loaders.py, _beep_categories, _k_haters_categories)
THEOREM Labelled == Spec => []LabelsAgree
<1>1. Inv => LabelsAgree
  BY DEF Inv, LoadedWell, Agree, LabelsAgree, Collections, examples
<1> QED BY AlwaysInv, <1>1, PTL

\* A retriever opened between two bootstraps is answered in full.
\* (retriever.py, DualVectorRetriever)
THEOREM Whole == Spec => []ServedWhole
<1>1. Inv => ServedWhole
  BY DEF Inv, Served, ServedWhole
<1> QED BY AlwaysInv, <1>1, PTL
=============================================================================
