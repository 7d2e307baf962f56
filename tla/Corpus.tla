-------------------------------- MODULE Corpus --------------------------------
(***************************************************************************)
(* The three collections of the vector store: how scripts/bootstrap_corpus *)
(* fills them (app/analysis/vector_store.py, rag_ingest.py,                *)
(* definition_ingest.py, example_ingest.py, example_loaders.py,            *)
(* license_policy.py) and what the retriever of a worker that may run      *)
(* meanwhile finds in them (app/analysis/retriever.py).                    *)
(*                                                                         *)
(* Chroma is external.  What is assumed of it: an operation is atomic and  *)
(* seen by other processes at once; a collection keeps its identity until  *)
(* it is deleted, and a handle on a deleted one raises; upsert replaces    *)
(* the documents with the same ids and leaves the others.  One bootstrap   *)
(* runs at a time.                                                         *)
(*                                                                         *)
(* A text is abstracted to a value that tells it from others.  Guidelines  *)
(* are given as the sections _bounded_sections cuts them into, and the     *)
(* hash that ranks documents for a sample may be any.                      *)
(***************************************************************************)
EXTENDS FiniteSets, Integers, Sequences

CONSTANTS
  Datasets,     \* ids of the manifest
  Manifests,    \* what the manifest may say: dataset -> entry
  Rows,         \* the data files: dataset -> version -> sequence of rows
  Sections,     \* the guidelines: dataset -> version -> sequence of sections
  Cards,        \* the internal taxonomy: a sequence of texts
  Options,      \* command lines: [reset, limit, sample]
  BatchSize,    \* UPSERT_BATCH_SIZE
  MaxRuns,      \* bound: bootstraps
  MaxEdits      \* bound: changes of the manifest and its files

None == -1   \* no limit, no sample size

Licences ==
  {"internal_eval", "permission_required", "approval_required", "cc_by_nc", "cc_by_sa",
   "cc_by_4_0", "license_review_required", "usage_restriction"}

Entry == [examples : BOOLEAN, definitions : BOOLEAN, licence : SUBSET Licences, version : Nat]

ASSUME CorpusAssumption ==
  /\ IsFiniteSet(Datasets) /\ Manifests \subseteq [Datasets -> Entry]
  /\ \A m \in Manifests, d \in Datasets :
       /\ m[d].version \in DOMAIN Rows[d] /\ m[d].version \in DOMAIN Sections[d]
  /\ \A o \in Options : o.reset \in BOOLEAN /\ {o.limit, o.sample} \subseteq Nat \cup {None}
  /\ BatchSize \in Nat \ {0} /\ MaxRuns \in Nat /\ MaxEdits \in Nat

\* the labels which the columns of BEEP have, and the lists of K-HATERS
ASSUME RowsAssumption ==
  \A d \in Datasets : \A v \in DOMAIN Rows[d] : \A n \in 1..Len(Rows[d][v]) :
    /\ d = "beep" => /\ Rows[d][v][n].bias \in {"none", "gender", "others"}
                     /\ Rows[d][v][n].hate \in {"none", "offensive", "hate"}
    /\ d = "k-haters" => Rows[d][v][n].targets \in Seq(STRING)

taxonomy      == 1
authoritative == 2
examples      == 3
Collections == 1..3    \* in the order in which they are filled and queried

VARIABLES
  manifest,   \* dataset_sources.yaml and the files it names, by their version
  doing,      \* what the bootstrap does: "nothing", "load", "open", "create", "upsert"
  stage,      \* the collection it is at
  option,     \* its command line
  loaded,     \* the documents each stage last loaded
  pending,    \* those of them that the upserts to come hold
  live,       \* the identity of each collection, 0 without one
  store,      \* its documents
  handles,    \* the retriever's handles, 0 before it has one
  bundle,     \* what each query of the retrieval came to
  answer,     \* _context_status, or the error
  ended,      \* ghost: the last bootstrap came to its end
  allowed,    \* ghost: the datasets a stage was free to use when it loaded
  quiet,      \* ghost: the retriever began after that end, and no bootstrap since
  runs, edits, ids

bootstrap == <<doing, stage, option, loaded, pending, ended, allowed, runs>>
worker    == <<handles, bundle, answer>>
vars      == <<manifest, bootstrap, live, store, worker, quiet, edits, ids>>

-----------------------------------------------------------------------------
(* Licences *)

\* a bug this project looks for: the permissive licence is looked for first
LicenceTierFirst(licence) ==
  IF "cc_by_4_0" \in licence THEN "commercial_ok"
  ELSE IF "internal_eval" \in licence THEN "internal_eval_only"
  ELSE IF licence \cap {"permission_required", "approval_required", "cc_by_nc"} # {}
       THEN "permission_required"
  ELSE IF "cc_by_sa" \in licence THEN "sharealike_review"
  ELSE "license_review_required"

\* normalize_license_tier: the first of these tests that succeeds
LicenceTier(licence) ==
  IF "internal_eval" \in licence THEN "internal_eval_only"
  ELSE IF licence \cap {"permission_required", "approval_required", "cc_by_nc"} # {}
       THEN "permission_required"
  ELSE IF "cc_by_sa" \in licence THEN "sharealike_review"
  ELSE IF "cc_by_4_0" \in licence THEN "commercial_ok"
  ELSE "license_review_required"

DefinitionsAllowed(entry) == entry.definitions /\ LicenceTier(entry.licence) = "commercial_ok"
ExamplesAllowed(entry)    == entry.examples    /\ LicenceTier(entry.licence) = "commercial_ok"

\* The tiers of docs/13_rag_chunking_prompt_strategy.md: a permissive licence
\* that comes with none of the conditions which put a dataset in another tier,
\* whatever the order in which the code looks for them.
Conditions == Licences \ {"cc_by_4_0"}

Unrestricted(licence) == "cc_by_4_0" \in licence /\ licence \cap Conditions = {}

-----------------------------------------------------------------------------
(* Documents *)

Document(source, n, text, hate, category) ==
  [source |-> source, n |-> n, text |-> text, hate |-> hate, category |-> category]

\* doc_id: a guideline's ends with a digest of its text
Id(k, doc) == <<doc.source, doc.n, IF k = authoritative THEN doc.text ELSE 0>>

\* build_internal_taxonomy_documents
TaxonomyDocuments == {Document("internal_taxonomy", n, Cards[n], FALSE, "none") : n \in 1..Len(Cards)}

\* _markdown_documents: sections of less than 40 characters are left out
MarkdownDocuments(d, sections) ==
  {Document(d, n, sections[n].text, FALSE, "none") : n \in {i \in 1..Len(sections) : ~sections[i].short}}

\* load_manifest_definition_documents
DefinitionDocuments(m) ==
  UNION {MarkdownDocuments(d, Sections[d][m[d].version]) : d \in {e \in Datasets : DefinitionsAllowed(m[e])}}

\* a bug this project looks for: hate without a target is left unclassified
BeepCategoryTargeted(row) ==
  IF row.bias = "gender" THEN "gender"
  ELSE IF row.bias = "others" THEN "identity"
  ELSE IF row.hate = "offensive" THEN "profanity" ELSE "unclassified"

\* the first of mapped_categories
BeepCategory(row) ==
  IF row.bias = "gender" THEN "gender"
  ELSE IF row.bias = "others" THEN "identity"
  ELSE IF row.hate = "offensive" THEN "profanity"
  ELSE IF row.hate = "hate" THEN "other" ELSE "unclassified"

KHatersNames == [gender |-> "gender", age |-> "age", race |-> "identity",
                 religion |-> "identity", disability |-> "identity"]

KHatersCategory(row) ==
  LET named == {n \in 1..Len(row.targets) : row.targets[n] \in DOMAIN KHatersNames}
      first == CHOOSE n \in named : \A m \in named : n <= m
  IN
  IF row.label = "normal" THEN "unclassified"
  ELSE IF named # {} THEN KHatersNames[row.targets[first]]
  ELSE IF row.label = "offensive" THEN "profanity" ELSE "other"

IsHate(d, row) ==
  CASE d = "beep"     -> row.hate # "none" \/ row.bias # "none"
    [] d = "k-haters" -> row.label # "normal"
    [] d = "kodoli"   -> row.abuse # "NON" \/ row.offensiveness # "NOT"

Category(d, row) ==
  CASE d = "beep"     -> BeepCategory(row)
    [] d = "k-haters" -> KHatersCategory(row)
    [] d = "kodoli"   -> IF IsHate(d, row) THEN "profanity" ELSE "unclassified"

\* _loader_for
Loaders == {"beep", "kodoli", "k-haters"}

\* the rows of the file that are of the split "train"; the other datasets have
\* a file for each split
InSplit(d, row) == d = "kodoli" => row.bucket < 8

\* the loader with _limit, which drops blank texts and looks at the limit only
\* after it has taken a document
Kept(d, rows, limit) ==
  LET yields   == {n \in 1..Len(rows) : InSplit(d, rows[n]) /\ ~rows[n].blank}
      taken(n) == Cardinality({m \in yields : m < n})
  IN  {n \in yields : limit = None \/ taken(n) = 0 \/ taken(n) < limit}

ExamplesOf(d, rows, limit) ==
  {Document(d, n, rows[n].text, IsHate(d, rows[n]), Category(d, rows[n])) : n \in Kept(d, rows, limit)}

\* load_example_documents
ExampleDocuments(m, limit) ==
  UNION {ExamplesOf(d, Rows[d][m[d].version], limit) :
           d \in {e \in Datasets \cap Loaders : ExamplesAllowed(m[e])}}

\* round(a / b), which takes the even one of two; the code divides first and in
\* floating point, so that its quotient may miss such a tie
Rounded(a, b) ==
  LET q == a \div b  r == a % b IN
  IF 2 * r < b \/ (2 * r = b /\ q % 2 = 0) THEN q ELSE q + 1

OfCategory(documents, category) == {doc \in documents : doc.category = category}

\* stratified_sample
Samples(documents, size) ==
  IF size = None \/ size >= Cardinality(documents) THEN {documents}
  ELSE {s \in SUBSET documents :
          \A category \in {doc.category : doc \in documents} :
            LET group == Cardinality(OfCategory(documents, category))
                share == Rounded(group * size, Cardinality(documents))
            IN  Cardinality(OfCategory(s, category)) = IF share < group THEN share ELSE group}

\* what a stage may load
Loadable(k, m, o) ==
  CASE k = taxonomy      -> {TaxonomyDocuments}
    [] k = authoritative -> {DefinitionDocuments(m)}
    [] k = examples      -> Samples(ExampleDocuments(m, o.limit), o.sample)

FreeToUse(m) == {d \in Datasets : Unrestricted(m[d].licence)}

-----------------------------------------------------------------------------
(* The bootstrap *)

Unasked == [k \in Collections |-> "unasked"]

Init ==
  /\ manifest \in Manifests
  /\ doing = "nothing" /\ stage = taxonomy /\ option \in Options
  /\ loaded = [k \in Collections |-> {}] /\ pending = {}
  /\ live = [k \in Collections |-> 0] /\ store = [k \in Collections |-> {}]
  /\ handles = [k \in Collections |-> 0]
  /\ bundle = Unasked /\ answer = "none"
  /\ ended = FALSE /\ allowed = [k \in Collections |-> {}] /\ quiet = FALSE
  /\ runs = 0 /\ edits = 0 /\ ids = 0

\* somebody changes the manifest, its files or a licence
EditManifest ==
  /\ edits < MaxEdits /\ edits' = edits + 1
  /\ manifest' \in Manifests \ {manifest}
  /\ UNCHANGED <<bootstrap, live, store, worker, quiet, ids>>

Run ==
  /\ doing = "nothing" /\ runs < MaxRuns /\ runs' = runs + 1
  /\ option' \in Options
  /\ doing' = "load" /\ stage' = taxonomy
  /\ ended' = FALSE /\ quiet' = FALSE
  /\ UNCHANGED <<manifest, loaded, pending, allowed, live, store, worker, edits, ids>>

Load ==
  /\ doing = "load"
  /\ \E documents \in Loadable(stage, manifest, option) :
       /\ loaded' = [loaded EXCEPT ![stage] = documents] /\ pending' = documents
  /\ allowed' = [allowed EXCEPT ![stage] = FreeToUse(manifest)]
  /\ doing' = IF option.reset THEN "open" ELSE "create"
  /\ UNCHANGED <<manifest, stage, option, ended, runs, live, store, worker, quiet, edits, ids>>

\* _get_collection with reset, where there is a collection of the name
DeleteCollection ==
  /\ doing = "open" /\ doing' = "create"
  /\ live' = [live EXCEPT ![stage] = 0] /\ store' = [store EXCEPT ![stage] = {}]
  /\ UNCHANGED <<manifest, stage, option, loaded, pending, ended, allowed, runs, worker, quiet, edits, ids>>

\* get_or_create_collection
GetOrCreate(k) ==
  IF live[k] # 0 THEN UNCHANGED <<live, ids>>
  ELSE ids' = ids + 1 /\ live' = [live EXCEPT ![k] = ids + 1]

Open ==
  /\ doing = "create" /\ doing' = "upsert"
  /\ GetOrCreate(stage)
  /\ UNCHANGED <<manifest, stage, option, loaded, pending, ended, allowed, runs, store, worker, quiet, edits>>

\* what a collection holds after an upsert
Upserted(k, documents, batch) ==
  batch \cup {doc \in documents : \A b \in batch : Id(k, b) # Id(k, doc)}

\* a bug this project looks for: the last batch, if it is not full, is left out
UpsertFullBatch ==
  /\ doing = "upsert" /\ pending # {}
  /\ \E batch \in SUBSET pending :
       /\ Cardinality(batch) = BatchSize \/ (batch = pending /\ Cardinality(batch) < BatchSize)
       /\ store' = IF Cardinality(batch) < BatchSize THEN store
                   ELSE [store EXCEPT ![stage] = Upserted(stage, @, batch)]
       /\ pending' = pending \ batch
  /\ UNCHANGED <<manifest, doing, stage, option, loaded, ended, allowed, runs, live, worker, quiet, edits, ids>>

UpsertBatch ==
  /\ doing = "upsert" /\ pending # {}
  /\ \E batch \in SUBSET pending :
       /\ Cardinality(batch) = BatchSize \/ (batch = pending /\ Cardinality(batch) < BatchSize)
       /\ store' = [store EXCEPT ![stage] = Upserted(stage, @, batch)]
       /\ pending' = pending \ batch
  /\ UNCHANGED <<manifest, doing, stage, option, loaded, ended, allowed, runs, live, worker, quiet, edits, ids>>

\* main goes on to the next collection, or is at its end
NextStage ==
  /\ doing = "upsert" /\ pending = {}
  /\ \/ /\ stage # examples
        /\ stage' = stage + 1 /\ doing' = "load" /\ UNCHANGED ended
     \/ /\ stage = examples
        /\ doing' = "nothing" /\ ended' = TRUE /\ UNCHANGED stage
  /\ UNCHANGED <<manifest, option, loaded, pending, allowed, runs, live, store, worker, quiet, edits, ids>>

\* a bug this project looks for: main goes on after a collection that failed
SkipStage ==
  /\ doing # "nothing"
  /\ \/ /\ stage # examples
        /\ stage' = stage + 1 /\ doing' = "load" /\ UNCHANGED ended
     \/ /\ stage = examples
        /\ doing' = "nothing" /\ ended' = TRUE /\ UNCHANGED stage
  /\ UNCHANGED <<manifest, option, loaded, pending, allowed, runs, live, store, worker, quiet, edits, ids>>

\* a file is missing, the embedding fails, or the process dies
Abort ==
  /\ doing # "nothing" /\ doing' = "nothing"
  /\ UNCHANGED <<manifest, stage, option, loaded, pending, ended, allowed, runs, live, store, worker, quiet, edits, ids>>

-----------------------------------------------------------------------------
(* The retriever of a job's runtime *)

Opened == {k \in Collections : handles[k] # 0}

\* DualVectorRetriever.__init__, collection by collection
OpenHandle(k) ==
  /\ Opened = 1..(k-1)
  /\ GetOrCreate(k)
  /\ handles' = [handles EXCEPT ![k] = live'[k]]
  /\ quiet' = IF k = taxonomy THEN ended ELSE quiet
  /\ UNCHANGED <<manifest, bootstrap, store, bundle, answer, edits>>

\* a query finds documents exactly if the collection has any; it raises if the
\* collection is gone
Queried(k) ==
  IF handles[k] # live[k] THEN "failed" ELSE IF store[k] = {} THEN "empty" ELSE "found"

\* retrieve, query by query
Query(k) ==
  /\ Opened = Collections /\ answer = "none"
  /\ bundle[k] = "unasked" /\ \A j \in 1..(k-1) : bundle[j] # "unasked"
  /\ bundle' = [bundle EXCEPT ![k] = Queried(k)]
  /\ UNCHANGED <<manifest, bootstrap, live, store, handles, answer, quiet, edits, ids>>

Failures == {k \in Collections : bundle[k] = "failed"}

ContextStatus(definitions, similar) ==
  IF definitions /\ similar THEN "complete"
  ELSE IF similar THEN "example_only"
  ELSE IF definitions THEN "definition_only" ELSE "unavailable"

\* classify_text: the examples found may all be too far from the text
Answer ==
  /\ answer = "none" /\ \A k \in Collections : bundle[k] # "unasked"
  /\ \/ Failures = Collections /\ answer' = "RAG_RETRIEVAL_ERROR"
     \/ /\ Failures # Collections
        /\ \E similar \in {FALSE, bundle[examples] = "found"} :
             answer' = ContextStatus("found" \in {bundle[taxonomy], bundle[authoritative]}, similar)
  /\ UNCHANGED <<manifest, bootstrap, live, store, handles, bundle, quiet, edits, ids>>

\* the next text of the job
NextText ==
  /\ answer # "none"
  /\ answer' = "none" /\ bundle' = Unasked
  /\ UNCHANGED <<manifest, bootstrap, live, store, handles, quiet, edits, ids>>

\* the job is over
Close ==
  /\ Opened # {}
  /\ handles' = [k \in Collections |-> 0] /\ bundle' = Unasked /\ answer' = "none"
  /\ UNCHANGED <<manifest, bootstrap, live, store, quiet, edits, ids>>

Next ==
  \/ EditManifest
  \/ Run \/ Load \/ DeleteCollection \/ Open \/ UpsertBatch \/ NextStage \/ Abort
  \/ \E k \in Collections : OpenHandle(k) \/ Query(k)
  \/ Answer \/ NextText \/ Close

Spec == Init /\ [][Next]_vars

-----------------------------------------------------------------------------
(* What is promised of it *)

\* When a bootstrap has ended, each collection has all documents it loaded, in
\* the version it loaded, and with --reset no other, whatever bootstraps before
\* it left unfinished and whatever a worker created meanwhile.
FinishedIsComplete ==
  ended => \A k \in Collections :
    /\ loaded[k] \subseteq store[k]
    /\ option.reset => store[k] = loaded[k]

\* No entry of the manifest names a permissive licence and, beside it, a review
\* or a restriction of use; an entry that does is taken for permissive.
NoReviewBesideCcBy ==
  \A m \in Manifests, d \in Datasets :
    "cc_by_4_0" \in m[d].licence =>
      m[d].licence \cap {"license_review_required", "usage_restriction"} = {}

\* After a bootstrap with --reset no document of a dataset is retrieved whose
\* licence, when the corpus was loaded, asked for a permission, an approval, a
\* review or the same licence, restricted its use or was for evaluation only
\* (docs/13_rag_chunking_prompt_strategy.md, the tiers).  The code keeps it for
\* manifests with NoReviewBesideCcBy, as the repository's is, and only for them.
LicensedOnly ==
  ended /\ option.reset => \A k \in {authoritative, examples} : \A doc \in store[k] :
    doc.source \in allowed[k]

\* An example the model is shown as hate has a category of hate, and one shown
\* as none has none, from whichever dataset it comes.
LabelsAgree ==
  \A doc \in store[examples] : doc.hate <=> doc.category # "unclassified"

\* A retriever that was opened after a bootstrap had ended, as the operator is
\* told to, is answered by every collection until the next one begins, and by
\* all that was loaded.
ServedWhole ==
  quiet => \A k \in Collections :
    /\ bundle[k] # "failed" /\ (bundle[k] = "empty" => loaded[k] = {})
    /\ answer # "RAG_RETRIEVAL_ERROR"
=============================================================================
