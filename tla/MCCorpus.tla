------------------------------- MODULE MCCorpus -------------------------------
(* Three datasets with loaders, one with guidelines, and one whose use is    *)
(* restricted.  An edit withdraws the licence of one and grants that of      *)
(* another, and brings a version of the third with fewer rows and another    *)
(* guideline, or takes it back.                                              *)
EXTENDS Corpus

MCDatasets == {"beep", "k-haters", "kodoli", "kold"}

Free       == {"cc_by_4_0"}
ShareAlike == {"cc_by_sa"}
OnRequest  == {"cc_by_4_0", "permission_required"}
Restricted == {"usage_restriction", "license_review_required"}

MCEntry(defs, licence, version) ==
  [examples |-> TRUE, definitions |-> defs, licence |-> licence, version |-> version]

MCManifest(beep, kodoli, version) ==
  [d \in MCDatasets |->
     CASE d = "beep"     -> MCEntry(FALSE, beep, 1)
       [] d = "k-haters" -> MCEntry(TRUE, Free, version)
       [] d = "kodoli"   -> MCEntry(FALSE, kodoli, 1)
       [] d = "kold"     -> MCEntry(TRUE, Restricted, 1)]

MCManifests == {MCManifest(Free, ShareAlike, 1), MCManifest(OnRequest, Free, 2)}

Beep(text, bias, hate) == [text |-> text, blank |-> FALSE, bias |-> bias, hate |-> hate]
KHaters(text, blank, label, targets) ==
  [text |-> text, blank |-> blank, label |-> label, targets |-> targets]
Kodoli(text, bucket) ==
  [text |-> text, blank |-> FALSE, abuse |-> "NON", offensiveness |-> "OFF", bucket |-> bucket]

MCRows ==
  [d \in MCDatasets |->
     CASE d = "beep"     -> << <<Beep(1, "none", "hate"), Beep(2, "none", "none")>> >>
       [] d = "k-haters" -> << <<KHaters(1, TRUE, "normal", << >>), KHaters(2, FALSE, "offensive", <<"individual">>)>>,
                               <<KHaters(3, FALSE, "l1_hate", <<"individual", "age">>)>> >>
       [] d = "kodoli"   -> << <<Kodoli(1, 3), Kodoli(2, 9)>> >>
       [] d = "kold"     -> << << >> >>]

Section(text, short) == [text |-> text, short |-> short]

MCSections ==
  [d \in MCDatasets |->
     << <<Section(1, FALSE), Section(2, TRUE)>>, <<Section(3, FALSE), Section(4, FALSE)>> >>]

MCCards == <<1>>

MCOptions ==
  {[reset |-> TRUE, limit |-> None, sample |-> None],
   [reset |-> FALSE, limit |-> 1, sample |-> 1]}
=============================================================================
