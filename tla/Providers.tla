------------------------------ MODULE Providers -------------------------------
(***************************************************************************)
(* Which recipe file satisfies a name (providers.py).                      *)
(*                                                                         *)
(* Recipe files, recipe names (PN) and items are positive numbers, in the  *)
(* order their names sort; an item may be the name of a recipe.  0 is      *)
(* Python's None.  dataCache is a record of functions of a file, cfgData   *)
(* one of what the configuration says:                                     *)
(*   dataCache  pkg_fn (its PN), bbfile_priority, pkg_dp, pkg_pepvpr       *)
(*              (a number: vercmp orders the versions), pn_provides (of a  *)
(*              PN), providers and rproviders (files of an item)           *)
(*   cfgData    REQUIRED and PREFERRED: the versions the _VERSION variable *)
(*              of a PN matches ({}: not set; "%" matches several),        *)
(*              PROVIDER and RPROVIDER: the PN preferred for an item       *)
(***************************************************************************)
EXTENDS Naturals, Sequences, SequencesExt, FiniteSets

None == 0

Ascending(S) == SetToSortSeq(S, <)
Descending(S) == SetToSortSeq(S, >)

(* bbfile_priority first, highest first; DEFAULT_PREFERENCE ascending.     *)
sortPriorities(files, dataCache) ==
  LET Of(pri, pref) == SelectSeq(files, LAMBDA f : dataCache.bbfile_priority[f] = pri
                                                /\ dataCache.pkg_dp[f] = pref)
      ByPreference(pri) ==
        LET prefs == Ascending({dataCache.pkg_dp[f] : f \in ToSet(files)})
        IN  FlattenSeq([i \in DOMAIN prefs |-> Of(pri, prefs[i])])
      pris == Descending({dataCache.bbfile_priority[f] : f \in ToSet(files)})
  IN  [i \in DOMAIN pris |-> ByPreference(pris[i])]

(* versionVariableMatch: REQUIRED_VERSION takes precedence. *)
Wanted(pn, cfgData) ==
  IF cfgData.REQUIRED[pn] # {} THEN cfgData.REQUIRED[pn] ELSE cfgData.PREFERRED[pn]

findPreferredProvider(pn, cfgData, dataCache, sorted) ==
  LET hits == SelectSeq(FlattenSeq(sorted),
                        LAMBDA f : dataCache.pkg_pepvpr[f] \in Wanted(pn, cfgData))
  IN  [file |-> IF hits = <<>> THEN None ELSE Head(hits),
       required |-> cfgData.REQUIRED[pn] # {}]

findLatestProvider(dataCache, file_set) ==
  FoldLeft(LAMBDA latest, f :
             IF \/ latest = None
                \/ /\ dataCache.pkg_dp[latest] = dataCache.pkg_dp[f]
                   /\ dataCache.pkg_pepvpr[latest] < dataCache.pkg_pepvpr[f]
                \/ dataCache.pkg_dp[f] > dataCache.pkg_dp[latest]
             THEN f ELSE latest,
           None, file_set)

BestOf(preferred, latest) ==
  IF ~preferred.required /\ preferred.file = None THEN latest ELSE preferred.file

(* files: dataCache.pkg_pn[pn], in the order the disk gave them. *)
findBestProvider(pn, cfgData, dataCache, files) ==
  LET sorted == sortPriorities(files, dataCache)
  IN  BestOf(findPreferredProvider(pn, cfgData, dataCache, sorted),
             findLatestProvider(dataCache, Head(sorted)))

ToFront(f, s) == <<f>> \o Remove(s, f)

\* Mutant: the files with the lowest priority are searched.
LatestOf_LowestPriority(sorted, dataCache) == findLatestProvider(dataCache, Last(sorted))

LatestOf(sorted, dataCache) == findLatestProvider(dataCache, Head(sorted))

(* The recipe's own name is moved to the front. *)
OwnFirst(eligible, item, dataCache) ==
  LET own == SelectSeq(eligible, LAMBDA f : dataCache.pkg_fn[f] = item)
  IN  IF own = <<>> THEN eligible ELSE ToFront(Head(own), eligible)

NotNone(files) == SelectSeq(files, LAMBDA f : f # None)

(* The preferred files, up to the first PN whose required version is       *)
(* missing: then no other is eligible.  The other PNs give their latest.   *)
Candidates(sorted, preferred, item, dataCache) ==
  LET missing == {i \in DOMAIN sorted : preferred[i].required /\ preferred[i].file = None}
      listed == NotNone([i \in DOMAIN sorted |->
                           IF \A j \in missing : i < j THEN preferred[i].file ELSE None])
  IN  IF missing # {} THEN listed
      ELSE OwnFirst(listed \o NotNone([i \in DOMAIN sorted |->
                                         IF preferred[i].file # None THEN None
                                         ELSE LatestOf(sorted[i], dataCache)]),
                    item, dataCache)

CandidatesOf(pns, sorted, item, cfgData, dataCache) ==
  Candidates(sorted,
             [i \in DOMAIN pns |->
                findPreferredProvider(pns[i], cfgData, dataCache, sorted[i])],
             item, dataCache)

SortedFiles(pns, files, dataCache) ==
  [i \in DOMAIN pns |->
     sortPriorities(SelectSeq(files, LAMBDA f : dataCache.pkg_fn[f] = pns[i]), dataCache)]

FilesByName(pns, files, item, cfgData, dataCache) ==
  CandidatesOf(pns, SortedFiles(pns, files, dataCache), item, cfgData, dataCache)

(* _filterProviders: one file of each PN, unless a required version is     *)
(* missing.                                                                *)
EligibleProviders(files, item, cfgData, dataCache) ==
  FilesByName(Ascending({dataCache.pkg_fn[f] : f \in files}), Ascending(files),
              item, cfgData, dataCache)

(* The file of the PN the user prefers, if eligible, is moved to the front.*)
Chosen(eligible, pn, dataCache) == {f \in ToSet(eligible) : dataCache.pkg_fn[f] = pn}

PreferredFirst(eligible, pn, dataCache) ==
  IF Chosen(eligible, pn, dataCache) = {} THEN [eligible |-> eligible, foundUnique |-> FALSE]
  ELSE [eligible |-> ToFront(CHOOSE f \in Chosen(eligible, pn, dataCache) : TRUE, eligible),
        foundUnique |-> TRUE]

filterProviders(item, cfgData, dataCache) ==
  PreferredFirst(EligibleProviders(dataCache.providers[item], item, cfgData, dataCache),
                 cfgData.PROVIDER[item], dataCache)

(* What the PREFERRED_PROVIDER of the first of p's provides to have one    *)
(* among the eligible files names, if it is not preferred already.         *)
PreferredBy(p, eligible, preferred, cfgData, dataCache) ==
  LET Named(provide) == {f \in ToSet(eligible) :
                           /\ dataCache.pkg_fn[f] = cfgData.PROVIDER[provide]
                           /\ f \notin preferred}
      hits == SelectSeq(dataCache.pn_provides[dataCache.pkg_fn[p]],
                        LAMBDA provide : Named(provide) # {})
  IN  IF hits = <<>> THEN None ELSE CHOOSE f \in Named(Head(hits)) : TRUE

(* eligible.remove(pref) and eligible = [pref] + eligible: the first time, *)
(* the list taken from is the one the loop runs over, so that the loop     *)
(* passes over the file after the current one.                             *)
Move(pref, walk) ==
  [list      |-> IF walk.preferred = {} THEN Remove(walk.list, pref) ELSE walk.list,
   eligible  |-> ToFront(pref, walk.eligible),
   preferred |-> walk.preferred \cup {pref},
   i         |-> walk.i + 1]

Passed(pref, walk) == IF pref = None THEN [walk EXCEPT !.i = @ + 1] ELSE Move(pref, walk)

Walked(eligible, cfgData, dataCache) ==
  FoldLeft(LAMBDA walk, n :
             IF walk.i > Len(walk.list) THEN walk
             ELSE Passed(PreferredBy(walk.list[walk.i], eligible, walk.preferred,
                                     cfgData, dataCache), walk),
           [list |-> eligible, eligible |-> eligible, preferred |-> {}, i |-> 1], eligible)

AsPreferred(found, walked) ==
  IF found.foundUnique THEN [eligible |-> found.eligible, numberPreferred |-> 1]
  ELSE [eligible |-> walked.eligible, numberPreferred |-> Cardinality(walked.preferred)]

RuntimeOrder(eligible, pn, cfgData, dataCache) ==
  AsPreferred(PreferredFirst(eligible, pn, dataCache), Walked(eligible, cfgData, dataCache))

filterProvidersRunTime(item, cfgData, dataCache) ==
  RuntimeOrder(EligibleProviders(dataCache.rproviders[item], item, cfgData, dataCache),
               cfgData.RPROVIDER[item], cfgData, dataCache)
===============================================================================
