---------------------------- MODULE ProviderLookup ----------------------------
(***************************************************************************)
(* Lookups of items in the provider tables, and what they have to agree on.*)
(***************************************************************************)
EXTENDS Providers

CONSTANT Inputs

VARIABLES dataCache, cfgData, asked

vars == <<dataCache, cfgData, asked>>

Files == DOMAIN dataCache.pkg_fn
Items == DOMAIN dataCache.providers
FilesOf(pn) == {f \in Files : dataCache.pkg_fn[f] = pn}
PNs == {dataCache.pkg_fn[f] : f \in Files}

Init == \E input \in Inputs :
          /\ dataCache = input.dataCache
          /\ cfgData = input.cfgData
          /\ asked = [item |-> None, order |-> <<>>, build |-> <<>>, runtime |-> <<>>]

\* An item is looked up for building and for running; the disk lists the
\* files of its recipe in some order.
Ask(item) ==
  \E order \in {Ascending(FilesOf(item)), Descending(FilesOf(item))} :
    /\ asked' = [item |-> item,
                 order |-> order,
                 build |-> filterProviders(item, cfgData, dataCache),
                 runtime |-> filterProvidersRunTime(item, cfgData, dataCache)]
    /\ UNCHANGED <<dataCache, cfgData>>

Next == \E item \in Items : asked.item # item /\ Ask(item)

Spec == Init /\ [][Next]_vars

Better(f, g) ==
  \/ dataCache.bbfile_priority[f] > dataCache.bbfile_priority[g]
  \/ /\ dataCache.bbfile_priority[f] = dataCache.bbfile_priority[g]
     /\ \/ dataCache.pkg_dp[f] > dataCache.pkg_dp[g]
        \/ /\ dataCache.pkg_dp[f] = dataCache.pkg_dp[g]
           /\ dataCache.pkg_pepvpr[f] > dataCache.pkg_pepvpr[g]

Ranks(f) == <<dataCache.bbfile_priority[f], dataCache.pkg_dp[f], dataCache.pkg_pepvpr[f]>>

Available(pn) == {f \in FilesOf(pn) : dataCache.pkg_pepvpr[f] \in Wanted(pn, cfgData)}

MissingRequired(item) ==
  {pn \in {dataCache.pkg_fn[f] : f \in dataCache.providers[item]} :
     cfgData.REQUIRED[pn] # {} /\ Available(pn) = {}}

Answered == asked.item # None
Best == findBestProvider(asked.item, cfgData, dataCache, asked.order)

Correct(best, pn) ==
  IF cfgData.REQUIRED[pn] # {} /\ Available(pn) = {} THEN best = None
  ELSE IF Available(pn) # {}
  THEN /\ best \in Available(pn)
       /\ \A f \in Available(pn) :
            dataCache.bbfile_priority[f] <= dataCache.bbfile_priority[best]
  ELSE best \in FilesOf(pn) /\ \A f \in FilesOf(pn) : ~Better(f, best)

\* findBestProvider, whatever order the disk lists the files in: a file of the
\* wanted version from the layer with the highest priority that has one, and
\* without one the greatest by priority, DEFAULT_PREFERENCE and version; none
\* if a required version is missing.
BestProvider == Answered /\ asked.item \in PNs => Correct(Best, asked.item)

\* The file filterProviders has a build use is, but for files that rank the
\* same, the one findBestProvider shows (bitbake -s, the world list) for that
\* recipe, although the two read the files in different orders.
BuildAgreesWithBest ==
  Answered /\ asked.item \in PNs /\ MissingRequired(asked.item) = {}
    /\ Cardinality(Wanted(asked.item, cfgData)) < 2 =>
    \E f \in ToSet(asked.build.eligible) \cap FilesOf(asked.item) : Ranks(f) = Ranks(Best)

\* filterProviders offers one file of every recipe that provides the item, the
\* preferred provider's first and by default that of the recipe of that name.
OnePerRecipe ==
  Answered /\ MissingRequired(asked.item) = {} =>
    LET files == asked.build.eligible
        pns == {dataCache.pkg_fn[f] : f \in dataCache.providers[asked.item]}
    IN  /\ {dataCache.pkg_fn[f] : f \in ToSet(files)} = pns
        /\ Len(files) = Cardinality(pns)
        /\ cfgData.PROVIDER[asked.item] \in pns =>
             dataCache.pkg_fn[files[1]] = cfgData.PROVIDER[asked.item]
        /\ asked.item \in pns /\ cfgData.PROVIDER[asked.item] \notin pns =>
             dataCache.pkg_fn[files[1]] = asked.item

\* The recipes the PREFERRED_PROVIDERs of the provides of the eligible recipes
\* name for a runtime item.
PreferredPNs ==
  LET pns == {dataCache.pkg_fn[f] : f \in ToSet(asked.runtime.eligible)}
  IN  pns \cap {cfgData.PROVIDER[provide] :
                  provide \in UNION {ToSet(dataCache.pn_provides[pn]) : pn \in pns}}

\* Where those entries name one recipe, filterProvidersRunTime counts one and
\* puts its file first, though the loop changes the list it runs over; where
\* they name none it counts none; it never invents a conflict.
RuntimePreferred ==
  Answered /\ cfgData.RPROVIDER[asked.item] = None =>
    /\ asked.runtime.numberPreferred <= Cardinality(PreferredPNs)
    /\ Cardinality(PreferredPNs) = 1 =>
         /\ asked.runtime.numberPreferred = 1
         /\ dataCache.pkg_fn[asked.runtime.eligible[1]] \in PreferredPNs

NamedBy(f) ==
  {cfgData.PROVIDER[provide] : provide \in ToSet(dataCache.pn_provides[dataCache.pkg_fn[f]])}
    \cap PreferredPNs

\* "looking through the provides of each eligible recipe": two eligible recipes
\* whose entries name two recipes are a conflict, and more than one is counted.
RuntimeConflictFound ==
  Answered /\ cfgData.RPROVIDER[asked.item] = None =>
    \A f, g \in ToSet(asked.runtime.eligible) :
      Cardinality(NamedBy(f)) = 1 /\ Cardinality(NamedBy(g)) = 1 /\ NamedBy(f) # NamedBy(g)
        => asked.runtime.numberPreferred > 1

===============================================================================
