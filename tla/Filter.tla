-------------------------------- MODULE Filter --------------------------------
(***************************************************************************)
(* InstrumentationFilter.cpp: which functions, events, arguments and files *)
(* are instrumented.  A name is a sequence of characters, a glob may have  *)
(* stars in it; characters are numbers in the order std::map compares them.*)
(*                                                                         *)
(* The filter file is JSON; a key it does not have is the empty set.       *)
(* Names in object code have no star in them and are not empty, and the    *)
(* minimum size is not negative.                                           *)
(***************************************************************************)
EXTENDS Integers, Sequences, FiniteSets

CONSTANTS
  Names,        (* names of functions and files                            *)
  Events,       (* "access", "function", "alloc"                           *)
  FilterFiles   (* what the DIN_FILTERS file may hold                      *)

VARIABLE filters   (* the filter file as it was parsed, and loaded         *)

Star == 0

AnyName == <<Star>>     (* the glob of a single star                       *)

(* Nothing is loaded, or the file was the JSON value null: every key of it *)
(* is null.                                                                *)
Null == [loaded |-> FALSE,
         functionBlacklist |-> {}, fileBlacklist |-> {}, fileWhitelist |-> {},
         functionFilters |-> <<>>, minimum |-> {}]

ASSUME FilterAssumption ==
  /\ Names \subseteq Seq(Nat \ {Star}) \ {<<>>}
  /\ \A f \in FilterFiles :
       /\ f \in [loaded : {TRUE},
                functionBlacklist : SUBSET Seq(Nat), fileBlacklist : SUBSET Seq(Nat),
                fileWhitelist : SUBSET Seq(Nat),
                functionFilters : {f.functionFilters}, minimum : SUBSET Nat]
       /\ f.functionFilters \in
            [DOMAIN f.functionFilters -> [events : SUBSET Events, arguments : SUBSET Nat]]
       /\ DOMAIN f.functionFilters \in SUBSET Seq(Nat)
       /\ IsFiniteSet(DOMAIN f.functionFilters)
       /\ Cardinality(f.minimum) <= 1

-----------------------------------------------------------------------------
(* globMatch.  m[<<i, j>>] is the call in which i characters of the glob   *)
(* and j of the name are behind; the mutant lets a star stand for one or   *)
(* more characters only.                                                   *)
GlobMatchOneOrMore(glob, s) ==
  LET m[p \in (0 .. Len(glob)) \X (0 .. Len(s))] ==
        LET i == p[1]
            j == p[2]
        IN IF i = Len(glob) \/ j = Len(s) THEN i = Len(glob) /\ j = Len(s)
           ELSE IF glob[i + 1] = Star THEN m[<<i + 1, j + 1>>] \/ m[<<i, j + 1>>]
           ELSE glob[i + 1] = s[j + 1] /\ m[<<i + 1, j + 1>>]
  IN m[<<0, 0>>]

GlobMatch(glob, s) ==
  LET m[p \in (0 .. Len(glob)) \X (0 .. Len(s))] ==
        LET i == p[1]
            j == p[2]
        IN IF i = Len(glob) \/ j = Len(s)
           THEN \/ i = Len(glob) /\ j = Len(s)
                \/ i = Len(glob) - 1 /\ glob[i + 1] = Star
           ELSE IF glob[i + 1] = Star
           THEN m[<<i + 1, j + 1>>] \/ m[<<i, j + 1>>] \/ m[<<i + 1, j>>]
           ELSE glob[i + 1] = s[j + 1] /\ m[<<i + 1, j + 1>>]
  IN m[<<0, 0>>]

(* One of the globs matches the end of the name.                           *)
Listed(globs, name) == \E g \in globs : GlobMatch(AnyName \o g, name)

CheckFunctionBlacklist(fl, name) == fl.loaded /\ Listed(fl.functionBlacklist, name)

CheckFileFilter(fl, name) ==
  fl.loaded =>
    /\ ~Listed(fl.fileBlacklist, name)
    /\ fl.fileWhitelist # {} => Listed(fl.fileWhitelist, name)

-----------------------------------------------------------------------------
(* The whitelist of functions.                                             *)

(* a comes before b in the map.                                            *)
Precedes(a, b) ==
  \E i \in 0 .. Len(a) :
    /\ i <= Len(b) /\ \A j \in 1 .. i : a[j] = b[j]
    /\ \/ i = Len(a) /\ i < Len(b)
       \/ i < Len(a) /\ i < Len(b) /\ a[i + 1] < b[i + 1]

(* The one a loop over the map meets first; the mutant takes the last.     *)
Latest(globs) == CHOOSE g \in globs : \A h \in globs \ {g} : Precedes(h, g)

First(globs) == CHOOSE g \in globs : \A h \in globs \ {g} : Precedes(g, h)

(* findBestFunctionMatch                                                   *)
FindBestFunctionMatch(fl, name) ==
  LET keys == DOMAIN fl.functionFilters
      matching == {g \in keys \ {AnyName} : GlobMatch(g, name)}
  IN IF name \in keys THEN name
     ELSE IF matching # {} THEN First(matching)
     ELSE IF AnyName \in keys THEN AnyName ELSE <<>>

(* The best match of a name that nothing matches is the empty key.         *)
BestEntry(fl, name) ==
  LET best == FindBestFunctionMatch(fl, name)
  IN IF best \in DOMAIN fl.functionFilters THEN fl.functionFilters[best]
     ELSE [events |-> {}, arguments |-> {}]

(* The whitelist's part of checkFunctionFilter; in the mutant an entry that*)
(* lists no event does not restrict.                                       *)
AllowsUnlisted(fl, name, event) ==
  \/ DOMAIN fl.functionFilters = {} \/ BestEntry(fl, name).events = {}
  \/ event \in BestEntry(fl, name).events

Allows(fl, name, event) ==
  DOMAIN fl.functionFilters = {} \/ event \in BestEntry(fl, name).events

(* checkFunctionFilter, which asks about the function "*" first.           *)
CheckFunctionFilter(fl, name, event) ==
  fl.loaded =>
    /\ ~CheckFunctionBlacklist(fl, name)
    /\ \/ ~CheckFunctionBlacklist(fl, AnyName) /\ Allows(fl, AnyName, event)
       \/ Allows(fl, name, event)

CheckFunctionArgFilter(fl, name, arg) ==
  fl.loaded /\ arg \in BestEntry(fl, name).arguments

(* checkFunctionSize: a function is kept for its size, or for an entry of  *)
(* the whitelist other than "*".  (The list of sizes it keeps is not here.)*)
CheckFunctionSize(fl, name, size) ==
  \/ fl.minimum = {}
  \/ \E minimum \in fl.minimum : size >= minimum
  \/ FindBestFunctionMatch(fl, name) \notin {AnyName, <<>>}

-----------------------------------------------------------------------------
(* loadFilterDataEnv, loadFilterData, which a compiler calls once: the     *)
(* variable is not set, the file cannot be opened or does not parse; or it *)
(* does.                                                                   *)
LoadFilterData == {Null} \cup FilterFiles

Init == filters = Null

Next == ~filters.loaded /\ filters' \in LoadFilterData

Spec == Init /\ [][Next]_filters

-----------------------------------------------------------------------------
(* Correctness.                                                            *)

(* What a glob means: each star stands for any characters, each other      *)
(* character for itself; to[i] is where the i-th character of the glob     *)
(* ends in the name.                                                       *)
Matches(glob, s) ==
  \E to \in [0 .. Len(glob) -> 0 .. Len(s)] :
    /\ to[0] = 0 /\ to[Len(glob)] = Len(s)
    /\ \A i \in 1 .. Len(glob) :
         IF glob[i] = Star THEN to[i] >= to[i - 1]
         ELSE to[i] = to[i - 1] + 1 /\ s[to[i]] = glob[i]

Front1(s) == SubSeq(s, 1, Len(s) - 1)

EndsInStars(glob) ==
  Len(glob) >= 2 /\ glob[Len(glob)] = Star /\ glob[Len(glob) - 1] = Star

(* A function is blacklisted if one of the globs matches the end of its    *)
(* name; only stars at the end of a glob, two or more, do not stand for the*)
(* empty string, as the recursion of globMatch ends at "*".                *)
BlacklistedBySuffix ==
  \A name \in Names :
    CheckFunctionBlacklist(filters, name) <=>
      /\ filters.loaded
      /\ \E g \in filters.functionBlacklist :
           IF EndsInStars(AnyName \o g)
           THEN Matches(AnyName \o Front1(g), Front1(name))
           ELSE Matches(AnyName \o g, name)

(* The filter file with one more event in the entry of glob g.             *)
WithEvent(fl, g, event) ==
  [fl EXCEPT !.functionFilters[g].events = @ \cup {event}]

(* More events in an entry never disable an event of a function: whatever  *)
(* entry decides, the answers can only grow.                               *)
EventsOnlyAdd ==
  \A g \in DOMAIN filters.functionFilters : \A added, event \in Events :
    \A name \in Names :
      CheckFunctionFilter(filters, name, event) =>
        CheckFunctionFilter(WithEvent(filters, g, added), name, event)

(* The filter file without the entry of glob g.                            *)
Without(fl, g) ==
  [fl EXCEPT !.functionFilters =
     [h \in DOMAIN fl.functionFilters \ {g} |-> fl.functionFilters[h]]]

(* An entry that is neither the name, nor "*" or other stars, nor the first*)
(* in map order that matches the name has no effect on it, unless it is the*)
(* only one.                                                               *)
LaterEntriesIdle ==
  \A name \in Names : \A g, h \in DOMAIN filters.functionFilters :
    /\ g # name /\ Precedes(h, g) /\ h # AnyName
    /\ Matches(h, name) /\ ~EndsInStars(h)
    /\ \E i \in 1 .. Len(g) : g[i] # Star
    => /\ \A event \in Events :
            CheckFunctionFilter(filters, name, event)
              <=> CheckFunctionFilter(Without(filters, g), name, event)
       /\ BestEntry(filters, name) = BestEntry(Without(filters, g), name)

=============================================================================
