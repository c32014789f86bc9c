------------------------------- MODULE MCFilter -------------------------------
(* Filter for TLC: names of up to three of two letters; globs.             *)
EXTENDS Filter, TLC

Words(chars, n) == UNION {[1 .. k -> chars] : k \in 1 .. n}

ShortNames == Words({1, 2}, 2) \cup {<<1, 1, 2>>, <<1, 2, 1>>, <<2, 2, 1>>}

(* Every glob of up to four characters, and every list of two short ones.  *)
Blacklists ==
  {{g} : g \in Words({Star, 1, 2}, 4)}
  \cup {{g, h} : g, h \in Words({Star, 1}, 2)}

BlacklistFiles ==
  {[Null EXCEPT !.loaded = TRUE, !.functionBlacklist = list] : list \in Blacklists}

(* Whitelists with entries for "*", "**", "*b", "a*", "a" and "ab".        *)
Globs == {<<0>>, <<0, 0>>, <<0, 2>>, <<1, 0>>, <<1>>, <<1, 2>>}

Entries ==
  {[events |-> e, arguments |-> a] :
     e \in {{}, {"access"}, {"access", "function"}}, a \in {{0}}}

Whitelists == UNION {[globs -> Entries] : globs \in SUBSET Globs}

WhitelistFiles ==
  {[Null EXCEPT !.loaded = TRUE, !.functionFilters = w,
                  !.functionBlacklist = list] :
     w \in Whitelists, list \in {{}, {<<2, 1>>}}}

MCFilterFiles == BlacklistFiles \cup WhitelistFiles
=============================================================================
