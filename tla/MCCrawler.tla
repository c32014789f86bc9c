------------------------------ MODULE MCCrawler ------------------------------
(***************************************************************************)
(* Crawler for TLC: two typedefs t1 and t2, two classes c1 and c2, their   *)
(* lists of members and two members, in every way they can refer to each   *)
(* other.  A list may be shared, a member is in the scope of a class or of *)
(* nothing, a class in that of a typedef or of the other class.            *)
(***************************************************************************)
EXTENDS Crawler, TLC

CONSTANTS t1, t2, c1, c2, l1, f1, f2

MCNodes == {t1, t2, c1, c2, l1, f1, f2}

MCNames == {"", "unknown", "A", "B", "x"}

MCMetadata ==
  {[roots   |-> roots,
    ops     |-> (t1 :> <<Null, base>>) @@ (t2 :> <<c1, c2>>)
                @@ (c1 :> <<scope, Null, l1>>)
                @@ (c2 :> <<Null, f1, members>>)
                @@ (l1 :> list) @@ (f1 :> <<c1>>) @@ (f2 :> <<Null, t2>>),
    tag     |-> (t1 :> DW_TAG_typedef) @@ (t2 :> DW_TAG_typedef)
                @@ (c1 :> DW_TAG_structure_type) @@ (c2 :> tag)
                @@ (l1 :> {}) @@ (f1 :> {0, 2, 3}) @@ (f2 :> {0, 2, 3}),
    name    |-> (t1 :> tname) @@ (t2 :> "B") @@ (c1 :> name1) @@ (c2 :> name2)
                @@ (l1 :> Null) @@ (f1 :> "x") @@ (f2 :> Null),
    linkage |-> [n \in MCNodes |-> linkage]] :
      roots   \in {<<c1>>, <<c1, t1>>, <<t1, t2>>, <<f2, c2, t1>>},
      base    \in {Null, c1, c2},
      scope   \in {Null, c2, t2},
      members \in {Null, l1},
      list    \in {<<f1, f2>>, <<Null, f2>>, <<>>},
      tag     \in {DW_TAG_class_type, DW_TAG_union_type},
      tname   \in {Null, "A"},
      name1   \in {Null, "", "A"},
      name2   \in {"", "B"},
      linkage \in BOOLEAN}
=============================================================================
