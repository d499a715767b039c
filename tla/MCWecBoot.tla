----------------------------- MODULE MCWecBoot -----------------------------
EXTENDS WecBoot

Set(b, u) == Config([boot |-> b, update |-> u])
Old == [Set("store", FALSE) EXCEPT !.current = FALSE]
OnDisk(a, b) == [i \in 0 .. 2 |-> IF i = 0 THEN a ELSE IF i = 1 THEN b ELSE Plain("fat")]

MCDisks ==
  {OnDisk(Plain("other"), Set("store", FALSE)), OnDisk(Set("edbg", FALSE), Plain("image")),
   OnDisk(Set("store", TRUE), Plain("image")), OnDisk(Old, Plain("image")),
   OnDisk(Plain("image"), Plain("other")), OnDisk(Plain("other"), Plain("other"))}

MCNeed == [s \in {"uldr", "os"} |-> IF s = "os" THEN {1, 2} ELSE {1}]
From(s, n) == [segment |-> s, sector |-> n]
MCOrders == {<<From("uldr", 1), From("os", 1), From("os", 2)>>,
             <<From("os", 2), From("uldr", 1), From("os", 1)>>}

Holds(u, o, f) == [part |-> [s \in {"uldr", "os"} |-> IF s = "os" THEN o ELSE u],
                   nk |-> f]
MCStores == {Holds({0}, {0}, TRUE), Holds({1}, {0}, FALSE),
             Holds({}, {1, 2}, TRUE)}
=============================================================================
