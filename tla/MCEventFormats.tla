--------------------------- MODULE MCEventFormats ---------------------------
(* Instances of EventFormats for TLC.  The channels reported lie on both   *)
(* sides of every limit of the firmware's words.                           *)
EXTENDS EventFormats

S(pos, bend) == [pos |-> pos, bend |-> bend]
Quiet == [hits |-> {}, stubs |-> <<>>, err |-> {}, pipe |-> {}, l1 |-> {},
          strips |-> <<>>, pixels |-> <<>>, bx1 |-> {}]
Limits == [Quiet EXCEPT !.hits = {0, 3, 4, 35, 61, 62, 63, 125, 126, 127, 189, 190, 191, 253},
             !.stubs = <<S({0, 7}, {1})>>, !.err = {1}, !.pipe = {0, 7}, !.l1 = {8}]
Wide == [Quiet EXCEPT !.hits = {2 * k : k \in 20..46} \cup (120..131),
             !.stubs = <<S({1}, {3}), S({7}, {}), S({0, 2}, {0, 1})>>, !.err = {0}, !.l1 = {0}]
Full == [Quiet EXCEPT !.hits = 0..253, !.err = {0, 1}, !.pipe = {1, 3}]
Mpa == [Quiet EXCEPT !.stubs = <<S({7}, {0}), S({0}, {}), S({2}, {3})>>, !.l1 = {0, 8}, !.bx1 = {0, 1},
          !.strips = <<[address |-> 0, mip |-> {0}, width |-> {1}],
                       [address |-> 119, mip |-> {}, width |-> {2}],
                       [address |-> 63, mip |-> {}, width |-> {}]>>,
          !.pixels = <<[address |-> 118, width |-> {0, 2}, z |-> {3}],
                       [address |-> 1, width |-> {}, z |-> {0}]>>]

Two(a, b) == (0 :> a) @@ (1 :> b)
AllContents == [f \in {"Cbc2", "Cbc3", "D19cCbc3", "D19cCbc3ZS", "D19cMPA"} |->
                  IF f = "D19cMPA" THEN {Two(Quiet, Mpa), Two(Mpa, Mpa)}
                  ELSE {Two(Limits, Wide), Two(Wide, Quiet), Two(Full, Limits)}]
SomeBoards == {(0 :> {0, 1}), (3 :> {0, 1}), (0 :> {0, 1}) @@ (1 :> {0, 1}),
               (0 :> {0}) @@ (2 :> {0, 1})}
=============================================================================
