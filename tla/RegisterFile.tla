---------------------------- MODULE RegisterFile ----------------------------
(***************************************************************************)
(* The text file with the registers of a chip, as Cbc, MPA and SSA load    *)
(* and save it.  A file is a sequence of lines; a line is a comment (or    *)
(* blank) or a register with its page, address, default and value.  A line *)
(* always has its five columns, and two registers never share a page and   *)
(* an address: both hold in the files of settings/.                        *)
(***************************************************************************)
EXTENDS Integers, Sequences, FiniteSets, SequencesExt

Comment(text) == [comment |-> TRUE, text |-> text]
Register(name, page, address, def, value) ==
  [comment |-> FALSE, name |-> name, page |-> page, address |-> address,
   def |-> def, value |-> value]

\* loadfRegMap(): a later line with the same name replaces an earlier one, and
\* a comment is remembered by the number of its line.
fRegMap(lines) ==
  LET At(n) == {i \in DOMAIN lines : ~lines[i].comment /\ lines[i].name = n}
      names == {lines[i].name : i \in {k \in DOMAIN lines : ~lines[k].comment}}
  IN  [n \in names |-> LET l == lines[CHOOSE i \in At(n) : \A k \in At(n) : k <= i]
                       IN  [page |-> l.page, address |-> l.address,
                            def |-> l.def, value |-> l.value]]
fCommentMap(lines) ==
  [i \in {k \in DOMAIN lines : lines[k].comment} |-> lines[i].text]

\* Faulty variant: the page is not looked at, so the second page is lost.
Before_AddressOnly(a, b) == a.address < b.address

\* The order of the saved registers (CbcRegItemComparer); two items that are
\* before neither of each other are one element of the set.
Before(a, b) == a.page < b.page \/ (a.page = b.page /\ a.address < b.address)

Kept(map) ==
  {n \in DOMAIN map : \A m \in DOMAIN map \ {n} :
     \/ Before(map[n], map[m])
     \/ Before(map[m], map[n])
     \/ n = CHOOSE k \in {n, m} : TRUE}
Sorted(map) ==
  [k \in 1..Cardinality(Kept(map)) |->
     CHOOSE n \in Kept(map) :
       Cardinality({m \in Kept(map) : Before(map[m], map[n])}) = k - 1]

\* saveRegMap(): before a register come the comments that have reached their
\* line; the comments after the last register are lost.
saveRegMap(map, comments) ==
  LET Due(out)    == LET free == CHOOSE k \in (Len(out) + 1)..(Len(out) + 1 + Cardinality(DOMAIN comments)) :
                                    /\ k \notin DOMAIN comments
                                    /\ \A j \in (Len(out) + 1)..(k - 1) : j \in DOMAIN comments
                     IN  [j \in 1..(free - 1 - Len(out)) |-> Comment(comments[Len(out) + j])]
      Line(n)     == Register(n, map[n].page, map[n].address, map[n].def, map[n].value)
      Add(out, n) == (out \o Due(out)) \o <<Line(n)>>
  IN  FoldLeft(Add, <<>>, Sorted(map))

\* getReg(), setReg() and getRegItem(): a register the chip does not have reads
\* as 0 and is not written; getRegItem() throws for it.
getReg(map, name) == IF name \in DOMAIN map THEN map[name].value ELSE 0
setReg(map, name, value) ==
  IF name \in DOMAIN map THEN [map EXCEPT ![name].value = value % 256] ELSE map
SetRegs(map, new) ==
  [n \in DOMAIN map |-> IF n \in DOMAIN new THEN [map[n] EXCEPT !.value = new[n] % 256]
                                            ELSE map[n]]
Values(map) == [n \in DOMAIN map |-> map[n].value]
=============================================================================
