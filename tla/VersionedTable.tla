--------------------------- MODULE VersionedTable ---------------------------
(***************************************************************************)
(* What a reader of the gold Iceberg table may rely on.  The catalog has a *)
(* table or none.  A table belongs to the epoch that made it, and only     *)
(* that epoch commits snapshots to it, each with all the rows of the one   *)
(* before.  It is withdrawn as a whole, by a later epoch, so no two tables *)
(* are of one epoch.                                                       *)
(***************************************************************************)
EXTENDS Naturals, Sequences

CONSTANT NoTable

VARIABLES
  epoch,
  catalog   \* [gen, table]: the epoch that made the table, and its snapshots

None == [gen |-> 0, table |-> NoTable]

Init == epoch = 0 /\ catalog = None

Begin == epoch' = epoch + 1 /\ UNCHANGED catalog

Withdraw ==
  /\ catalog.table # NoTable /\ catalog.gen < epoch
  /\ catalog' = None
  /\ UNCHANGED epoch

Create ==
  /\ catalog.table = NoTable
  /\ catalog' = [gen |-> epoch, table |-> <<>>]
  /\ UNCHANGED epoch

LastRows(table) == IF table = <<>> THEN {} ELSE table[Len(table)]

Commit ==
  /\ catalog.table # NoTable /\ catalog.gen = epoch
  /\ LET new == LastRows(catalog'.table)
     IN /\ catalog' = [gen |-> epoch, table |-> Append(catalog.table, new)]
        /\ LastRows(catalog.table) \subseteq new /\ new # {}
  /\ UNCHANGED epoch

Next == Begin \/ Withdraw \/ Create \/ Commit

Spec == Init /\ [][Next]_<<epoch, catalog>>
=============================================================================
