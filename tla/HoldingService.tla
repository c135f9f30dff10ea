--------------------------- MODULE HoldingService ---------------------------
(***************************************************************************)
(* Creating and editing properties and units: property.controller.ts,      *)
(* unit.controller.ts and the services they call, one action per database  *)
(* statement.  Creating a property inserts it and its units in one         *)
(* transaction; every other endpoint runs outside any.                     *)
(*                                                                         *)
(* A property keeps its owner and its declared number of units, a unit its *)
(* property and its number; the other columns are left out.  The           *)
(* controllers' own reads before an update let through what the service's  *)
(* read, which comes next, lets through.  The audit row is a statement     *)
(* that may fail, but the table audit_logs, which no service reads, is     *)
(* Backend's.  Archiving and restoring are Backend's too: here rows are    *)
(* archived and restored at any moment.                                    *)
(***************************************************************************)
EXTENDS Naturals

CONSTANTS
  Users,       \* authenticated landlords
  Properties,  \* ids cuid() may give to rows of properties (a bound)
  Units,       \* ids cuid() may give to rows of units (a bound)
  MaxCount,    \* the largest unitCount clients send: 10000 in the schema (a bound)
  Workers,     \* requests being served at the same time (a bound)
  None         \* SQL NULL, and a field a request does not carry

ASSUME HoldingAssumption ==
  /\ MaxCount \in Nat \ {0}
  /\ Properties \cap Units = {}
  /\ None \notin Users \cup Properties \cup Units
  /\ None \notin Nat

\* unitNumber is any string; those the service makes up are String(1), ...
Numbers == 1..MaxCount

Steps == {"idle", "load", "property", "write", "units", "commit", "audit"}

Operations == {"createProperty", "updateProperty", "createUnit", "updateUnit"}

PropertyRow == [user: Users, unitCount: Numbers]
UnitRow == [property: Properties, number: Numbers]

Partial(ids, values) == UNION {[s -> values] : s \in SUBSET ids}

\* The local variables of a handler; `units` are the rows its transaction has
\* inserted and not committed.
Request ==
  [op: Operations \cup {None}, user: Users \cup {None},
   id: Properties \cup Units \cup {None}, property: Properties \cup {None},
   number: Numbers \cup {None}, units: Partial(Units, UnitRow)]

VARIABLES
  property,  \* the table properties: a function on the ids inserted so far
  unit,      \* the table units
  archived,  \* the properties and units whose deletedAt is set
  pc,        \* the statement each worker runs next
  req        \* the local variables of each worker

tables == <<property, unit, archived>>
vars == <<property, unit, archived, pc, req>>

NoRows == [i \in {} |-> None]

Body(op, user, id, prop, number) ==
  [op |-> op, user |-> user, id |-> id, property |-> prop, number |-> number,
   units |-> NoRows]

NoRequest == Body(None, None, None, None, None)

Init ==
  /\ property = NoRows
  /\ unit = NoRows
  /\ archived = {}
  /\ pc = [w \in Workers |-> "idle"]
  /\ req = [w \in Workers |-> NoRequest]

-----------------------------------------------------------------------------
(* Queries and the unique key.                                              *)

OpenProperty(u, p) ==
  p \in DOMAIN property /\ property[p].user = u /\ p \notin archived

OpenUnit(u, n) ==
  n \in DOMAIN unit /\ n \notin archived /\ OpenProperty(u, unit[n].property)

\* The units with number k under property p, archived or not.
Numbered(p, k) == {n \in DOMAIN unit : unit[n].property = p /\ unit[n].number = k}

\* Mutant: archived units do not keep their number.
KeyAcceptsArchived(n, row) == Numbered(row.property, row.number) \subseteq {n} \cup archived

\* Mutant: an edited row is not checked.
KeyAcceptsEdits(n, row) ==
  n \notin DOMAIN unit => Numbered(row.property, row.number) = {}

\* @@unique([propertyId, unitNumber]) accepts unit n with this row.
KeyAccepts(n, row) == Numbered(row.property, row.number) \subseteq {n}

\* Ids no insert has used or is about to use.
FreeProperties == Properties \ (DOMAIN property \cup {req[w].id : w \in Workers})
FreeUnits ==
  Units \ (DOMAIN unit \cup UNION {{req[w].id} \cup DOMAIN req[w].units : w \in Workers})

Stored(table, id, row) == [i \in DOMAIN table \cup {id} |-> IF i = id THEN row ELSE table[i]]

-----------------------------------------------------------------------------
(* Control of a handler.                                                    *)

Goto(w, step) == pc' = [pc EXCEPT ![w] = step]

Finish(w) ==
  /\ Goto(w, "idle")
  /\ req' = [req EXCEPT ![w] = NoRequest]

Receive(w, request, step) ==
  /\ pc[w] = "idle"
  /\ req' = [req EXCEPT ![w] = request]
  /\ Goto(w, step)
  /\ UNCHANGED tables

Check(w, found, step) ==
  /\ \/ found /\ Goto(w, step) /\ UNCHANGED req
     \/ ~found /\ Finish(w)
  /\ UNCHANGED tables

At(w, op, step) == pc[w] = step /\ req[w].op = op

-----------------------------------------------------------------------------
(* Requests, as the zod schemas let them through; `number` holds unitCount  *)
(* in requests for a property.                                              *)

ReceiveCreateProperty(w) ==
  \E u \in Users, p \in FreeProperties, count \in Numbers :
    Receive(w, Body("createProperty", u, p, None, count), "write")

ReceiveUpdateProperty(w) ==
  \E u \in Users, p \in Properties, count \in Numbers :
    Receive(w, Body("updateProperty", u, p, None, count), "load")

ReceiveCreateUnit(w) ==
  \E u \in Users, n \in FreeUnits, p \in Properties, k \in Numbers :
    Receive(w, Body("createUnit", u, n, p, k), "property")

\* Every field of an update is optional.
ReceiveUpdateUnit(w) ==
  \E u \in Users, n \in Units, p \in Properties \cup {None}, k \in Numbers \cup {None} :
    Receive(w, Body("updateUnit", u, n, p, k), "load")

-----------------------------------------------------------------------------
(* Properties.                                                              *)

NewProperty(r) == [user |-> r.user, unitCount |-> r.number]

\* Mutant: the property is inserted outside the transaction.
InsertPropertyVisibly(w) ==
  /\ At(w, "createProperty", "write")
  /\ property' = Stored(property, req[w].id, NewProperty(req[w]))
  /\ Goto(w, "units")
  /\ UNCHANGED <<unit, archived, req>>

\* Within the transaction: other requests do not see the row yet.
InsertProperty(w) ==
  /\ At(w, "createProperty", "write")
  /\ Goto(w, "units")
  /\ UNCHANGED <<tables, req>>

\* The rows createMany inserts: one unit for each number up to unitCount.
NumberedUnits(r) ==
  {rows \in UNION {[ids -> [property: {r.id}, number: 1..r.number]] : ids \in SUBSET FreeUnits} :
     \A k \in 1..r.number :
       \E n \in DOMAIN rows : \A m \in DOMAIN rows : rows[m].number = k <=> m = n}

InsertUnits(w) ==
  /\ At(w, "createProperty", "units")
  /\ \E rows \in NumberedUnits(req[w]) : req' = [req EXCEPT ![w].units = rows]
  /\ Goto(w, "commit")
  /\ UNCHANGED tables

\* Property and units appear together.
CommitProperty(w) ==
  LET r == req[w]
  IN /\ At(w, "createProperty", "commit")
     /\ property' = Stored(property, r.id, NewProperty(r))
     /\ unit' = [n \in DOMAIN unit \cup DOMAIN r.units |->
                   IF n \in DOMAIN unit THEN unit[n] ELSE r.units[n]]
     /\ Goto(w, "audit")
     /\ UNCHANGED <<archived, req>>

LoadProperty(w) ==
  /\ At(w, "updateProperty", "load")
  /\ Check(w, OpenProperty(req[w].user, req[w].id), "write")

\* The count is stored; the units stay as they are.
UpdateProperty(w) ==
  /\ At(w, "updateProperty", "write")
  /\ property' = [property EXCEPT ![req[w].id].unitCount = req[w].number]
  /\ Goto(w, "audit")
  /\ UNCHANGED <<unit, archived, req>>

-----------------------------------------------------------------------------
(* Units.                                                                   *)

\* The write of a unit: the key decides, and P2002 is answered 409.
WriteUnit(w, n, row) ==
  \/ /\ KeyAccepts(n, row)
     /\ unit' = Stored(unit, n, row)
     /\ Goto(w, "audit")
     /\ UNCHANGED <<property, archived, req>>
  \/ /\ ~KeyAccepts(n, row)
     /\ Finish(w)
     /\ UNCHANGED tables

CheckProperty(w) ==
  /\ At(w, "createUnit", "property")
  /\ Check(w, OpenProperty(req[w].user, req[w].property), "write")

CreateUnit(w) ==
  /\ At(w, "createUnit", "write")
  /\ WriteUnit(w, req[w].id, [property |-> req[w].property, number |-> req[w].number])

LoadUnit(w) ==
  /\ At(w, "updateUnit", "load")
  /\ Check(w, OpenUnit(req[w].user, req[w].id),
           IF req[w].property = None THEN "write" ELSE "property")

CheckDestination(w) ==
  /\ At(w, "updateUnit", "property")
  /\ Check(w, OpenProperty(req[w].user, req[w].property), "write")

\* Fields of the body replace those of the row as it is now.
EditedUnit(row, r) ==
  [property |-> IF r.property = None THEN row.property ELSE r.property,
   number |-> IF r.number = None THEN row.number ELSE r.number]

UpdateUnit(w) ==
  /\ At(w, "updateUnit", "write")
  /\ WriteUnit(w, req[w].id, EditedUnit(unit[req[w].id], req[w]))

-----------------------------------------------------------------------------
\* createAuditLog.
WriteAudit(w) == pc[w] = "audit" /\ Finish(w) /\ UNCHANGED tables

\* A statement fails, or the process restarts: an open transaction is rolled
\* back, what was committed stays.
Fail(w) == pc[w] # "idle" /\ Finish(w) /\ UNCHANGED tables

ArchiveRow(i) ==
  /\ i \in (DOMAIN property \cup DOMAIN unit) \ archived
  /\ archived' = archived \cup {i}
  /\ UNCHANGED <<property, unit, pc, req>>

RestoreRow(i) ==
  /\ i \in archived
  /\ archived' = archived \ {i}
  /\ UNCHANGED <<property, unit, pc, req>>

ReceiveRequest(w) ==
  \/ ReceiveCreateProperty(w) \/ ReceiveUpdateProperty(w)
  \/ ReceiveCreateUnit(w) \/ ReceiveUpdateUnit(w)

Step(w) ==
  \/ InsertProperty(w) \/ InsertUnits(w) \/ CommitProperty(w)
  \/ LoadProperty(w) \/ UpdateProperty(w)
  \/ CheckProperty(w) \/ CreateUnit(w)
  \/ LoadUnit(w) \/ CheckDestination(w) \/ UpdateUnit(w)
  \/ WriteAudit(w)

Next ==
  \/ \E w \in Workers : ReceiveRequest(w) \/ Step(w) \/ Fail(w)
  \/ \E i \in Properties \cup Units : ArchiveRow(i) \/ RestoreRow(i)

Spec == Init /\ [][Next]_vars

-----------------------------------------------------------------------------
(* Properties.                                                              *)

\* Every variable stays in its type, and a unit names an inserted property.
TypeOK ==
  /\ property \in Partial(Properties, PropertyRow)
  /\ unit \in Partial(Units, [property: DOMAIN property, number: Numbers])
  /\ archived \subseteq DOMAIN property \cup DOMAIN unit
  /\ pc \in [Workers -> Steps]
  /\ req \in [Workers -> Request]

\* "Unit numbers are unique within a Property", also with archived units that
\* come back, with renames and moves that race, and with units created in bulk.
NumbersUnique ==
  \A n, m \in DOMAIN unit :
    unit[n].property = unit[m].property /\ unit[n].number = unit[m].number => n = m

\* A property appears with the units 1 to unitCount and no others, whatever
\* fails and whoever else is served: nobody sees it without them.
PropertyAppearsWhole ==
  [][\A p \in DOMAIN property' \ DOMAIN property :
       \A k \in Numbers : Numbered(p, k)' # {} <=> k <= property'[p].unitCount]_vars

\* Unit numbers are claimed when free and never taken from another unit.
Registry ==
  INSTANCE NameRegistry WITH
    Names <- Properties \X Numbers, Rows <- Units,
    holders <- [name \in Properties \X Numbers |-> Numbered(name[1], name[2])]

ImplementsNameRegistry == Registry!Spec
=============================================================================
