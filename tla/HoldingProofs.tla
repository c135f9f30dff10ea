---------------------------- MODULE HoldingProofs ----------------------------
(***************************************************************************)
(* Proofs about HoldingService, for any number of landlords, properties,   *)
(* units and concurrent requests, and any bound on unitCount.              *)
(*                                                                         *)
(* The invariant adds to the unique key what each handler relies on: the   *)
(* rows it found go on existing, and the ids it will insert, those of an   *)
(* open transaction included, are its own.                                 *)
(***************************************************************************)
EXTENDS HoldingService, TLAPS

-----------------------------------------------------------------------------
(* The inductive invariant.                                                 *)

\* The types of TypeOK, with the ids that are in use named.
DataTyped ==
  /\ DOMAIN property \subseteq Properties
  /\ property \in [DOMAIN property -> PropertyRow]
  /\ DOMAIN unit \subseteq Units
  /\ unit \in [DOMAIN unit -> [property: DOMAIN property, number: Numbers]]
  /\ archived \subseteq DOMAIN property \cup DOMAIN unit

ControlTyped ==
  /\ pc \in [Workers -> Steps]
  /\ req \in [Workers -> Request]

DataOK == DataTyped /\ NumbersUnique

\* The statements of createPropertyWithUnits, up to its commit.
Opening(w) == req[w].op = "createProperty" /\ pc[w] \in {"write", "units", "commit"}

AddingUnit(w) == req[w].op = "createUnit" /\ pc[w] \in {"property", "write"}

\* The ids a handler holds and has not committed yet.
Reserved(w) ==
  {i \in Properties \cup Units :
     \/ Opening(w) /\ i = req[w].id
     \/ Opening(w) /\ pc[w] = "commit" /\ i \in DOMAIN req[w].units
     \/ AddingUnit(w) /\ i = req[w].id}

\* The rows of an open transaction: a unit for each number.
RowsNumbered(r) ==
  /\ \A n \in DOMAIN r.units : r.units[n].property = r.id /\ r.units[n].number \in 1..r.number
  /\ \A n, m \in DOMAIN r.units : r.units[n].number = r.units[m].number => n = m
  /\ \A k \in 1..r.number : \E n \in DOMAIN r.units : r.units[n].number = k

\* What the endpoints for properties rely on.
PropertyHandlerOK(w) ==
  LET r == req[w]
  IN /\ Opening(w)
          => r.user \in Users /\ r.id \in Properties \ DOMAIN property /\ r.number \in Numbers
     /\ Opening(w) /\ pc[w] = "commit"
          => RowsNumbered(r) /\ DOMAIN r.units \cap DOMAIN unit = {}
     /\ r.op = "updateProperty" /\ pc[w] # "idle" => r.number \in Numbers
     /\ r.op = "updateProperty" /\ pc[w] = "write" => r.id \in DOMAIN property

\* What the endpoints for units rely on.
UnitHandlerOK(w) ==
  LET r == req[w]
  IN /\ AddingUnit(w) => r.id \in Units \ DOMAIN unit /\ r.number \in Numbers
     /\ AddingUnit(w) /\ pc[w] = "write" => r.property \in DOMAIN property
     /\ r.op = "updateUnit" /\ pc[w] \in {"property", "write"} => r.id \in DOMAIN unit
     /\ r.op = "updateUnit" /\ pc[w] = "write" => r.property \in DOMAIN property \cup {None}

HandlerOK(w) == PropertyHandlerOK(w) /\ UnitHandlerOK(w)

\* No two handlers are about to insert the same id.
FreshIds == \A w, v \in Workers : w # v => Reserved(w) \cap Reserved(v) = {}

Inv ==
  /\ ControlTyped
  /\ DataOK
  /\ \A w \in Workers : HandlerOK(w)
  /\ FreshIds

-----------------------------------------------------------------------------
(* Frames.                                                                  *)

\* Rows are never deleted, and what is new is what worker w held.
RowsKept(w) ==
  /\ DOMAIN property \subseteq DOMAIN property'
  /\ DOMAIN unit \subseteq DOMAIN unit'
  /\ DOMAIN property' \ DOMAIN property \subseteq Reserved(w)
  /\ DOMAIN unit' \ DOMAIN unit \subseteq Reserved(w)

\* A step of w disturbs what no other handler relies on.
LEMMA OthersKept ==
  ASSUME Inv, NEW w \in Workers, NEW v \in Workers, v # w, RowsKept(w),
         pc'[v] = pc[v], req'[v] = req[v]
  PROVE  HandlerOK(v)'
<1>1. HandlerOK(v) /\ Reserved(w) \cap Reserved(v) = {}
  BY DEF Inv, FreshIds
<1>2. req[v].units \in Partial(Units, UnitRow)
  BY DEF Inv, ControlTyped, Request
<1>3. DOMAIN req[v].units \subseteq Units
  BY <1>2 DEF Partial
<1>4. Opening(v) => req[v].id \in Properties \ DOMAIN property'
  BY <1>1 DEF HandlerOK, PropertyHandlerOK, RowsKept, Reserved
<1>5. Opening(v) /\ pc[v] = "commit" => DOMAIN req[v].units \cap DOMAIN unit' = {}
  BY <1>1, <1>3 DEF HandlerOK, PropertyHandlerOK, RowsKept, Reserved
<1>6. AddingUnit(v) => req[v].id \in Units \ DOMAIN unit'
  BY <1>1 DEF HandlerOK, UnitHandlerOK, RowsKept, Reserved
<1>7. PropertyHandlerOK(v)'
  BY <1>1, <1>4, <1>5 DEF HandlerOK, PropertyHandlerOK, RowsKept, Opening, RowsNumbered
<1>8. UnitHandlerOK(v)'
  BY <1>1, <1>6 DEF HandlerOK, UnitHandlerOK, RowsKept, AddingUnit
<1> QED
  BY <1>7, <1>8 DEF HandlerOK

\* A step of worker w to a given statement with given local variables.
LEMMA WorkerStep ==
  ASSUME Inv, NEW w \in Workers, NEW step \in Steps, NEW r \in Request,
         pc' = [pc EXCEPT ![w] = step], req' = [req EXCEPT ![w] = r],
         RowsKept(w), DataOK', HandlerOK(w)',
         \A v \in Workers \ {w} : Reserved(w)' \cap Reserved(v) = {}
  PROVE  Inv'
<1>1. ControlTyped
  BY DEF Inv
<1>2. ControlTyped'
  BY <1>1 DEF ControlTyped
<1>3. \A v \in Workers \ {w} : pc'[v] = pc[v] /\ req'[v] = req[v]
  BY <1>1 DEF ControlTyped
<1>4. \A v \in Workers : HandlerOK(v)'
  BY <1>3, OthersKept
<1>5. \A v \in Workers \ {w} : Reserved(v)' = Reserved(v)
  BY <1>3 DEF Reserved, Opening, AddingUnit
<1>6. FreshIds'
  <2> SUFFICES ASSUME NEW v \in Workers, NEW z \in Workers, v # z
               PROVE  Reserved(v)' \cap Reserved(z)' = {}
    BY DEF FreshIds
  <2>1. CASE v # w /\ z # w
    BY <1>5, <2>1 DEF Inv, FreshIds
  <2>2. CASE v = w
    BY <1>5, <2>2
  <2>3. CASE z = w
    BY <1>5, <2>3
  <2> QED
    BY <2>1, <2>2, <2>3
<1> QED
  BY <1>2, <1>4, <1>6 DEF Inv

LEMMA SameData ==
  ASSUME Inv, UNCHANGED tables, NEW w \in Workers
  PROVE  DataOK' /\ RowsKept(w)
<1>1. property' = property /\ unit' = unit /\ archived' = archived
  BY DEF tables
<1>2. DataOK'
  BY <1>1 DEF Inv, DataOK, DataTyped, NumbersUnique
<1>3. RowsKept(w)
  BY <1>1 DEF RowsKept
<1> QED
  BY <1>2, <1>3

LEMMA NoRequestType == NoRequest \in Request
<1>1. NoRows \in [{} -> UnitRow]
  BY DEF NoRows
<1>2. NoRows \in Partial(Units, UnitRow)
  BY <1>1 DEF Partial
<1> QED
  BY <1>2 DEF NoRequest, Body, Request

\* Answering a request keeps the invariant.
LEMMA FinishStep ==
  ASSUME Inv, NEW w \in Workers, Finish(w), UNCHANGED tables
  PROVE  Inv'
<1>1. pc' = [pc EXCEPT ![w] = "idle"] /\ req' = [req EXCEPT ![w] = NoRequest]
  BY DEF Finish, Goto
<1>2. pc'[w] = "idle"
  BY <1>1 DEF Inv, ControlTyped
<1>3. HandlerOK(w)' /\ Reserved(w)' = {}
  BY <1>2 DEF HandlerOK, PropertyHandlerOK, UnitHandlerOK, Reserved, Opening, AddingUnit
<1> QED
  BY <1>1, <1>3, SameData, WorkerStep, NoRequestType DEF Steps

\* A statement after which worker w goes on to `step` and holds no more ids.
LEMMA GoOn ==
  ASSUME Inv, NEW w \in Workers, NEW step \in Steps, Goto(w, step), UNCHANGED req,
         DataOK', RowsKept(w), HandlerOK(w)', Reserved(w)' \subseteq Reserved(w)
  PROVE  Inv'
<1>1. req[w] \in Request /\ req' = [req EXCEPT ![w] = req[w]]
  BY DEF Inv, ControlTyped
<1>2. pc' = [pc EXCEPT ![w] = step]
  BY DEF Goto
<1>3. \A v \in Workers \ {w} : Reserved(w)' \cap Reserved(v) = {}
  BY DEF Inv, FreshIds
<1> QED
  BY <1>1, <1>2, <1>3, WorkerStep

\* A read that either goes on to the next statement or answers.
LEMMA CheckStep ==
  ASSUME Inv, NEW w \in Workers, NEW step \in Steps, NEW found, Check(w, found, step),
         found /\ pc'[w] = step /\ req' = req /\ UNCHANGED tables
           => HandlerOK(w)' /\ Reserved(w)' \subseteq Reserved(w)
  PROVE  Inv'
<1>1. CASE Finish(w)
  BY <1>1, FinishStep DEF Check
<1>2. CASE found /\ Goto(w, step) /\ UNCHANGED req
  <2>1. pc'[w] = step
    BY <1>2 DEF Goto, Inv, ControlTyped
  <2>2. HandlerOK(w)' /\ Reserved(w)' \subseteq Reserved(w)
    BY <1>2, <2>1 DEF Check
  <2> QED
    BY <1>2, <2>2, SameData, GoOn DEF Check
<1> QED
  BY <1>1, <1>2 DEF Check

\* A request is received without touching the data.
LEMMA ReceiveStep ==
  ASSUME Inv, NEW w \in Workers, NEW step \in Steps, NEW r \in Request, Receive(w, r, step),
         (pc'[w] = step /\ req'[w] = r) => HandlerOK(w)',
         (pc'[w] = step /\ req'[w] = r)
           => \A v \in Workers \ {w} : Reserved(w)' \cap Reserved(v) = {}
  PROVE  Inv'
<1>1. pc' = [pc EXCEPT ![w] = step] /\ req' = [req EXCEPT ![w] = r]
  BY DEF Receive, Goto
<1>2. pc'[w] = step /\ req'[w] = r
  BY <1>1 DEF Inv, ControlTyped
<1>3. DataOK' /\ RowsKept(w)
  BY SameData DEF Receive
<1> QED
  BY <1>1, <1>2, <1>3, WorkerStep

-----------------------------------------------------------------------------
(* Requests arrive.                                                         *)

LEMMA BodyType ==
  ASSUME NEW op \in Operations, NEW u \in Users, NEW i \in Properties \cup Units,
         NEW p \in Properties \cup {None}, NEW k \in Numbers \cup {None}
  PROVE  /\ Body(op, u, i, p, k) \in Request
         /\ Body(op, u, i, p, k).op = op
         /\ Body(op, u, i, p, k).user = u
         /\ Body(op, u, i, p, k).id = i
         /\ Body(op, u, i, p, k).property = p
         /\ Body(op, u, i, p, k).number = k
<1>1. NoRows \in [{} -> UnitRow]
  BY DEF NoRows
<1>2. NoRows \in Partial(Units, UnitRow)
  BY <1>1 DEF Partial
<1> QED
  BY <1>2 DEF Body, Request

LEMMA ReceiveCreatePropertyStep ==
  ASSUME Inv, NEW w \in Workers, ReceiveCreateProperty(w)
  PROVE  Inv'
<1>1. PICK u \in Users, p \in FreeProperties, count \in Numbers :
        Receive(w, Body("createProperty", u, p, None, count), "write")
  BY DEF ReceiveCreateProperty
<1> DEFINE r == Body("createProperty", u, p, None, count)
<1>2. p \in Properties \ DOMAIN property /\ \A v \in Workers : p # req[v].id
  BY DEF FreeProperties
<1>3. r \in Request /\ r.op = "createProperty" /\ r.user = u /\ r.id = p /\ r.number = count
  BY <1>2, BodyType DEF Operations
<1>4. Receive(w, r, "write") /\ property' = property
  BY <1>1 DEF Receive, tables
<1> HIDE DEF r
<1>5. \A v \in Workers : p \notin Reserved(v)
  <2>1. \A v \in Workers : req[v].units \in Partial(Units, UnitRow)
    BY DEF Inv, ControlTyped, Request
  <2>2. \A v \in Workers : DOMAIN req[v].units \subseteq Units
    BY <2>1 DEF Partial
  <2> QED
    BY <1>2, <2>2, HoldingAssumption DEF Reserved
<1>6. ASSUME pc'[w] = "write", req'[w] = r
      PROVE  HandlerOK(w)' /\ Reserved(w)' \subseteq {p}
  BY <1>2, <1>3, <1>4, <1>6
     DEF HandlerOK, PropertyHandlerOK, UnitHandlerOK, Opening, AddingUnit, Reserved
<1>7. ASSUME pc'[w] = "write", req'[w] = r
      PROVE  \A v \in Workers \ {w} : Reserved(w)' \cap Reserved(v) = {}
  BY <1>5, <1>6, <1>7
<1> QED
  BY <1>3, <1>4, <1>6, <1>7, ReceiveStep DEF Steps

LEMMA ReceiveUpdatePropertyStep ==
  ASSUME Inv, NEW w \in Workers, ReceiveUpdateProperty(w)
  PROVE  Inv'
<1>1. PICK u \in Users, p \in Properties, count \in Numbers :
        Receive(w, Body("updateProperty", u, p, None, count), "load")
  BY DEF ReceiveUpdateProperty
<1> DEFINE r == Body("updateProperty", u, p, None, count)
<1>2. r \in Request /\ r.op = "updateProperty" /\ r.number = count
  BY BodyType DEF Operations
<1>3. Receive(w, r, "load")
  BY <1>1
<1> HIDE DEF r
<1>4. ASSUME pc'[w] = "load", req'[w] = r PROVE HandlerOK(w)' /\ Reserved(w)' = {}
  BY <1>2, <1>4
     DEF HandlerOK, PropertyHandlerOK, UnitHandlerOK, Opening, AddingUnit, Reserved
<1> QED
  BY <1>2, <1>3, <1>4, ReceiveStep DEF Steps

LEMMA ReceiveCreateUnitStep ==
  ASSUME Inv, NEW w \in Workers, ReceiveCreateUnit(w)
  PROVE  Inv'
<1>1. PICK u \in Users, n \in FreeUnits, p \in Properties, k \in Numbers :
        Receive(w, Body("createUnit", u, n, p, k), "property")
  BY DEF ReceiveCreateUnit
<1> DEFINE r == Body("createUnit", u, n, p, k)
<1>2. /\ n \in Units \ DOMAIN unit
      /\ \A v \in Workers : n # req[v].id /\ n \notin DOMAIN req[v].units
  BY DEF FreeUnits
<1>3. r \in Request /\ r.op = "createUnit" /\ r.id = n /\ r.number = k
  BY <1>2, BodyType DEF Operations
<1>4. Receive(w, r, "property") /\ unit' = unit
  BY <1>1 DEF Receive, tables
<1> HIDE DEF r
<1>5. \A v \in Workers : n \notin Reserved(v)
  BY <1>2 DEF Reserved
<1>6. ASSUME pc'[w] = "property", req'[w] = r
      PROVE  HandlerOK(w)' /\ Reserved(w)' \subseteq {n}
  BY <1>2, <1>3, <1>4, <1>6
     DEF HandlerOK, PropertyHandlerOK, UnitHandlerOK, Opening, AddingUnit, Reserved
<1>7. ASSUME pc'[w] = "property", req'[w] = r
      PROVE  \A v \in Workers \ {w} : Reserved(w)' \cap Reserved(v) = {}
  BY <1>5, <1>6, <1>7
<1> QED
  BY <1>3, <1>4, <1>6, <1>7, ReceiveStep DEF Steps

LEMMA ReceiveUpdateUnitStep ==
  ASSUME Inv, NEW w \in Workers, ReceiveUpdateUnit(w)
  PROVE  Inv'
<1>1. PICK u \in Users, n \in Units, p \in Properties \cup {None}, k \in Numbers \cup {None} :
        Receive(w, Body("updateUnit", u, n, p, k), "load")
  BY DEF ReceiveUpdateUnit
<1> DEFINE r == Body("updateUnit", u, n, p, k)
<1>2. r \in Request /\ r.op = "updateUnit"
  BY BodyType DEF Operations
<1>3. Receive(w, r, "load")
  BY <1>1
<1> HIDE DEF r
<1>4. ASSUME pc'[w] = "load", req'[w] = r PROVE HandlerOK(w)' /\ Reserved(w)' = {}
  BY <1>2, <1>4
     DEF HandlerOK, PropertyHandlerOK, UnitHandlerOK, Opening, AddingUnit, Reserved
<1> QED
  BY <1>2, <1>3, <1>4, ReceiveStep DEF Steps

-----------------------------------------------------------------------------
(* Properties.                                                              *)

LEMMA InsertPropertyStep ==
  ASSUME Inv, NEW w \in Workers, InsertProperty(w)
  PROVE  Inv'
<1>1. Goto(w, "units") /\ req' = req /\ UNCHANGED tables
  BY DEF InsertProperty
<1>2. pc'[w] = "units" /\ property' = property
  BY <1>1 DEF Goto, Inv, ControlTyped, tables
<1>3. pc[w] = "write" /\ req[w].op = "createProperty" /\ HandlerOK(w)
  BY DEF InsertProperty, At, Inv
<1>4. HandlerOK(w)' /\ Reserved(w)' \subseteq Reserved(w)
  BY <1>1, <1>2, <1>3
     DEF HandlerOK, PropertyHandlerOK, UnitHandlerOK, Opening, AddingUnit, Reserved
<1> QED
  BY <1>1, <1>4, SameData, GoOn DEF Steps

\* The rows of createMany: numbered, under the new property, with ids that
\* nobody else holds.
LEMMA RowsInserted ==
  ASSUME NEW r, r.id \in Properties, r.number \in Numbers, NEW rows \in NumberedUnits(r)
  PROVE  /\ rows \in Partial(Units, UnitRow)
         /\ DOMAIN rows \subseteq FreeUnits
         /\ \A n \in DOMAIN rows : rows[n].property = r.id /\ rows[n].number \in 1..r.number
         /\ \A n, m \in DOMAIN rows : rows[n].number = rows[m].number => n = m
         /\ \A k \in 1..r.number : \E n \in DOMAIN rows : rows[n].number = k
<1>1. PICK ids \in SUBSET FreeUnits :
        rows \in [ids -> [property: {r.id}, number: 1..r.number]]
  BY DEF NumberedUnits
<1>2. \A k \in 1..r.number :
        \E n \in DOMAIN rows : \A m \in DOMAIN rows : rows[m].number = k <=> m = n
  BY DEF NumberedUnits
<1>3. 1..r.number \subseteq Numbers
  BY HoldingAssumption DEF Numbers
<1>4. ids \in SUBSET Units
  BY DEF FreeUnits
<1>5. rows \in [ids -> UnitRow]
  BY <1>1, <1>3 DEF UnitRow
<1>6. rows \in Partial(Units, UnitRow)
  BY <1>4, <1>5 DEF Partial
<1> QED
  BY <1>1, <1>2, <1>6

LEMMA InsertUnitsStep ==
  ASSUME Inv, NEW w \in Workers, InsertUnits(w)
  PROVE  Inv'
<1>1. PICK rows \in NumberedUnits(req[w]) : req' = [req EXCEPT ![w].units = rows]
  BY DEF InsertUnits
<1> DEFINE r == [req[w] EXCEPT !.units = rows]
<1>2. pc[w] = "units" /\ req[w].op = "createProperty" /\ HandlerOK(w)
  BY DEF InsertUnits, At, Inv
<1>3. /\ req[w].user \in Users
      /\ req[w].id \in Properties \ DOMAIN property
      /\ req[w].number \in Numbers
  BY <1>2 DEF HandlerOK, PropertyHandlerOK, Opening
<1>4. /\ rows \in Partial(Units, UnitRow)
      /\ DOMAIN rows \subseteq FreeUnits
      /\ \A n \in DOMAIN rows :
           rows[n].property = req[w].id /\ rows[n].number \in 1..req[w].number
      /\ \A n, m \in DOMAIN rows : rows[n].number = rows[m].number => n = m
      /\ \A k \in 1..req[w].number : \E n \in DOMAIN rows : rows[n].number = k
  BY <1>3, RowsInserted
<1>5. req[w] \in Request
  BY DEF Inv, ControlTyped
<1>6. /\ r \in Request
      /\ r.op = "createProperty" /\ r.user = req[w].user /\ r.id = req[w].id
      /\ r.number = req[w].number /\ r.units = rows
  BY <1>2, <1>4, <1>5 DEF Request
<1>7. req' = [req EXCEPT ![w] = r] /\ pc' = [pc EXCEPT ![w] = "commit"]
  BY <1>1 DEF InsertUnits, Goto
<1>8. req'[w] = r /\ pc'[w] = "commit"
  BY <1>7 DEF Inv, ControlTyped
<1>9. UNCHANGED tables
  BY DEF InsertUnits
<1>10. property' = property /\ unit' = unit
  BY <1>9 DEF tables
<1> HIDE DEF r
<1>11. DOMAIN rows \cap DOMAIN unit = {}
  BY <1>4 DEF FreeUnits
<1>12. HandlerOK(w)'
  <2>1. RowsNumbered(r)
    BY <1>4, <1>6 DEF RowsNumbered
  <2> QED
    BY <1>3, <1>6, <1>8, <1>10, <1>11, <2>1
       DEF HandlerOK, PropertyHandlerOK, UnitHandlerOK, Opening, AddingUnit
<1>13. Reserved(w)' \subseteq Reserved(w) \cup DOMAIN rows
  BY <1>2, <1>6, <1>8 DEF Reserved, Opening, AddingUnit
<1>14. \A v \in Workers : DOMAIN rows \cap Reserved(v) = {}
  BY <1>4 DEF FreeUnits, Reserved
<1>15. \A v \in Workers \ {w} : Reserved(w)' \cap Reserved(v) = {}
  BY <1>13, <1>14 DEF Inv, FreshIds
<1> QED
  BY <1>6, <1>7, <1>9, <1>12, <1>15, SameData, WorkerStep DEF Steps

\* What a commit does to the tables: the property and its units appear.
LEMMA Committed ==
  ASSUME Inv, NEW w \in Workers, CommitProperty(w)
  PROVE  /\ req[w].id \in Properties \ DOMAIN property
         /\ NewProperty(req[w]) \in PropertyRow
         /\ RowsNumbered(req[w])
         /\ DOMAIN req[w].units \cap DOMAIN unit = {}
         /\ DOMAIN req[w].units \subseteq Units
         /\ req[w].number \in Numbers
         /\ DOMAIN property' = DOMAIN property \cup {req[w].id}
         /\ property'[req[w].id] = NewProperty(req[w])
         /\ \A p \in DOMAIN property : property'[p] = property[p]
         /\ property' = [p \in DOMAIN property \cup {req[w].id} |-> property'[p]]
         /\ DOMAIN unit' = DOMAIN unit \cup DOMAIN req[w].units
         /\ \A n \in DOMAIN unit : unit'[n] = unit[n]
         /\ \A n \in DOMAIN req[w].units : unit'[n] = req[w].units[n]
         /\ unit' = [n \in DOMAIN unit \cup DOMAIN req[w].units |-> unit'[n]]
         /\ archived' = archived
<1>1. pc[w] = "commit" /\ req[w].op = "createProperty" /\ HandlerOK(w)
  BY DEF CommitProperty, At, Inv
<1>2. /\ req[w].user \in Users
      /\ req[w].id \in Properties \ DOMAIN property
      /\ req[w].number \in Numbers
      /\ RowsNumbered(req[w])
      /\ DOMAIN req[w].units \cap DOMAIN unit = {}
  BY <1>1 DEF HandlerOK, PropertyHandlerOK, Opening
<1>3. NewProperty(req[w]) \in PropertyRow
  BY <1>2 DEF NewProperty, PropertyRow
<1>4. req[w].units \in Partial(Units, UnitRow)
  BY DEF Inv, ControlTyped, Request
<1>5. DOMAIN req[w].units \subseteq Units
  BY <1>4 DEF Partial
<1>6. property' = Stored(property, req[w].id, NewProperty(req[w])) /\ archived' = archived
  BY DEF CommitProperty
<1>7. /\ DOMAIN property' = DOMAIN property \cup {req[w].id}
      /\ property'[req[w].id] = NewProperty(req[w])
      /\ \A p \in DOMAIN property : property'[p] = property[p]
      /\ property' = [p \in DOMAIN property \cup {req[w].id} |-> property'[p]]
  BY <1>2, <1>6 DEF Stored
<1>8. unit' = [n \in DOMAIN unit \cup DOMAIN req[w].units |->
                 IF n \in DOMAIN unit THEN unit[n] ELSE req[w].units[n]]
  BY DEF CommitProperty
<1>9. /\ DOMAIN unit' = DOMAIN unit \cup DOMAIN req[w].units
      /\ \A n \in DOMAIN unit : unit'[n] = unit[n]
      /\ \A n \in DOMAIN req[w].units : unit'[n] = req[w].units[n]
      /\ unit' = [n \in DOMAIN unit \cup DOMAIN req[w].units |-> unit'[n]]
  BY <1>2, <1>8
<1> QED
  BY <1>2, <1>3, <1>5, <1>6, <1>7, <1>9

LEMMA CommitPropertyStep ==
  ASSUME Inv, NEW w \in Workers, CommitProperty(w)
  PROVE  Inv'
<1> DEFINE p == req[w].id
           rows == req[w].units
           row == NewProperty(req[w])
<1>1. /\ p \in Properties \ DOMAIN property
      /\ row \in PropertyRow
      /\ DOMAIN rows \cap DOMAIN unit = {}
      /\ DOMAIN rows \subseteq Units
      /\ DOMAIN property' = DOMAIN property \cup {p}
      /\ property'[p] = row
      /\ \A q \in DOMAIN property : property'[q] = property[q]
      /\ property' = [q \in DOMAIN property \cup {p} |-> property'[q]]
      /\ DOMAIN unit' = DOMAIN unit \cup DOMAIN rows
      /\ \A n \in DOMAIN unit : unit'[n] = unit[n]
      /\ \A n \in DOMAIN rows : unit'[n] = rows[n]
      /\ unit' = [n \in DOMAIN unit \cup DOMAIN rows |-> unit'[n]]
      /\ archived' = archived
  BY Committed
<1>2. /\ \A n \in DOMAIN rows : rows[n].property = p /\ rows[n].number \in Numbers
      /\ \A n, m \in DOMAIN rows : rows[n].number = rows[m].number => n = m
  <2>1. RowsNumbered(req[w]) /\ req[w].number \in Numbers
    BY Committed
  <2>2. 1..req[w].number \subseteq Numbers
    BY <2>1, HoldingAssumption DEF Numbers
  <2> QED
    BY <2>1, <2>2 DEF RowsNumbered
<1>3. rows \in Partial(Units, UnitRow)
  BY DEF Inv, ControlTyped, Request
<1>4. \A n \in DOMAIN rows : rows[n] \in UnitRow
  BY <1>3 DEF Partial
<1>5. pc[w] = "commit" /\ req[w].op = "createProperty"
  BY DEF CommitProperty, At
<1>6. p \in Reserved(w) /\ DOMAIN rows \subseteq Reserved(w)
  BY <1>1, <1>5 DEF Reserved, Opening
<1>7. Goto(w, "audit") /\ req' = req
  BY DEF CommitProperty
<1>8. pc'[w] = "audit"
  BY <1>7 DEF Goto, Inv, ControlTyped
<1> HIDE DEF p, rows, row
<1>9. DataTyped'
  <2>1. DOMAIN property' \subseteq Properties /\ property' \in [DOMAIN property' -> PropertyRow]
    BY <1>1 DEF Inv, DataOK, DataTyped
  <2>2. \A n \in DOMAIN rows : rows[n] \in [property: DOMAIN property', number: Numbers]
    BY <1>1, <1>2, <1>4 DEF UnitRow
  <2>3. \A n \in DOMAIN unit : unit[n] \in [property: DOMAIN property', number: Numbers]
    BY <1>1 DEF Inv, DataOK, DataTyped
  <2>4. unit' \in [DOMAIN unit' -> [property: DOMAIN property', number: Numbers]]
    BY <1>1, <2>2, <2>3
  <2> QED
    BY <1>1, <2>1, <2>4 DEF Inv, DataOK, DataTyped
<1>10. NumbersUnique'
  <2>1. \A n \in DOMAIN unit : unit[n].property \in DOMAIN property
    BY DEF Inv, DataOK, DataTyped
  <2> QED
    BY <1>1, <1>2, <2>1 DEF Inv, DataOK, NumbersUnique
<1>11. RowsKept(w)
  BY <1>1, <1>6 DEF RowsKept
<1>12. HandlerOK(w)' /\ Reserved(w)' = {}
  BY <1>5, <1>7, <1>8
     DEF HandlerOK, PropertyHandlerOK, UnitHandlerOK, Opening, AddingUnit, Reserved
<1> QED
  BY <1>7, <1>9, <1>10, <1>11, <1>12, GoOn DEF Steps, DataOK

LEMMA LoadPropertyStep ==
  ASSUME Inv, NEW w \in Workers, LoadProperty(w)
  PROVE  Inv'
<1>1. pc[w] = "load" /\ req[w].op = "updateProperty" /\ HandlerOK(w)
  BY DEF LoadProperty, At, Inv
<1>2. Check(w, OpenProperty(req[w].user, req[w].id), "write")
  BY DEF LoadProperty
<1>3. ASSUME OpenProperty(req[w].user, req[w].id), pc'[w] = "write", req' = req,
             UNCHANGED tables
      PROVE  HandlerOK(w)' /\ Reserved(w)' \subseteq Reserved(w)
  <2>1. property' = property
    BY <1>3 DEF tables
  <2> QED
    BY <1>1, <1>3, <2>1
       DEF HandlerOK, PropertyHandlerOK, UnitHandlerOK, Opening, AddingUnit, Reserved,
           OpenProperty
<1> QED
  BY <1>2, <1>3, CheckStep DEF Steps

LEMMA UpdatePropertyStep ==
  ASSUME Inv, NEW w \in Workers, UpdateProperty(w)
  PROVE  Inv'
<1>1. pc[w] = "write" /\ req[w].op = "updateProperty" /\ HandlerOK(w)
  BY DEF UpdateProperty, At, Inv
<1>2. req[w].id \in DOMAIN property /\ req[w].number \in Numbers
  BY <1>1 DEF HandlerOK, PropertyHandlerOK
<1>3. /\ property' = [property EXCEPT ![req[w].id].unitCount = req[w].number]
      /\ unit' = unit /\ archived' = archived /\ req' = req /\ Goto(w, "audit")
  BY DEF UpdateProperty
<1>4. pc'[w] = "audit"
  BY <1>3 DEF Goto, Inv, ControlTyped
<1>5. DOMAIN property' = DOMAIN property /\ property' \in [DOMAIN property' -> PropertyRow]
  BY <1>2, <1>3 DEF Inv, DataOK, DataTyped, PropertyRow
<1>6. DataOK'
  BY <1>3, <1>5 DEF Inv, DataOK, DataTyped, NumbersUnique
<1>7. RowsKept(w)
  BY <1>3, <1>5 DEF RowsKept
<1>8. HandlerOK(w)' /\ Reserved(w)' = {}
  BY <1>1, <1>3, <1>4
     DEF HandlerOK, PropertyHandlerOK, UnitHandlerOK, Opening, AddingUnit, Reserved
<1> QED
  BY <1>3, <1>6, <1>7, <1>8, GoOn DEF Steps

-----------------------------------------------------------------------------
(* Units.                                                                   *)

\* A row that is new, or that is there already, under an inserted property.
Writable(w, n, row) ==
  /\ n \in Units
  /\ row \in [property: DOMAIN property, number: Numbers]
  /\ n \in DOMAIN unit \/ n \in Reserved(w)

\* What WriteUnit does to the table when the key accepts the row.
LEMMA WrittenTable ==
  ASSUME NEW n, NEW row, unit' = Stored(unit, n, row)
  PROVE  /\ DOMAIN unit' = DOMAIN unit \cup {n}
         /\ unit'[n] = row
         /\ \A m \in DOMAIN unit \ {n} : unit'[m] = unit[m]
         /\ unit' = [m \in DOMAIN unit \cup {n} |-> unit'[m]]
  BY DEF Stored

LEMMA WriteUnitStep ==
  ASSUME Inv, NEW w \in Workers, NEW n, NEW row, WriteUnit(w, n, row), Writable(w, n, row),
         pc[w] = "write", req[w].op \in {"createUnit", "updateUnit"}
  PROVE  Inv'
<1>1. CASE Finish(w) /\ UNCHANGED tables
  BY <1>1, FinishStep
<1>2. CASE /\ KeyAccepts(n, row)
           /\ unit' = Stored(unit, n, row)
           /\ Goto(w, "audit")
           /\ UNCHANGED <<property, archived, req>>
  <2>1. /\ DOMAIN unit' = DOMAIN unit \cup {n}
        /\ unit'[n] = row
        /\ \A m \in DOMAIN unit \ {n} : unit'[m] = unit[m]
        /\ unit' = [m \in DOMAIN unit \cup {n} |-> unit'[m]]
    BY <1>2, WrittenTable
  <2>2. property' = property /\ archived' = archived /\ req' = req
    BY <1>2
  <2>3. \A m \in DOMAIN unit \ {n} :
          ~(unit[m].property = row.property /\ unit[m].number = row.number)
    BY <1>2 DEF KeyAccepts, Numbered
  <2>4. n \in Units /\ row \in [property: DOMAIN property, number: Numbers]
    BY DEF Writable
  <2>5. DataTyped'
    BY <2>1, <2>2, <2>4 DEF Inv, DataOK, DataTyped
  <2>6. NumbersUnique'
    BY <2>1, <2>3 DEF Inv, DataOK, NumbersUnique
  <2>7. RowsKept(w)
    BY <2>1, <2>2 DEF RowsKept, Writable
  <2>8. pc'[w] = "audit"
    BY <1>2 DEF Goto, Inv, ControlTyped
  <2>9. HandlerOK(w)' /\ Reserved(w)' = {}
    BY <2>2, <2>8
       DEF HandlerOK, PropertyHandlerOK, UnitHandlerOK, Opening, AddingUnit, Reserved
  <2> QED
    BY <1>2, <2>5, <2>6, <2>7, <2>9, GoOn DEF Steps, DataOK
<1> QED
  BY <1>1, <1>2 DEF WriteUnit

LEMMA CheckPropertyStep ==
  ASSUME Inv, NEW w \in Workers, CheckProperty(w)
  PROVE  Inv'
<1>1. pc[w] = "property" /\ req[w].op = "createUnit" /\ HandlerOK(w)
  BY DEF CheckProperty, At, Inv
<1>2. Check(w, OpenProperty(req[w].user, req[w].property), "write")
  BY DEF CheckProperty
<1>3. ASSUME OpenProperty(req[w].user, req[w].property), pc'[w] = "write", req' = req,
             UNCHANGED tables
      PROVE  HandlerOK(w)' /\ Reserved(w)' \subseteq Reserved(w)
  <2>1. property' = property /\ unit' = unit
    BY <1>3 DEF tables
  <2> QED
    BY <1>1, <1>3, <2>1
       DEF HandlerOK, PropertyHandlerOK, UnitHandlerOK, Opening, AddingUnit, Reserved,
           OpenProperty
<1> QED
  BY <1>2, <1>3, CheckStep DEF Steps

LEMMA CreatedRow ==
  ASSUME Inv, NEW w \in Workers, CreateUnit(w)
  PROVE  Writable(w, req[w].id, [property |-> req[w].property, number |-> req[w].number])
<1>1. pc[w] = "write" /\ req[w].op = "createUnit" /\ HandlerOK(w)
  BY DEF CreateUnit, At, Inv
<1> QED
  BY <1>1 DEF HandlerOK, UnitHandlerOK, AddingUnit, Writable, Reserved

LEMMA LoadUnitStep ==
  ASSUME Inv, NEW w \in Workers, LoadUnit(w)
  PROVE  Inv'
<1> DEFINE step == IF req[w].property = None THEN "write" ELSE "property"
<1>1. pc[w] = "load" /\ req[w].op = "updateUnit" /\ HandlerOK(w)
  BY DEF LoadUnit, At, Inv
<1>2. Check(w, OpenUnit(req[w].user, req[w].id), step)
  BY DEF LoadUnit
<1>3. step \in Steps /\ (step = "write" => req[w].property = None)
      /\ step \in {"write", "property"}
  BY DEF Steps
<1> HIDE DEF step
<1>4. ASSUME OpenUnit(req[w].user, req[w].id), pc'[w] = step, req' = req, UNCHANGED tables
      PROVE  HandlerOK(w)' /\ Reserved(w)' \subseteq Reserved(w)
  <2>1. property' = property /\ unit' = unit
    BY <1>4 DEF tables
  <2> QED
    BY <1>1, <1>3, <1>4, <2>1
       DEF HandlerOK, PropertyHandlerOK, UnitHandlerOK, Opening, AddingUnit, Reserved,
           OpenUnit
<1> QED
  BY <1>2, <1>3, <1>4, CheckStep

LEMMA CheckDestinationStep ==
  ASSUME Inv, NEW w \in Workers, CheckDestination(w)
  PROVE  Inv'
<1>1. pc[w] = "property" /\ req[w].op = "updateUnit" /\ HandlerOK(w)
  BY DEF CheckDestination, At, Inv
<1>2. Check(w, OpenProperty(req[w].user, req[w].property), "write")
  BY DEF CheckDestination
<1>3. ASSUME OpenProperty(req[w].user, req[w].property), pc'[w] = "write", req' = req,
             UNCHANGED tables
      PROVE  HandlerOK(w)' /\ Reserved(w)' \subseteq Reserved(w)
  <2>1. property' = property /\ unit' = unit
    BY <1>3 DEF tables
  <2> QED
    BY <1>1, <1>3, <2>1
       DEF HandlerOK, PropertyHandlerOK, UnitHandlerOK, Opening, AddingUnit, Reserved,
           OpenProperty
<1> QED
  BY <1>2, <1>3, CheckStep DEF Steps

\* An edit names a property that exists, or stays under the one it has.
LEMMA EditedRow ==
  ASSUME Inv, NEW w \in Workers, UpdateUnit(w)
  PROVE  Writable(w, req[w].id, EditedUnit(unit[req[w].id], req[w]))
<1>1. pc[w] = "write" /\ req[w].op = "updateUnit" /\ HandlerOK(w)
  BY DEF UpdateUnit, At, Inv
<1>2. req[w].id \in DOMAIN unit /\ req[w].property \in DOMAIN property \cup {None}
  BY <1>1 DEF HandlerOK, UnitHandlerOK
<1>3. unit[req[w].id] \in [property: DOMAIN property, number: Numbers] /\ req[w].id \in Units
  BY <1>2 DEF Inv, DataOK, DataTyped
<1>4. req[w].number \in Numbers \cup {None}
  BY DEF Inv, ControlTyped, Request
<1> QED
  BY <1>2, <1>3, <1>4 DEF Writable, EditedUnit

LEMMA ArchivalStep ==
  ASSUME Inv, NEW i \in Properties \cup Units, ArchiveRow(i) \/ RestoreRow(i)
  PROVE  Inv'
<1>1. /\ property' = property /\ unit' = unit /\ pc' = pc /\ req' = req
      /\ archived' \subseteq DOMAIN property \cup DOMAIN unit
  BY DEF ArchiveRow, RestoreRow, Inv, DataOK, DataTyped
<1>2. DataOK'
  BY <1>1 DEF Inv, DataOK, DataTyped, NumbersUnique
<1>3. \A w \in Workers : HandlerOK(w)'
  BY <1>1 DEF Inv, HandlerOK, PropertyHandlerOK, UnitHandlerOK, Opening, AddingUnit, RowsNumbered
<1>4. ControlTyped' /\ FreshIds'
  BY <1>1 DEF Inv, ControlTyped, FreshIds, Reserved, Opening, AddingUnit
<1> QED
  BY <1>2, <1>3, <1>4 DEF Inv

-----------------------------------------------------------------------------
(* The invariant holds of every behaviour.                                  *)

LEMMA InitInv == Init => Inv
<1> SUFFICES ASSUME Init PROVE Inv
  OBVIOUS
<1>1. ControlTyped /\ \A w \in Workers : pc[w] = "idle"
  BY NoRequestType DEF Init, ControlTyped, Steps
<1>2. DataOK
  BY DEF Init, DataOK, DataTyped, NumbersUnique, NoRows
<1>3. \A w \in Workers : HandlerOK(w) /\ Reserved(w) = {}
  BY <1>1 DEF HandlerOK, PropertyHandlerOK, UnitHandlerOK, Opening, AddingUnit, Reserved
<1> QED
  BY <1>1, <1>2, <1>3 DEF Inv, FreshIds

LEMMA WorkersInv ==
  ASSUME Inv, NEW w \in Workers, ReceiveRequest(w) \/ Step(w) \/ Fail(w)
  PROVE  Inv'
<1>1. CASE ReceiveRequest(w)
  BY <1>1, ReceiveCreatePropertyStep, ReceiveUpdatePropertyStep, ReceiveCreateUnitStep,
     ReceiveUpdateUnitStep DEF ReceiveRequest
<1>2. CASE InsertProperty(w) \/ InsertUnits(w) \/ CommitProperty(w)
  BY <1>2, InsertPropertyStep, InsertUnitsStep, CommitPropertyStep
<1>3. CASE LoadProperty(w) \/ UpdateProperty(w)
  BY <1>3, LoadPropertyStep, UpdatePropertyStep
<1>4. CASE CheckProperty(w) \/ LoadUnit(w) \/ CheckDestination(w)
  BY <1>4, CheckPropertyStep, LoadUnitStep, CheckDestinationStep
<1>5. CASE CreateUnit(w)
  BY <1>5, CreatedRow, WriteUnitStep DEF CreateUnit, At
<1>6. CASE UpdateUnit(w)
  BY <1>6, EditedRow, WriteUnitStep DEF UpdateUnit, At
<1>7. CASE WriteAudit(w) \/ Fail(w)
  BY <1>7, FinishStep DEF WriteAudit, Fail
<1> QED
  BY <1>1, <1>2, <1>3, <1>4, <1>5, <1>6, <1>7 DEF Step

LEMMA NextInv == Inv /\ [Next]_vars => Inv'
<1> SUFFICES ASSUME Inv, [Next]_vars PROVE Inv'
  OBVIOUS
<1>1. CASE UNCHANGED vars
  <2>1. property' = property /\ unit' = unit /\ archived' = archived /\ pc' = pc /\ req' = req
    BY <1>1 DEF vars
  <2>2. DataOK' /\ ControlTyped'
    BY <2>1 DEF Inv, DataOK, DataTyped, NumbersUnique, ControlTyped
  <2>3. \A w \in Workers : HandlerOK(w)'
    BY <2>1
       DEF Inv, HandlerOK, PropertyHandlerOK, UnitHandlerOK, Opening, AddingUnit, RowsNumbered
  <2>4. FreshIds'
    BY <2>1 DEF Inv, FreshIds, Reserved, Opening, AddingUnit
  <2> QED
    BY <2>2, <2>3, <2>4 DEF Inv
<1>2. ASSUME NEW w \in Workers, ReceiveRequest(w) \/ Step(w) \/ Fail(w) PROVE Inv'
  BY <1>2, WorkersInv
<1>3. ASSUME NEW i \in Properties \cup Units, ArchiveRow(i) \/ RestoreRow(i) PROVE Inv'
  BY <1>3, ArchivalStep
<1> QED
  BY <1>1, <1>2, <1>3 DEF Next

LEMMA SpecInv == Spec => []Inv
  BY InitInv, NextInv, PTL DEF Spec

LEMMA InvTyped == Inv => TypeOK
<1> SUFFICES ASSUME Inv PROVE TypeOK
  OBVIOUS
<1>1. property \in Partial(Properties, PropertyRow)
  BY DEF Inv, DataOK, DataTyped, Partial
<1>2. unit \in Partial(Units, [property: DOMAIN property, number: Numbers])
  BY DEF Inv, DataOK, DataTyped, Partial
<1> QED
  BY <1>1, <1>2 DEF Inv, DataOK, DataTyped, ControlTyped, TypeOK

\* The tables of properties and units keep their types, and a unit always
\* names an inserted property, also when the transaction that inserts both
\* fails between its statements.
THEOREM TypeCorrect == Spec => []TypeOK
  BY SpecInv, InvTyped, PTL

\* Unit numbers stay unique within a property: units inserted in bulk, added,
\* renamed and moved by requests that race never share one.
THEOREM NumbersStayUnique == Spec => []NumbersUnique
<1>1. Inv => NumbersUnique
  BY DEF Inv, DataOK
<1> QED
  BY SpecInv, <1>1, PTL

-----------------------------------------------------------------------------
(* Properties appear with their units.                                      *)

WholeAt(p) == \A k \in Numbers : Numbered(p, k)' # {} <=> k <= property'[p].unitCount

LEMMA CommitWhole ==
  ASSUME Inv, NEW w \in Workers, CommitProperty(w), NEW p \in DOMAIN property' \ DOMAIN property
  PROVE  WholeAt(p)
<1> DEFINE rows == req[w].units
           count == req[w].number
<1>1. p = req[w].id /\ count \in Numbers
  BY Committed
<1>2. property'[p].unitCount = count
  <2>1. property'[p] = NewProperty(req[w])
    BY <1>1, Committed
  <2> QED
    BY <2>1 DEF NewProperty
<1>3. /\ DOMAIN unit' = DOMAIN unit \cup DOMAIN rows
      /\ \A n \in DOMAIN unit : unit'[n] = unit[n]
      /\ \A n \in DOMAIN rows : unit'[n] = rows[n]
  BY Committed
<1>4. /\ \A n \in DOMAIN rows : rows[n].property = p /\ rows[n].number \in 1..count
      /\ \A k \in 1..count : \E n \in DOMAIN rows : rows[n].number = k
  <2>1. RowsNumbered(req[w])
    BY Committed
  <2> QED
    BY <1>1, <2>1 DEF RowsNumbered
<1>5. \A n \in DOMAIN unit : unit[n].property # p
  BY DEF Inv, DataOK, DataTyped
<1> HIDE DEF rows, count
<1> SUFFICES ASSUME NEW k \in Numbers
             PROVE  Numbered(p, k)' # {} <=> k <= count
  BY <1>2 DEF WholeAt
<1>6. k \in Nat /\ k >= 1 /\ count \in Nat /\ (k <= count <=> k \in 1..count)
  BY <1>1, HoldingAssumption DEF Numbers
<1>7. ASSUME k \in 1..count PROVE Numbered(p, k)' # {}
  BY <1>3, <1>4, <1>7 DEF Numbered
<1>8. ASSUME NEW n \in Numbered(p, k)' PROVE k \in 1..count
  BY <1>3, <1>4, <1>5 DEF Numbered
<1> QED
  BY <1>6, <1>7, <1>8

\* No other statement inserts a property.
LEMMA NoNewProperty ==
  ASSUME Inv, [Next]_vars, ~\E w \in Workers : CommitProperty(w)
  PROVE  DOMAIN property' = DOMAIN property
<1>1. CASE UNCHANGED vars
  BY <1>1 DEF vars
<1>2. ASSUME NEW w \in Workers, ReceiveRequest(w) PROVE property' = property
  BY <1>2
     DEF ReceiveRequest, ReceiveCreateProperty, ReceiveUpdateProperty, ReceiveCreateUnit,
         ReceiveUpdateUnit, Receive, tables
<1>3. ASSUME NEW w \in Workers, UpdateProperty(w) PROVE DOMAIN property' = DOMAIN property
  BY <1>3 DEF UpdateProperty
<1>4. ASSUME NEW w \in Workers,
             \/ InsertProperty(w) \/ InsertUnits(w) \/ LoadProperty(w)
             \/ CheckProperty(w) \/ CreateUnit(w)
             \/ LoadUnit(w) \/ CheckDestination(w) \/ UpdateUnit(w)
             \/ WriteAudit(w) \/ Fail(w)
      PROVE  property' = property
  BY <1>4
     DEF InsertProperty, InsertUnits, LoadProperty, CheckProperty, CreateUnit, LoadUnit,
         CheckDestination, UpdateUnit, WriteUnit, Check, WriteAudit, Fail, tables
<1>5. ASSUME NEW i \in Properties \cup Units, ArchiveRow(i) \/ RestoreRow(i)
      PROVE  property' = property
  BY <1>5 DEF ArchiveRow, RestoreRow
<1> QED
  BY <1>1, <1>2, <1>3, <1>4, <1>5 DEF Next, Step

\* createPropertyWithUnits shows a property and its units 1 to unitCount in one
\* step, whatever else is served and wherever its transaction is rolled back.
THEOREM PropertiesAppearWhole == Spec => PropertyAppearsWhole
<1>1. ASSUME Inv, [Next]_vars
      PROVE  \A p \in DOMAIN property' \ DOMAIN property : WholeAt(p)
  BY <1>1, CommitWhole, NoNewProperty
<1>2. Inv /\ [Next]_vars
        => [\A p \in DOMAIN property' \ DOMAIN property :
              \A k \in Numbers : Numbered(p, k)' # {} <=> k <= property'[p].unitCount]_vars
  BY <1>1 DEF WholeAt
<1> QED
  BY <1>2, SpecInv, PTL DEF Spec, PropertyAppearsWhole

-----------------------------------------------------------------------------
(* The unit numbers as a registry of names.                                 *)

LEMMA RegistryInit == Init => Registry!Init
  BY DEF Init, NoRows, Registry!Init, Numbered

\* What a step does to the holders of every number.
NamesChange ==
  \A p \in Properties, k \in Numbers :
    \/ Numbered(p, k) = {} /\ \E n \in Units : Numbered(p, k)' = {n}
    \/ Numbered(p, k)' = {}
    \/ Numbered(p, k)' = Numbered(p, k)

LEMMA SameNames == unit' = unit => NamesChange
  BY DEF NamesChange, Numbered

\* A write claims a number nobody holds and gives up the number of the row.
LEMMA WriteChangesNames ==
  ASSUME Inv, NEW w \in Workers, NEW n, NEW row, WriteUnit(w, n, row), Writable(w, n, row)
  PROVE  NamesChange
<1>1. CASE UNCHANGED tables
  BY <1>1, SameNames DEF tables
<1>2. CASE KeyAccepts(n, row) /\ unit' = Stored(unit, n, row)
  <2>1. /\ DOMAIN unit' = DOMAIN unit \cup {n}
        /\ unit'[n] = row
        /\ \A m \in DOMAIN unit \ {n} : unit'[m] = unit[m]
    BY <1>2, WrittenTable
  <2>2. Numbered(row.property, row.number) \subseteq {n}
    BY <1>2 DEF KeyAccepts
  <2> SUFFICES ASSUME NEW p \in Properties, NEW k \in Numbers
               PROVE  \/ Numbered(p, k) = {} /\ Numbered(p, k)' = {n}
                      \/ Numbered(p, k)' = {}
                      \/ Numbered(p, k)' = Numbered(p, k)
    BY DEF NamesChange, Writable
  <2>3. CASE p = row.property /\ k = row.number
    <3>1. Numbered(p, k)' = {n}
      BY <2>1, <2>2, <2>3 DEF Numbered
    <3> QED
      BY <2>2, <2>3, <3>1
  <2>4. CASE ~(p = row.property /\ k = row.number)
    <3>1. Numbered(p, k)' = Numbered(p, k) \ {n}
      BY <2>1, <2>4 DEF Numbered
    <3>2. n \in Numbered(p, k) => Numbered(p, k) = {n}
      BY DEF Inv, DataOK, NumbersUnique, Numbered
    <3> QED
      BY <3>1, <3>2
  <2> QED
    BY <2>3, <2>4
<1> QED
  BY <1>1, <1>2 DEF WriteUnit

\* A commit claims the numbers of a property that nobody saw before.
LEMMA CommitChangesNames ==
  ASSUME Inv, NEW w \in Workers, CommitProperty(w)
  PROVE  NamesChange
<1> DEFINE rows == req[w].units
           i == req[w].id
<1>1. /\ i \notin DOMAIN property
      /\ DOMAIN rows \subseteq Units
      /\ DOMAIN unit' = DOMAIN unit \cup DOMAIN rows
      /\ \A n \in DOMAIN unit : unit'[n] = unit[n]
      /\ \A n \in DOMAIN rows : unit'[n] = rows[n]
  BY Committed
<1>2. /\ \A n \in DOMAIN rows : rows[n].property = i
      /\ \A n, m \in DOMAIN rows : rows[n].number = rows[m].number => n = m
  <2>1. RowsNumbered(req[w])
    BY Committed
  <2> QED
    BY <2>1 DEF RowsNumbered
<1>3. \A n \in DOMAIN unit : unit[n].property # i
  BY <1>1 DEF Inv, DataOK, DataTyped
<1> HIDE DEF rows, i
<1> SUFFICES ASSUME NEW p \in Properties, NEW k \in Numbers
             PROVE  \/ Numbered(p, k) = {} /\ \E n \in Units : Numbered(p, k)' = {n}
                    \/ Numbered(p, k)' = {}
                    \/ Numbered(p, k)' = Numbered(p, k)
  BY DEF NamesChange
<1>4. CASE p = i
  <2>1. Numbered(p, k) = {}
    BY <1>3, <1>4 DEF Numbered
  <2>2. Numbered(p, k)' = {n \in DOMAIN rows : rows[n].number = k}
    BY <1>1, <1>2, <1>3, <1>4 DEF Numbered
  <2>3. CASE \E n \in DOMAIN rows : rows[n].number = k
    <3>1. PICK n \in DOMAIN rows : rows[n].number = k
      BY <2>3
    <3>2. Numbered(p, k)' = {n}
      BY <1>2, <2>2, <3>1
    <3> QED
      BY <1>1, <2>1, <3>2
  <2>4. CASE ~\E n \in DOMAIN rows : rows[n].number = k
    BY <2>2, <2>4
  <2> QED
    BY <2>3, <2>4
<1>5. CASE p # i
  BY <1>1, <1>2, <1>5 DEF Numbered
<1> QED
  BY <1>4, <1>5

LEMMA StepChangesNames ==
  ASSUME Inv, [Next]_vars
  PROVE  NamesChange
<1>1. CASE UNCHANGED vars
  BY <1>1, SameNames DEF vars
<1>2. ASSUME NEW w \in Workers, ReceiveRequest(w) PROVE NamesChange
  BY <1>2, SameNames
     DEF ReceiveRequest, ReceiveCreateProperty, ReceiveUpdateProperty, ReceiveCreateUnit,
         ReceiveUpdateUnit, Receive, tables
<1>3. ASSUME NEW w \in Workers, CreateUnit(w) PROVE NamesChange
  BY <1>3, CreatedRow, WriteChangesNames DEF CreateUnit
<1>4. ASSUME NEW w \in Workers, UpdateUnit(w) PROVE NamesChange
  BY <1>4, EditedRow, WriteChangesNames DEF UpdateUnit
<1>5. ASSUME NEW w \in Workers, CommitProperty(w) PROVE NamesChange
  BY <1>5, CommitChangesNames
<1>6. ASSUME NEW w \in Workers,
             \/ InsertProperty(w) \/ InsertUnits(w) \/ LoadProperty(w) \/ UpdateProperty(w)
             \/ CheckProperty(w) \/ LoadUnit(w) \/ CheckDestination(w)
             \/ WriteAudit(w) \/ Fail(w)
      PROVE  NamesChange
  BY <1>6, SameNames
     DEF InsertProperty, InsertUnits, LoadProperty, UpdateProperty, CheckProperty, LoadUnit,
         CheckDestination, Check, WriteAudit, Fail, tables
<1>7. ASSUME NEW i \in Properties \cup Units, ArchiveRow(i) \/ RestoreRow(i)
      PROVE  NamesChange
  BY <1>7, SameNames DEF ArchiveRow, RestoreRow
<1> QED
  BY <1>1, <1>2, <1>3, <1>4, <1>5, <1>6, <1>7 DEF Next, Step

LEMMA RegistryStep ==
  ASSUME Inv, [Next]_vars
  PROVE  [Registry!Next]_[name \in Properties \X Numbers |-> Numbered(name[1], name[2])]
<1> DEFINE holders == [name \in Properties \X Numbers |-> Numbered(name[1], name[2])]
<1>1. NamesChange
  BY StepChangesNames
<1>2. \A name \in Properties \X Numbers :
        \/ holders[name] = {} /\ \E n \in Units : holders'[name] = {n}
        \/ holders'[name] = {}
        \/ holders'[name] = holders[name]
  BY <1>1 DEF NamesChange
<1>3. Registry!Next
  BY <1>2 DEF Registry!Next, Registry!Claimed, Registry!Released
<1> QED
  BY <1>3

\* A unit number is claimed only when no unit of the property holds it,
\* archived ones included, and never passes from one unit to another.
THEOREM UnitNumbersRegistered == Spec => ImplementsNameRegistry
<1>1. Inv /\ [Next]_vars
        => [Registry!Next]_[name \in Properties \X Numbers |-> Numbered(name[1], name[2])]
  BY RegistryStep
<1> QED
  BY <1>1, RegistryInit, SpecInv, PTL DEF Spec, Registry!Spec, ImplementsNameRegistry
=============================================================================
