-------------------------- MODULE SecondFactorProofs --------------------------
(***************************************************************************)
(* Proofs about SecondFactor, for every number of users, overlapping       *)
(* requests and batches, and every set of secrets and codes.               *)
(***************************************************************************)
EXTENDS SecondFactor, SequenceTheorems, TLAPS

\* What the locals hold while a request has writes to come.
TypeInv ==
  /\ TypeOK
  /\ \A r \in Reqs :
       /\ todo[r] = <<>> => req[r] = NoReq
       /\ todo[r] # <<>> => req[r].user \in Users
       /\ todo[r] \in {<<"upsert">>, <<"mark", "delete", "create">>} => req[r].secret \in Secrets
       /\ todo[r] = <<"spend">> => req[r].code \in Codes

------------------------------------------------------------------------------
(* The writes to come *)

LEMMA TodoShapes ==
  /\ Len(<<"upsert">>) = 1 /\ Head(<<"upsert">>) = "upsert"
  /\ Len(<<"spend">>) = 1 /\ Head(<<"spend">>) = "spend"
  /\ Len(<<"create">>) = 1 /\ Head(<<"create">>) = "create"
  /\ Len(<<"drop">>) = 1 /\ Head(<<"drop">>) = "drop"
  /\ Len(<<"delete", "create">>) = 2 /\ Head(<<"delete", "create">>) = "delete"
  /\ Tail(<<"delete", "create">>) = <<"create">>
  /\ Len(<<"delete", "drop">>) = 2 /\ Head(<<"delete", "drop">>) = "delete"
  /\ Tail(<<"delete", "drop">>) = <<"drop">>
  /\ Len(<<"mark", "delete", "create">>) = 3 /\ Head(<<"mark", "delete", "create">>) = "mark"
  /\ Tail(<<"mark", "delete", "create">>) = <<"delete", "create">>
<1> QED
  OBVIOUS

LEMMA TodosDiffer ==
  /\ <<"upsert">> # <<>> /\ <<"spend">> # <<>> /\ <<"create">> # <<>> /\ <<"drop">> # <<>>
  /\ <<"delete", "create">> # <<>> /\ <<"delete", "drop">> # <<>>
  /\ <<"mark", "delete", "create">> # <<>>
  /\ <<"spend">> # <<"upsert">> /\ <<"spend">> # <<"create">> /\ <<"spend">> # <<"drop">>
  /\ <<"spend">> # <<"delete", "create">> /\ <<"spend">> # <<"delete", "drop">>
  /\ <<"spend">> # <<"mark", "delete", "create">>
<1> QED
  OBVIOUS

\* What a request has left once its first write is done.
LEMMA DoneTyped ==
  ASSUME TypeInv, NEW r \in Reqs, Done(r), todo[r] # <<>>
  PROVE  /\ \A q \in Reqs : q # r => todo'[q] = todo[q] /\ req'[q] = req[q]
         /\ todo' \in [Reqs -> Todos] /\ req' \in [Reqs -> LocalsType]
         /\ \/ /\ todo[r] \in {<<"upsert">>, <<"spend">>, <<"create">>, <<"drop">>}
               /\ todo'[r] = <<>> /\ req'[r] = NoReq
            \/ /\ todo[r] = <<"mark", "delete", "create">>
               /\ todo'[r] = <<"delete", "create">> /\ req'[r] = req[r]
            \/ /\ todo[r] = <<"delete", "create">>
               /\ todo'[r] = <<"create">> /\ req'[r] = req[r]
            \/ /\ todo[r] = <<"delete", "drop">>
               /\ todo'[r] = <<"drop">> /\ req'[r] = req[r]
<1>1. /\ todo \in [Reqs -> Todos] /\ req \in [Reqs -> LocalsType] /\ NoReq \in LocalsType
      /\ todo[r] \in Todos
  BY DEF TypeInv, TypeOK, NoReq, Locals, LocalsType
<1>2. CASE Len(todo[r]) = 1
  <2>1. todo' = [todo EXCEPT ![r] = <<>>] /\ req' = [req EXCEPT ![r] = NoReq]
    BY <1>2 DEF Done, Finish
  <2>2. todo[r] \in {<<"upsert">>, <<"spend">>, <<"create">>, <<"drop">>}
    <3>1. /\ todo[r] # <<"mark", "delete", "create">> /\ todo[r] # <<"delete", "create">>
          /\ todo[r] # <<"delete", "drop">>
      <4>1. /\ Len(<<"mark", "delete", "create">>) = 3 /\ Len(<<"delete", "create">>) = 2
            /\ Len(<<"delete", "drop">>) = 2
        BY TodoShapes
      <4> QED
        BY <1>2, <4>1
    <3> QED
      BY <1>1, <3>1 DEF Todos
  <2>3. <<>> \in Todos
    BY DEF Todos
  <2> QED
    BY <1>1, <2>1, <2>2, <2>3
<1>3. CASE Len(todo[r]) # 1
  <2>1. todo' = [todo EXCEPT ![r] = Tail(@)] /\ req' = req
    BY <1>3 DEF Done
  <2>2. todo[r] \in {<<"mark", "delete", "create">>, <<"delete", "create">>,
                     <<"delete", "drop">>}
    BY <1>1, <1>3, TodoShapes DEF Todos
  <2>3. Tail(todo[r]) \in Todos
    BY <2>2, TodoShapes DEF Todos
  <2> QED
    BY <1>1, <2>1, <2>2, <2>3, TodoShapes
<1> QED
  BY <1>2, <1>3

\* What a request has left once it has deleted the codes.
LEMMA DeleteRest ==
  ASSUME TypeInv, NEW r \in Reqs, DeleteBackupCodes(r)
  PROVE  /\ \A q \in Reqs : q # r => todo'[q] = todo[q] /\ req'[q] = req[q]
         /\ todo' \in [Reqs -> Todos] /\ req' \in [Reqs -> LocalsType]
         /\ \/ todo[r] = <<"delete", "create">> /\ todo'[r] = <<"create">>
            \/ todo[r] = <<"delete", "drop">> /\ todo'[r] = <<"drop">>
         /\ req'[r].user = req[r].user /\ req'[r].rows = req[r].rows
         /\ req'[r].seen = Len(batch)
<1>1. /\ todo \in [Reqs -> Todos] /\ req \in [Reqs -> LocalsType] /\ req[r] \in LocalsType
      /\ todo[r] \in Todos /\ Len(batch) \in Nat
  BY LenProperties DEF TypeInv, TypeOK
<1>2. /\ todo[r] # <<>> /\ Head(todo[r]) = "delete"
      /\ todo' = [todo EXCEPT ![r] = Tail(@)] /\ req' = [req EXCEPT ![r].seen = Len(batch)]
  BY DEF DeleteBackupCodes, At
<1>3. todo[r] \in {<<"delete", "create">>, <<"delete", "drop">>}
  BY <1>1, <1>2, TodoShapes DEF Todos
<1>4. Tail(todo[r]) \in Todos
  BY <1>3, TodoShapes DEF Todos
<1>5. /\ [req[r] EXCEPT !.seen = Len(batch)] \in LocalsType
      /\ [req[r] EXCEPT !.seen = Len(batch)].user = req[r].user
      /\ [req[r] EXCEPT !.seen = Len(batch)].rows = req[r].rows
      /\ [req[r] EXCEPT !.seen = Len(batch)].seen = Len(batch)
  BY <1>1 DEF LocalsType
<1>6. req' = [req EXCEPT ![r] = [req[r] EXCEPT !.seen = Len(batch)]]
  BY <1>2
<1> QED
  BY <1>1, <1>2, <1>3, <1>4, <1>5, <1>6, TodoShapes

\* What a request has to do when it begins.
LEMMA BeginTyped ==
  ASSUME TypeInv, NEW r \in Reqs, NEW locals \in LocalsType,
         NEW op \in {"setup", "enable", "disable", "regenerate", "signin"}, Begin(r, op, locals)
  PROVE  /\ todo[r] = <<>> /\ todo'[r] = Steps(op) /\ req'[r] = locals
         /\ \A q \in Reqs : q # r => todo'[q] = todo[q] /\ req'[q] = req[q]
         /\ todo' \in [Reqs -> Todos] /\ req' \in [Reqs -> LocalsType]
         /\ UNCHANGED <<totp, batch, faults>>
<1>1. todo \in [Reqs -> Todos] /\ req \in [Reqs -> LocalsType]
  BY DEF TypeInv, TypeOK
<1>2. Steps(op) \in Todos
  BY DEF Steps, Todos
<1> QED
  BY <1>1, <1>2 DEF Begin

------------------------------------------------------------------------------
(* The table of backup codes *)

\* The batches of u that hold a valid code.
Holding(rows, u) ==
  {b \in DOMAIN rows : rows[b].user = u /\ \E c \in Codes : rows[b].codes[c] = "unused"}

\* A code is valid until its first use.
Fresh(row) ==
  \A c \in Codes : row.uses[c] <= 1 /\ (row.codes[c] = "unused" => row.uses[c] = 0)

LEMMA BatchTyped ==
  ASSUME NEW u \in Users, NEW codes, NEW seen \in Nat
  PROVE  /\ Batch(u, codes, seen) \in BatchType /\ Fresh(Batch(u, codes, seen))
         /\ Batch(u, codes, seen).user = u /\ Batch(u, codes, seen).seen = seen
<1> QED
  BY DEF Batch, BatchType, Fresh

LEMMA BatchFacts ==
  ASSUME TypeInv
  PROVE  /\ batch \in Seq(BatchType) /\ Len(batch) \in Nat /\ DOMAIN batch = 1..Len(batch)
         /\ \A b \in DOMAIN batch : batch[b] \in BatchType
<1>1. batch \in Seq(BatchType)
  BY DEF TypeInv, TypeOK
<1>2. Len(batch) \in Nat /\ DOMAIN batch = 1..Len(batch)
  BY <1>1, LenProperties
<1> QED
  BY <1>1, <1>2

LEMMA EmptiedTyped ==
  ASSUME NEW row \in BatchType
  PROVE  /\ Emptied(row) \in BatchType
         /\ Emptied(row).user = row.user /\ Emptied(row).seen = row.seen
         /\ \A c \in Codes : Emptied(row).codes[c] = "absent"
         /\ Fresh(row) => Fresh(Emptied(row))
<1> QED
  BY DEF Emptied, BatchType, Fresh

LEMMA DeleteTyped ==
  ASSUME TypeInv, NEW r \in Reqs, DeleteBackupCodes(r)
  PROVE  /\ batch' \in Seq(BatchType) /\ DOMAIN batch' = DOMAIN batch
         /\ \A b \in DOMAIN batch :
              /\ Fresh(batch[b]) => Fresh(batch'[b])
              /\ batch'[b].user = batch[b].user /\ batch'[b].seen = batch[b].seen
         /\ Holding(batch', req[r].user) = {}
         /\ \A u \in Users : Holding(batch', u) \subseteq Holding(batch, u)
<1>1. batch' = [b \in 1..Len(batch) |-> IF Kept(req[r].user, b) THEN batch[b]
                                        ELSE Emptied(batch[b])]
  BY BatchFacts DEF DeleteBackupCodes
<1>2. \A b \in 1..Len(batch) :
        /\ batch'[b] \in BatchType
        /\ batch'[b].user = batch[b].user /\ batch'[b].seen = batch[b].seen
        /\ Fresh(batch[b]) => Fresh(batch'[b])
  BY <1>1, BatchFacts, EmptiedTyped
<1>3. batch' \in Seq(BatchType) /\ DOMAIN batch' = DOMAIN batch
  BY <1>1, <1>2, BatchFacts, IsASeq
<1>4. Holding(batch', req[r].user) = {}
  <2>1. SUFFICES ASSUME NEW b \in 1..Len(batch), batch'[b].user = req[r].user, NEW c \in Codes
                 PROVE  batch'[b].codes[c] # "unused"
    BY <1>3, BatchFacts DEF Holding
  <2>2. batch'[b] = Emptied(batch[b])
    BY <1>1, <1>2, <2>1 DEF Kept
  <2> QED
    BY <2>2, BatchFacts, EmptiedTyped
<1>5. ASSUME NEW u \in Users
      PROVE  Holding(batch', u) \subseteq Holding(batch, u)
  <2>1. SUFFICES ASSUME NEW b \in 1..Len(batch), batch'[b].user = u, NEW c \in Codes,
                        batch'[b].codes[c] = "unused"
                 PROVE  batch[b].user = u /\ batch[b].codes[c] = "unused"
    BY <1>3, BatchFacts DEF Holding
  <2>2. batch'[b] = batch[b]
    BY <1>1, <2>1, BatchFacts, EmptiedTyped
  <2> QED
    BY <2>1, <2>2
<1> QED
  BY <1>2, <1>3, <1>4, <1>5, BatchFacts

LEMMA CreateTyped ==
  ASSUME TypeInv, NEW r \in Reqs, CreateBackupCodes(r), req[r].user \in Users
  PROVE  /\ batch' \in Seq(BatchType) /\ DOMAIN batch' = 1..(Len(batch) + 1)
         /\ \A b \in DOMAIN batch : batch'[b] = batch[b]
         /\ batch'[Len(batch) + 1].user = req[r].user
         /\ batch'[Len(batch) + 1].seen = req[r].seen
         /\ Fresh(batch'[Len(batch) + 1])
<1> DEFINE new(codes) == Batch(req[r].user, codes, req[r].seen)
<1>1. PICK codes : batch' = Append(batch, new(codes))
  BY DEF CreateBackupCodes
<1>2. req[r].seen \in Nat
  BY DEF TypeInv, TypeOK, LocalsType
<1>3. /\ new(codes) \in BatchType /\ Fresh(new(codes))
      /\ new(codes).user = req[r].user /\ new(codes).seen = req[r].seen
  BY <1>2, BatchTyped
<1> HIDE DEF new
<1> QED
  BY <1>1, <1>3, BatchFacts, AppendProperties

LEMMA SpentTyped ==
  ASSUME NEW row \in BatchType, NEW c \in Codes, row.codes[c] = "unused"
  PROVE  /\ Spent(row, c) \in BatchType
         /\ Spent(row, c).user = row.user /\ Spent(row, c).seen = row.seen
         /\ \A d \in Codes : Spent(row, c).codes[d] = "unused" => row.codes[d] = "unused"
         /\ Fresh(row) => Fresh(Spent(row, c))
<1>1. /\ row.codes \in [Codes -> {"absent", "unused", "used"}] /\ row.uses \in [Codes -> Nat]
      /\ row = [user |-> row.user, codes |-> row.codes, uses |-> row.uses, seen |-> row.seen]
      /\ row.user \in Users /\ row.seen \in Nat
  BY DEF BatchType
<1>2. Spent(row, c) = [user |-> row.user, codes |-> [row.codes EXCEPT ![c] = "used"],
                       uses |-> [row.uses EXCEPT ![c] = @ + 1], seen |-> row.seen]
  <2> DEFINE marked == [user |-> row.user, codes |-> [row.codes EXCEPT ![c] = "used"],
                        uses |-> row.uses, seen |-> row.seen]
  <2>1. [row EXCEPT !.codes[c] = "used"] = marked
    BY <1>1
  <2>2. Spent(row, c) = [[row EXCEPT !.codes[c] = "used"] EXCEPT !.uses[c] = @ + 1]
    BY DEF Spent
  <2>3. [marked EXCEPT !.uses[c] = @ + 1]
        = [user |-> row.user, codes |-> [row.codes EXCEPT ![c] = "used"],
           uses |-> [row.uses EXCEPT ![c] = @ + 1], seen |-> row.seen]
    OBVIOUS
  <2> QED
    BY <2>1, <2>2, <2>3
<1>3. /\ [row.codes EXCEPT ![c] = "used"] \in [Codes -> {"absent", "unused", "used"}]
      /\ [row.uses EXCEPT ![c] = @ + 1] \in [Codes -> Nat]
  BY <1>1
<1>4. /\ Spent(row, c).user = row.user /\ Spent(row, c).seen = row.seen
      /\ Spent(row, c).codes = [row.codes EXCEPT ![c] = "used"]
      /\ Spent(row, c).uses = [row.uses EXCEPT ![c] = @ + 1]
  BY <1>2
<1>5. Spent(row, c) \in BatchType
  BY <1>1, <1>2, <1>3 DEF BatchType
<1>6. \A d \in Codes : /\ Spent(row, c).codes[d] = IF d = c THEN "used" ELSE row.codes[d]
                       /\ Spent(row, c).uses[d] = IF d = c THEN row.uses[c] + 1 ELSE row.uses[d]
  BY <1>1, <1>4
<1>7. Fresh(row) => Fresh(Spent(row, c))
  BY <1>1, <1>6 DEF Fresh
<1> QED
  BY <1>4, <1>5, <1>6, <1>7

LEMMA SpendTyped ==
  ASSUME TypeInv, NEW r \in Reqs, MarkBackupCodeUsed(r), req[r].code \in Codes,
         req[r].rows \subseteq DOMAIN batch
  PROVE  /\ batch' \in Seq(BatchType) /\ DOMAIN batch' = DOMAIN batch
         /\ \A b \in DOMAIN batch :
              /\ Fresh(batch[b]) => Fresh(batch'[b])
              /\ batch'[b].user = batch[b].user /\ batch'[b].seen = batch[b].seen
         /\ \A u \in Users : Holding(batch', u) \subseteq Holding(batch, u)
<1>1. CASE UNCHANGED batch
  BY <1>1, BatchFacts
<1>2. ASSUME NEW b \in DOMAIN batch, batch[b].codes[req[r].code] = "unused",
             batch' = [batch EXCEPT ![b] = Spent(@, req[r].code)]
      PROVE  /\ batch' \in Seq(BatchType) /\ DOMAIN batch' = DOMAIN batch
             /\ \A a \in DOMAIN batch :
                  /\ Fresh(batch[a]) => Fresh(batch'[a])
                  /\ batch'[a].user = batch[a].user /\ batch'[a].seen = batch[a].seen
             /\ \A u \in Users : Holding(batch', u) \subseteq Holding(batch, u)
  <2>1. /\ Spent(batch[b], req[r].code) \in BatchType
        /\ Spent(batch[b], req[r].code).user = batch[b].user
        /\ Spent(batch[b], req[r].code).seen = batch[b].seen
        /\ \A d \in Codes : Spent(batch[b], req[r].code).codes[d] = "unused"
                            => batch[b].codes[d] = "unused"
        /\ Fresh(batch[b]) => Fresh(Spent(batch[b], req[r].code))
    BY <1>2, BatchFacts, SpentTyped
  <2>2. \A a \in DOMAIN batch :
          batch'[a] = IF a = b THEN Spent(batch[b], req[r].code) ELSE batch[a]
    BY <1>2, BatchFacts
  <2>3. batch' \in Seq(BatchType) /\ DOMAIN batch' = DOMAIN batch
    BY <1>2, <2>1, BatchFacts, ExceptSeq
  <2>4. \A u \in Users : Holding(batch', u) \subseteq Holding(batch, u)
    BY <2>1, <2>2, <2>3 DEF Holding
  <2> QED
    BY <2>1, <2>2, <2>3, <2>4
<1>3. PICK b \in req[r].rows :
        \/ UNCHANGED batch
        \/ /\ batch[b].codes[req[r].code] = "unused"
           /\ batch' = [batch EXCEPT ![b] = Spent(@, req[r].code)]
  BY DEF MarkBackupCodeUsed, Spendable
<1> QED
  BY <1>1, <1>2, <1>3

------------------------------------------------------------------------------
(* The rows of TOTP secrets *)

LEMMA RowsTyped ==
  /\ NoTotp \in TotpType /\ ~NoTotp.enabled /\ ~NoTotp.proved
  /\ \A secret \in Secrets :
       /\ Pending(secret) \in TotpType /\ ~Pending(secret).enabled
       /\ Pending(secret).secret = secret
<1> QED
  BY DEF NoTotp, Pending, TotpType

LEMMA EnabledTyped ==
  ASSUME NEW row \in TotpType, NEW secret
  PROVE  /\ Enabled(row, secret) \in TotpType
         /\ Enabled(row, secret).secret = row.secret
         /\ Enabled(row, secret).enabled = TRUE
         /\ row.secret = secret => Enabled(row, secret).proved
<1> QED
  BY DEF Enabled, TotpType

------------------------------------------------------------------------------
(* Types *)

\* What the next step needs to know of the locals of one request.
LocalsOf(r) ==
  /\ todo[r] = <<>> => req[r] = NoReq
  /\ todo[r] # <<>> => req[r].user \in Users
  /\ todo[r] \in {<<"upsert">>, <<"mark", "delete", "create">>} => req[r].secret \in Secrets
  /\ todo[r] = <<"spend">> => req[r].code \in Codes
  /\ req[r].rows \subseteq DOMAIN batch

LEMMA LocalsKept ==
  ASSUME TypeInv, NEW r \in Reqs, NEW q \in Reqs, DOMAIN batch \subseteq DOMAIN batch',
         \/ todo'[q] = todo[q] /\ req'[q] = req[q]
         \/ todo'[q] = <<>> /\ req'[q] = NoReq
         \/ q = r /\ Done(r) /\ todo[r] # <<>>
  PROVE  LocalsOf(q)'
<1>1. LocalsOf(q) /\ NoReq.rows = {}
  BY DEF TypeInv, TypeOK, LocalsOf, NoReq, Locals
<1>2. CASE todo'[q] = todo[q] /\ req'[q] = req[q]
  BY <1>1, <1>2 DEF LocalsOf
<1>3. CASE todo'[q] = <<>> /\ req'[q] = NoReq
  BY <1>1, <1>3, TodosDiffer DEF LocalsOf
<1>4. CASE q = r /\ Done(r) /\ todo[r] # <<>>
  <2>1. CASE todo'[r] = <<>> /\ req'[r] = NoReq
    BY <1>3, <1>4, <2>1
  <2>2. CASE /\ todo'[r] \in {<<"delete", "create">>, <<"create">>, <<"drop">>}
             /\ req'[r] = req[r]
    <3>1. /\ todo'[r] # <<>> /\ todo'[r] # <<"spend">> /\ todo'[r] # <<"upsert">>
          /\ todo'[r] # <<"mark", "delete", "create">>
      <4>1. /\ Head(<<"delete", "create">>) = "delete" /\ Head(<<"create">>) = "create"
            /\ Head(<<"drop">>) = "drop" /\ Head(<<"spend">>) = "spend"
            /\ Head(<<"upsert">>) = "upsert" /\ Head(<<"mark", "delete", "create">>) = "mark"
        BY TodoShapes
      <4> QED
        BY <2>2, <4>1, TodosDiffer
    <3> QED
      BY <1>1, <1>4, <2>2, <3>1 DEF LocalsOf
  <2> QED
    BY <1>4, <2>1, <2>2, DoneTyped
<1> QED
  BY <1>2, <1>3, <1>4

LEMMA TypeFrom ==
  ASSUME totp' \in [Users -> TotpType], \A u \in Users : totp'[u].enabled => totp'[u].secret # None,
         batch' \in Seq(BatchType), todo' \in [Reqs -> Todos], req' \in [Reqs -> LocalsType],
         overlapped' \in SUBSET Users, faults' \in 0..MaxFaults, \A q \in Reqs : LocalsOf(q)'
  PROVE  TypeInv'
<1> QED
  BY DEF TypeInv, TypeOK, LocalsOf

LEMMA TypeStep == TypeInv /\ [Next]_vars => TypeInv'
<1> SUFFICES ASSUME TypeInv, [Next]_vars
             PROVE  TypeInv'
  OBVIOUS
<1> USE SecondFactorAssumption
<1>1. /\ totp \in [Users -> TotpType] /\ \A u \in Users : totp[u].enabled => totp[u].secret # None
      /\ todo \in [Reqs -> Todos] /\ req \in [Reqs -> LocalsType]
      /\ overlapped \in SUBSET Users /\ faults \in 0..MaxFaults
      /\ \A r \in Reqs : LocalsOf(r)
  BY DEF TypeInv, TypeOK, LocalsOf
<1>2. CASE UNCHANGED vars
  BY <1>2 DEF vars, TypeInv, TypeOK, LocalsOf
<1>3. ASSUME NEW r \in Reqs, NEW u \in Users,
             NEW op \in {"setup", "enable", "disable", "regenerate", "signin"},
             NEW secret \in Secrets \cup {None}, NEW code \in Codes \cup {None},
             NEW rows \in SUBSET DOMAIN batch,
             op \in {"setup", "enable"} => secret \in Secrets,
             op = "signin" => code \in Codes,
             Begin(r, op, Locals(u, secret, code, rows)), overlapped' \in SUBSET Users
      PROVE  TypeInv'
  <2> DEFINE locals == Locals(u, secret, code, rows)
  <2>1. /\ locals \in LocalsType /\ locals.user = u /\ locals.secret = secret
        /\ locals.code = code /\ locals.rows = rows
    BY BatchFacts DEF Locals, LocalsType
  <2>2. /\ todo'[r] = Steps(op) /\ req'[r] = locals
        /\ \A q \in Reqs : q # r => todo'[q] = todo[q] /\ req'[q] = req[q]
        /\ todo' \in [Reqs -> Todos] /\ req' \in [Reqs -> LocalsType]
        /\ UNCHANGED <<totp, batch, faults>>
    BY <1>3, <2>1, BeginTyped
  <2>3. /\ Steps(op) # <<>>
        /\ Steps(op) \in {<<"upsert">>, <<"mark", "delete", "create">>}
           => op \in {"setup", "enable"}
        /\ Steps(op) = <<"spend">> => op = "signin"
    <3>1. /\ <<"upsert">> # <<"delete", "create">> /\ <<"upsert">> # <<"delete", "drop">>
          /\ <<"mark", "delete", "create">> # <<"delete", "create">>
          /\ <<"mark", "delete", "create">> # <<"delete", "drop">>
      OBVIOUS
    <3> QED
      BY <3>1, TodosDiffer DEF Steps
  <2> HIDE DEF locals
  <2>4. LocalsOf(r)'
    BY <1>3, <2>1, <2>2, <2>3 DEF LocalsOf
  <2>5. ASSUME NEW q \in Reqs, q # r
        PROVE  LocalsOf(q)'
    BY <1>1, <2>2, <2>5, LocalsKept
  <2>6. batch' \in Seq(BatchType)
    BY <2>2, BatchFacts
  <2> QED
    BY <1>1, <1>3, <2>2, <2>4, <2>5, <2>6, TypeFrom
<1>4. ASSUME NEW r \in Reqs, Arrive(r)
      PROVE  TypeInv'
  <2>1. PICK u \in Users :
          \/ BeginTotpSetup(r, u) \/ VerifyTotp(r, u) \/ DisableTotp(r, u)
          \/ RegenerateBackupCodes(r, u) \/ \E c \in Codes : VerifyBackupCode(r, u, c)
    BY <1>4 DEF Arrive
  <2>2. ASSUME NEW op, NEW locals, Settings(r, op, locals), locals.user = u
        PROVE  overlapped' \in SUBSET Users
    BY <1>1, <2>2 DEF Settings
  <2>3. CASE BeginTotpSetup(r, u) \/ VerifyTotp(r, u)
    <3>1. PICK secret \in Secrets, op \in {"setup", "enable"} :
            Settings(r, op, Locals(u, secret, None, {}))
      BY <2>3 DEF BeginTotpSetup, VerifyTotp
    <3>2. Locals(u, secret, None, {}).user = u
      BY DEF Locals
    <3> QED
      BY <1>3, <2>2, <3>1, <3>2 DEF Settings
  <2>4. CASE DisableTotp(r, u) \/ RegenerateBackupCodes(r, u)
    <3>1. PICK op \in {"disable", "regenerate"} : Settings(r, op, Locals(u, None, None, {}))
      BY <2>4 DEF DisableTotp, RegenerateBackupCodes
    <3>2. Locals(u, None, None, {}).user = u
      BY DEF Locals
    <3> QED
      BY <1>3, <2>2, <3>1, <3>2 DEF Settings
  <2>5. ASSUME NEW c \in Codes, VerifyBackupCode(r, u, c)
        PROVE  TypeInv'
    <3>1. Unused(u, c) \in SUBSET DOMAIN batch
      BY DEF Unused
    <3>2. Begin(r, "signin", Locals(u, None, c, Unused(u, c))) /\ UNCHANGED overlapped
      BY <2>5 DEF VerifyBackupCode
    <3> QED
      BY <1>1, <1>3, <3>1, <3>2
  <2> QED
    BY <2>1, <2>3, <2>4, <2>5
<1>5. ASSUME NEW r \in Reqs, Done(r) \/ Finish(r), todo[r] # <<>>,
             DOMAIN batch \subseteq DOMAIN batch'
      PROVE  /\ todo' \in [Reqs -> Todos] /\ req' \in [Reqs -> LocalsType]
             /\ \A q \in Reqs : LocalsOf(q)'
  <2>1. /\ todo' \in [Reqs -> Todos] /\ req' \in [Reqs -> LocalsType]
        /\ \A q \in Reqs : q # r => todo'[q] = todo[q] /\ req'[q] = req[q]
        /\ Done(r) \/ (todo'[r] = <<>> /\ req'[r] = NoReq)
    <3>1. CASE Done(r)
      BY <1>5, <3>1, DoneTyped
    <3>2. CASE Finish(r)
      BY <1>1, <3>2 DEF Finish, NoReq, Locals, LocalsType, Todos
    <3> QED
      BY <1>5, <3>1, <3>2
  <2> QED
    BY <1>5, <2>1, LocalsKept
<1>6. ASSUME NEW r \in Reqs, Serve(r)
      PROVE  TypeInv'
  <2>1. CASE UpsertPendingUserTotp(r)
    <3>1. todo[r] = <<"upsert">>
      BY <1>1, <2>1, TodoShapes DEF UpsertPendingUserTotp, At, Todos
    <3>2. Pending(req[r].secret) \in TotpType /\ ~Pending(req[r].secret).enabled
      BY <1>1, <3>1, RowsTyped DEF LocalsOf
    <3>3. /\ totp' = [totp EXCEPT ![req[r].user] = Pending(req[r].secret)]
          /\ Done(r) /\ UNCHANGED <<batch, overlapped, faults>>
      BY <2>1 DEF UpsertPendingUserTotp
    <3>4. /\ totp' \in [Users -> TotpType]
          /\ \A u \in Users : totp'[u].enabled => totp'[u].secret # None
      BY <1>1, <3>2, <3>3
    <3> QED
      BY <1>1, <1>5, <3>1, <3>3, <3>4, BatchFacts, TodosDiffer, TypeFrom
  <2>2. CASE MarkUserTotpEnabled(r)
    <3>1. /\ todo[r] # <<>> /\ (Done(r) \/ Finish(r)) /\ UNCHANGED <<batch, overlapped, faults>>
      BY <2>2 DEF MarkUserTotpEnabled, At
    <3>2. req[r].user \in Users
      BY <1>1, <3>1 DEF LocalsOf
    <3>3. \/ UNCHANGED totp
          \/ /\ totp[req[r].user].secret # None
             /\ totp' = [totp EXCEPT ![req[r].user] = Enabled(totp[req[r].user], req[r].secret)]
      BY <2>2 DEF MarkUserTotpEnabled, Updatable
    <3>4. /\ Enabled(totp[req[r].user], req[r].secret) \in TotpType
          /\ Enabled(totp[req[r].user], req[r].secret).secret = totp[req[r].user].secret
      BY <1>1, <3>2, EnabledTyped
    <3>5. /\ totp' \in [Users -> TotpType]
          /\ \A u \in Users : totp'[u].enabled => totp'[u].secret # None
      BY <1>1, <3>2, <3>3, <3>4
    <3> QED
      BY <1>1, <1>5, <3>1, <3>5, BatchFacts, TypeFrom
  <2>3. CASE DeleteBackupCodes(r)
    <3>1. batch' \in Seq(BatchType) /\ DOMAIN batch' = DOMAIN batch
      BY <2>3, DeleteTyped
    <3>2. todo[r] # <<>> /\ UNCHANGED <<totp, overlapped, faults>>
      BY <2>3 DEF DeleteBackupCodes, At
    <3>3. /\ todo'[r] # <<>> /\ todo'[r] # <<"spend">> /\ todo'[r] # <<"upsert">>
          /\ todo'[r] # <<"mark", "delete", "create">>
      BY <2>3, DeleteRest, TodoShapes, TodosDiffer
    <3>4. LocalsOf(r)'
      BY <1>1, <2>3, <3>1, <3>2, <3>3, DeleteRest DEF LocalsOf
    <3>5. ASSUME NEW q \in Reqs, q # r
          PROVE  LocalsOf(q)'
      BY <2>3, <3>1, <3>5, DeleteRest, LocalsKept
    <3> QED
      BY <1>1, <2>3, <3>1, <3>2, <3>4, <3>5, DeleteRest, TypeFrom
  <2>4. CASE CreateBackupCodes(r)
    <3>1. req[r].user \in Users /\ todo[r] # <<>>
      BY <1>1, <2>4 DEF LocalsOf, CreateBackupCodes, At
    <3>2. batch' \in Seq(BatchType) /\ DOMAIN batch \subseteq DOMAIN batch'
      BY <2>4, <3>1, CreateTyped, BatchFacts
    <3> QED
      BY <1>1, <1>5, <2>4, <3>1, <3>2, TypeFrom DEF CreateBackupCodes
  <2>5. CASE DeleteUserTotp(r)
    <3>1. /\ totp' = [totp EXCEPT ![req[r].user] = NoTotp]
          /\ Done(r) /\ todo[r] # <<>> /\ UNCHANGED <<batch, overlapped, faults>>
      BY <2>5 DEF DeleteUserTotp, At
    <3>2. /\ totp' \in [Users -> TotpType]
          /\ \A u \in Users : totp'[u].enabled => totp'[u].secret # None
      BY <1>1, <3>1, RowsTyped
    <3> QED
      BY <1>1, <1>5, <3>1, <3>2, BatchFacts, TypeFrom
  <2>6. CASE MarkBackupCodeUsed(r)
    <3>1. todo[r] = <<"spend">> /\ todo[r] # <<>>
      BY <1>1, <2>6, TodoShapes DEF MarkBackupCodeUsed, At, Todos
    <3>2. req[r].code \in Codes /\ req[r].rows \subseteq DOMAIN batch
      BY <1>1, <3>1 DEF LocalsOf
    <3>3. batch' \in Seq(BatchType) /\ DOMAIN batch' = DOMAIN batch
      BY <2>6, <3>2, SpendTyped
    <3>4. CASE Finish(r)
      BY <1>1, <1>5, <2>6, <3>1, <3>3, <3>4, TypeFrom DEF MarkBackupCodeUsed
    <3>5. CASE UNCHANGED todo /\ \E b \in req[r].rows : req' = [req EXCEPT ![r].rows = @ \ {b}]
      <4>1. PICK b \in req[r].rows : req' = [req EXCEPT ![r].rows = @ \ {b}]
        BY <3>5
      <4>2. req[r] \in LocalsType
        BY <1>1
      <4>3. /\ [req[r] EXCEPT !.rows = @ \ {b}] \in LocalsType
            /\ [req[r] EXCEPT !.rows = @ \ {b}].user = req[r].user
            /\ [req[r] EXCEPT !.rows = @ \ {b}].code = req[r].code
            /\ [req[r] EXCEPT !.rows = @ \ {b}].secret = req[r].secret
            /\ [req[r] EXCEPT !.rows = @ \ {b}].rows \subseteq req[r].rows
        BY <4>2 DEF LocalsType
      <4>4. req' = [req EXCEPT ![r] = [req[r] EXCEPT !.rows = @ \ {b}]]
        BY <4>1
      <4>5. req' \in [Reqs -> LocalsType]
        BY <1>1, <4>3, <4>4
      <4>6. LocalsOf(r)'
        BY <1>1, <3>1, <3>3, <3>5, <4>3, <4>4 DEF LocalsOf
      <4>7. ASSUME NEW q \in Reqs, q # r
            PROVE  LocalsOf(q)'
        BY <1>1, <3>3, <3>5, <4>4, <4>7, LocalsKept
      <4>8. UNCHANGED <<totp, overlapped, faults>>
        BY <2>6 DEF MarkBackupCodeUsed
      <4> QED
        BY <1>1, <3>3, <3>5, <4>5, <4>6, <4>7, <4>8, TypeFrom
    <3> QED
      BY <2>6, <3>4, <3>5 DEF MarkBackupCodeUsed
  <2> QED
    BY <1>6, <2>1, <2>2, <2>3, <2>4, <2>5, <2>6 DEF Serve
<1>7. ASSUME NEW r \in Reqs, DbThrows(r)
      PROVE  TypeInv'
  <2>1. /\ todo[r] # <<>> /\ Finish(r) /\ faults' \in 0..MaxFaults
        /\ UNCHANGED <<totp, batch, overlapped>>
    BY <1>1, <1>7 DEF DbThrows
  <2> QED
    BY <1>1, <1>5, <2>1, BatchFacts, TypeFrom
<1>8. CASE Restart
  <2>1. /\ todo' = [r \in Reqs |-> <<>>] /\ req' = [r \in Reqs |-> NoReq]
        /\ faults' \in 0..MaxFaults /\ UNCHANGED <<totp, batch, overlapped>>
    BY <1>1, <1>8 DEF Restart
  <2>2. todo' \in [Reqs -> Todos] /\ req' \in [Reqs -> LocalsType]
    BY <2>1 DEF Todos, NoReq, Locals, LocalsType
  <2>3. \A q \in Reqs : LocalsOf(q)'
    BY <2>1, LocalsKept
  <2> QED
    BY <1>1, <2>1, <2>2, <2>3, BatchFacts, TypeFrom
<1> QED
  BY <1>2, <1>4, <1>6, <1>7, <1>8 DEF Next

LEMMA TypeInit == Init => TypeInv
<1> SUFFICES ASSUME Init
             PROVE  TypeInv
  OBVIOUS
<1> USE SecondFactorAssumption DEF Init
<1>1. totp \in [Users -> TotpType] /\ \A u \in Users : ~totp[u].enabled
  BY RowsTyped
<1>2. req \in [Reqs -> LocalsType] /\ NoReq.rows = {}
  BY DEF NoReq, Locals, LocalsType
<1>3. batch \in Seq(BatchType)
  BY EmptySeq
<1>4. todo \in [Reqs -> Todos] /\ \A r \in Reqs : todo[r] = <<>>
  BY DEF Todos
<1> QED
  BY <1>1, <1>2, <1>3, <1>4, TodosDiffer DEF TypeInv, TypeOK

\* Rows and locals have their types whatever overlaps and whatever fails.
THEOREM TypeCorrect == Spec => []TypeOK
<1>1. TypeInv => TypeOK
  BY DEF TypeInv
<1> QED
  BY <1>1, TypeInit, TypeStep, PTL DEF Spec

------------------------------------------------------------------------------
(* A code signs in once *)

AllFresh == \A b \in DOMAIN batch : Fresh(batch[b])

\* What each step does to the table of backup codes.
LEMMA BatchStep ==
  ASSUME TypeInv, [Next]_vars
  PROVE  \/ UNCHANGED batch
         \/ \E r \in Reqs : \/ DeleteBackupCodes(r)
                            \/ CreateBackupCodes(r) /\ req[r].user \in Users
                            \/ /\ MarkBackupCodeUsed(r) /\ req[r].code \in Codes
                               /\ req[r].rows \subseteq DOMAIN batch
<1>1. \/ UNCHANGED batch
      \/ \E r \in Reqs : DeleteBackupCodes(r) \/ CreateBackupCodes(r) \/ MarkBackupCodeUsed(r)
  BY DEF Next, vars, Arrive, Settings, Begin, BeginTotpSetup, VerifyTotp, DisableTotp,
     RegenerateBackupCodes, VerifyBackupCode, Serve, UpsertPendingUserTotp,
     MarkUserTotpEnabled, DeleteUserTotp, DbThrows, Restart
<1>2. ASSUME NEW r \in Reqs, CreateBackupCodes(r)
      PROVE  req[r].user \in Users
  BY <1>2 DEF CreateBackupCodes, At, TypeInv
<1>3. ASSUME NEW r \in Reqs, MarkBackupCodeUsed(r)
      PROVE  req[r].code \in Codes /\ req[r].rows \subseteq DOMAIN batch
  <2>1. todo[r] \in Todos /\ At(r, "spend")
    BY <1>3 DEF MarkBackupCodeUsed, TypeInv, TypeOK
  <2>2. todo[r] = <<"spend">>
    BY <2>1, TodoShapes DEF At, Todos
  <2> QED
    BY <2>2 DEF TypeInv, TypeOK
<1> QED
  BY <1>1, <1>2, <1>3

LEMMA FreshStep == TypeInv /\ AllFresh /\ [Next]_vars => AllFresh'
<1> SUFFICES ASSUME TypeInv, AllFresh, [Next]_vars
             PROVE  AllFresh'
  OBVIOUS
<1>1. CASE UNCHANGED batch
  BY <1>1 DEF AllFresh
<1>2. ASSUME NEW r \in Reqs, DeleteBackupCodes(r)
      PROVE  AllFresh'
  BY <1>2, DeleteTyped DEF AllFresh
<1>3. ASSUME NEW r \in Reqs, CreateBackupCodes(r), req[r].user \in Users
      PROVE  AllFresh'
  <2>1. /\ DOMAIN batch' = 1..(Len(batch) + 1) /\ Fresh(batch'[Len(batch) + 1])
        /\ \A b \in 1..Len(batch) : batch'[b] = batch[b]
    BY <1>3, CreateTyped, BatchFacts
  <2> QED
    BY <2>1, BatchFacts DEF AllFresh
<1>4. ASSUME NEW r \in Reqs, MarkBackupCodeUsed(r), req[r].code \in Codes,
             req[r].rows \subseteq DOMAIN batch
      PROVE  AllFresh'
  BY <1>4, SpendTyped DEF AllFresh
<1> QED
  BY <1>1, <1>2, <1>3, <1>4, BatchStep

\* A backup code signs in once, for any number of sign-ins that found it unused.
THEOREM CodesSpentOnce == Spec => []UsedOnce
<1>1. Init => AllFresh
  BY EmptySeq DEF Init, AllFresh
<1>2. AllFresh => UsedOnce
  BY DEF AllFresh, UsedOnce, Fresh
<1> QED
  BY <1>1, <1>2, TypeInit, TypeStep, FreshStep, PTL DEF Spec

------------------------------------------------------------------------------
(* A new batch replaces the older ones *)

\* Those a request has deleted, or a batch has replaced, hold no valid code, and both were
\* counted before the batches that came later.
ReplacedInv ==
  /\ \A b \in DOMAIN batch :
       /\ batch[b].seen <= Len(batch)
       /\ \A a \in Holding(batch, batch[b].user) : a > batch[b].seen
  /\ \A r \in Reqs :
       /\ req[r].seen <= Len(batch)
       /\ \A a \in Holding(batch, req[r].user) : a > req[r].seen

\* What each step does to the locals of each request.
LEMMA LocalsStep ==
  ASSUME TypeInv, [Next]_vars, NEW r \in Reqs
  PROVE  \/ req'[r].user = req[r].user /\ req'[r].seen = req[r].seen
         \/ req'[r].user \in Users \cup {None} /\ req'[r].seen = 0
         \/ DeleteBackupCodes(r)
<1>1. /\ req \in [Reqs -> LocalsType] /\ NoReq.user = None /\ NoReq.seen = 0
      /\ \A u, secret, code, rows : /\ Locals(u, secret, code, rows).user = u
                                   /\ Locals(u, secret, code, rows).seen = 0
  BY DEF TypeInv, TypeOK, NoReq, Locals
<1>2. ASSUME NEW q \in Reqs, NEW u \in Users, NEW op, NEW secret, NEW code, NEW rows,
             Begin(q, op, Locals(u, secret, code, rows))
      PROVE  UNCHANGED req[r] \/ (req'[r].user = u /\ req'[r].seen = 0)
  BY <1>1, <1>2 DEF Begin
<1>3. ASSUME NEW q \in Reqs, Done(q) \/ Finish(q)
      PROVE  UNCHANGED req[r] \/ (req'[r].user = None /\ req'[r].seen = 0)
  BY <1>1, <1>3 DEF Done, Finish
<1>4. CASE UNCHANGED vars
  BY <1>4 DEF vars
<1>5. ASSUME NEW q \in Reqs, Arrive(q)
      PROVE  UNCHANGED req[r] \/ (req'[r].user \in Users /\ req'[r].seen = 0)
  BY <1>2, <1>5 DEF Arrive, BeginTotpSetup, VerifyTotp, DisableTotp, RegenerateBackupCodes,
     VerifyBackupCode, Settings
<1>6. ASSUME NEW q \in Reqs, DeleteBackupCodes(q)
      PROVE  q = r \/ UNCHANGED req[r]
  BY <1>6, DeleteRest
<1>7. ASSUME NEW q \in Reqs, MarkBackupCodeUsed(q)
      PROVE  \/ req'[r].user = req[r].user /\ req'[r].seen = req[r].seen
             \/ req'[r].user = None /\ req'[r].seen = 0
  <2>1. CASE Finish(q)
    BY <1>3, <2>1
  <2>2. CASE \E b \in req[q].rows : req' = [req EXCEPT ![q].rows = @ \ {b}]
    <3>1. PICK b : req' = [req EXCEPT ![q] = [req[q] EXCEPT !.rows = @ \ {b}]]
      BY <2>2
    <3>2. req[q] \in LocalsType
      BY <1>1
    <3>3. /\ [req[q] EXCEPT !.rows = @ \ {b}].user = req[q].user
          /\ [req[q] EXCEPT !.rows = @ \ {b}].seen = req[q].seen
      BY <3>2 DEF LocalsType
    <3> QED
      BY <1>1, <3>1, <3>3
  <2> QED
    BY <1>7, <2>1, <2>2 DEF MarkBackupCodeUsed
<1>8. ASSUME NEW q \in Reqs, \/ UpsertPendingUserTotp(q) \/ MarkUserTotpEnabled(q)
                             \/ CreateBackupCodes(q) \/ DeleteUserTotp(q) \/ DbThrows(q)
      PROVE  UNCHANGED req[r] \/ (req'[r].user = None /\ req'[r].seen = 0)
  BY <1>3, <1>8 DEF UpsertPendingUserTotp, MarkUserTotpEnabled, CreateBackupCodes,
     DeleteUserTotp, DbThrows
<1>9. CASE Restart
  BY <1>1, <1>9 DEF Restart
<1> QED
  BY <1>4, <1>5, <1>6, <1>7, <1>8, <1>9 DEF Next, Serve

\* What a step leaves to show when no batch holds a code that it did not hold.
LEMMA ReplacedFrame ==
  ASSUME TypeInv, ReplacedInv, [Next]_vars,
         batch' \in Seq(BatchType), DOMAIN batch' = DOMAIN batch,
         \A b \in DOMAIN batch :
           batch'[b].user = batch[b].user /\ batch'[b].seen = batch[b].seen,
         \A u \in Users : Holding(batch', u) \subseteq Holding(batch, u)
  PROVE  ReplacedInv'
<1>1. /\ Len(batch) \in Nat /\ DOMAIN batch = 1..Len(batch) /\ Len(batch') = Len(batch)
      /\ \A b \in DOMAIN batch : batch[b].user \in Users
  BY BatchFacts, LenProperties DEF BatchType
<1>2. \A u : Holding(batch', u) \subseteq Holding(batch, u)
  BY <1>1 DEF Holding
<1>3. \A u : \A a \in Holding(batch', u) : a > 0
  BY <1>1 DEF Holding
<1>4. ASSUME NEW b \in DOMAIN batch'
      PROVE  /\ batch'[b].seen <= Len(batch')
             /\ \A a \in Holding(batch', batch'[b].user) : a > batch'[b].seen
  BY <1>1, <1>2 DEF ReplacedInv
<1>5. ASSUME NEW r \in Reqs
      PROVE  /\ req'[r].seen <= Len(batch')
             /\ \A a \in Holding(batch', req'[r].user) : a > req'[r].seen
  <2>1. CASE req'[r].user = req[r].user /\ req'[r].seen = req[r].seen
    BY <1>1, <1>2, <2>1 DEF ReplacedInv
  <2>2. CASE req'[r].seen = 0
    BY <1>1, <1>3, <2>2
  <2>3. CASE DeleteBackupCodes(r)
    <3>1. /\ req'[r].seen = Len(batch) /\ req'[r].user = req[r].user
          /\ Holding(batch', req[r].user) = {}
      BY <2>3, DeleteRest, DeleteTyped
    <3> QED
      BY <1>1, <3>1
  <2> QED
    BY <2>1, <2>2, <2>3, LocalsStep
<1> QED
  BY <1>4, <1>5 DEF ReplacedInv

LEMMA ReplacedStep == TypeInv /\ ReplacedInv /\ [Next]_vars => ReplacedInv'
<1> SUFFICES ASSUME TypeInv, ReplacedInv, [Next]_vars
             PROVE  ReplacedInv'
  OBVIOUS
<1>1. CASE UNCHANGED batch
  BY <1>1, BatchFacts, ReplacedFrame
<1>2. ASSUME NEW r \in Reqs, DeleteBackupCodes(r)
      PROVE  ReplacedInv'
  BY <1>2, DeleteTyped, ReplacedFrame
<1>3. ASSUME NEW r \in Reqs, MarkBackupCodeUsed(r), req[r].code \in Codes,
             req[r].rows \subseteq DOMAIN batch
      PROVE  ReplacedInv'
  BY <1>3, SpendTyped, ReplacedFrame
<1>4. ASSUME NEW r \in Reqs, CreateBackupCodes(r), req[r].user \in Users
      PROVE  ReplacedInv'
  <2> DEFINE n == Len(batch) + 1
  <2>1. /\ batch' \in Seq(BatchType) /\ DOMAIN batch' = 1..n
        /\ \A b \in 1..Len(batch) : batch'[b] = batch[b]
        /\ batch'[n].user = req[r].user /\ batch'[n].seen = req[r].seen
    BY <1>4, CreateTyped, BatchFacts
  <2>2. /\ Len(batch) \in Nat /\ DOMAIN batch = 1..Len(batch) /\ Len(batch') = n
        /\ \A b \in DOMAIN batch : batch[b].seen \in Nat
        /\ \A q \in Reqs : req[q].seen \in Nat
    BY <2>1, BatchFacts, LenProperties DEF BatchType, TypeInv, TypeOK, LocalsType
  <2>3. \A u : Holding(batch', u) \subseteq Holding(batch, u) \cup {n}
    BY <2>1, <2>2 DEF Holding
  <2>4. ASSUME NEW b \in DOMAIN batch'
        PROVE  /\ batch'[b].seen <= Len(batch')
               /\ \A a \in Holding(batch', batch'[b].user) : a > batch'[b].seen
    <3>1. CASE b \in 1..Len(batch)
      BY <2>1, <2>2, <2>3, <3>1 DEF ReplacedInv
    <3>2. CASE b = n
      BY <2>1, <2>2, <2>3, <3>2 DEF ReplacedInv
    <3> QED
      BY <2>1, <2>2, <3>1, <3>2
  <2>5. ASSUME NEW q \in Reqs
        PROVE  /\ req'[q].seen <= Len(batch')
               /\ \A a \in Holding(batch', req'[q].user) : a > req'[q].seen
    <3>1. CASE req'[q].user = req[q].user /\ req'[q].seen = req[q].seen
      BY <2>2, <2>3, <3>1 DEF ReplacedInv
    <3>2. CASE req'[q].seen = 0
      BY <2>1, <2>2, <3>2 DEF Holding
    <3>3. ~DeleteBackupCodes(q)
      <4>1. n \in 1..n /\ n \notin 1..Len(batch)
        BY <2>2
      <4>2. DOMAIN batch' # DOMAIN batch
        BY <2>1, <2>2, <4>1
      <4> QED
        BY <4>2, DeleteTyped
    <3> QED
      BY <3>1, <3>2, <3>3, LocalsStep
  <2> QED
    BY <2>4, <2>5 DEF ReplacedInv
<1> QED
  BY <1>1, <1>2, <1>3, <1>4, BatchStep

\* A new batch replaces every older one that its request found, also those that overlapping
\* requests left behind together, whatever overlaps and whatever fails.
THEOREM OlderBatchesReplaced == Spec => []BatchesReplaced
<1>1. Init => ReplacedInv
  BY EmptySeq DEF Init, ReplacedInv, Holding, NoReq, Locals
<1>2. TypeInv /\ ReplacedInv => BatchesReplaced
  <2> SUFFICES ASSUME TypeInv, ReplacedInv, NEW a \in DOMAIN batch, NEW b \in DOMAIN batch,
                      batch[a].user = batch[b].user, a <= batch[b].seen, HasCodes(a)
               PROVE  FALSE
    BY DEF BatchesReplaced
  <2>1. a \in Holding(batch, batch[b].user)
    BY DEF Holding, HasCodes
  <2>2. a > batch[b].seen /\ a \in Nat /\ batch[b].seen \in Nat
    BY <2>1, BatchFacts DEF ReplacedInv, BatchType
  <2> QED
    BY <2>2
<1> QED
  BY <1>1, <1>2, TypeInit, TypeStep, ReplacedStep, PTL DEF Spec

------------------------------------------------------------------------------
(* One settings request at a time *)

\* Slots with a settings request of u under way.
Changing(r, u) == req[r].user = u /\ todo[r] # <<"spend">>

\* What a settings request of u relies on between two of its writes.
Relies(r, u) ==
  /\ todo[r] = <<"upsert">> => ~totp[u].enabled
  /\ todo[r] = <<"mark", "delete", "create">> => totp[u].secret = req[r].secret
  /\ todo[r] \in {<<"delete", "create">>, <<"create">>} => totp[u].enabled
  /\ todo[r] \in {<<"create">>, <<"drop">>} => Holding(batch, u) = {}

Settled(u) ==
  /\ totp[u].enabled => totp[u].proved
  /\ Holding(batch, u) # {} => totp[u].enabled
  /\ \A a, b \in Holding(batch, u) : a = b

SerialOf(u) ==
  /\ Settled(u)
  /\ \A r \in Reqs : Changing(r, u) => Relies(r, u)
  /\ \A q, r \in Reqs : Changing(q, u) /\ Changing(r, u) => q = r

SerialInv == \A u \in Users \ overlapped : SerialOf(u)

\* A step that leaves a user's tables and settings requests alone.
LEMMA SerialFrame ==
  ASSUME TypeInv, NEW u \in Users, SerialOf(u),
         UNCHANGED totp[u], Holding(batch', u) \subseteq Holding(batch, u),
         \A r \in Reqs : Changing(r, u)' => UNCHANGED <<todo[r], req[r]>>
  PROVE  SerialOf(u)'
<1>1. \A r \in Reqs : Changing(r, u)' => Changing(r, u)
  BY DEF Changing
<1>2. Settled(u)'
  BY DEF SerialOf, Settled
<1>3. \A r \in Reqs : Changing(r, u)' => Relies(r, u)'
  BY <1>1 DEF SerialOf, Relies
<1> QED
  BY <1>1, <1>2, <1>3 DEF SerialOf

\* A write of the only settings request of its user.
LEMMA SerialWrite ==
  ASSUME TypeInv, NEW u \in Users, SerialOf(u), NEW r \in Reqs, Changing(r, u),
         \A q \in Reqs : q # r => todo'[q] = todo[q] /\ req'[q] = req[q],
         Settled(u)', Changing(r, u)' => Relies(r, u)'
  PROVE  SerialOf(u)'
<1>1. \A q \in Reqs : Changing(q, u)' => q = r
  BY DEF SerialOf, Changing
<1> QED
  BY <1>1 DEF SerialOf

\* Idle slots work for nobody.
LEMMA IdleChangesNothing ==
  ASSUME TypeInv, NEW u \in Users, NEW r \in Reqs, Changing(r, u)
  PROVE  todo[r] # <<>>
<1> QED
  BY SecondFactorAssumption DEF TypeInv, Changing, NoReq, Locals

LEMMA SerialBegin ==
  ASSUME TypeInv, SerialInv, NEW r \in Reqs, Arrive(r)
  PROVE  SerialInv'
<1> USE SecondFactorAssumption
<1>1. PICK u \in Users :
        \/ BeginTotpSetup(r, u) \/ VerifyTotp(r, u) \/ DisableTotp(r, u)
        \/ RegenerateBackupCodes(r, u) \/ \E c \in Codes : VerifyBackupCode(r, u, c)
  BY DEF Arrive
<1>2. PICK op \in {"setup", "enable", "disable", "regenerate", "signin"}, locals \in LocalsType :
        /\ Begin(r, op, locals) /\ locals.user = u
        /\ op # "signin" => overlapped' = overlapped \cup {v \in {u} : Busy(v)}
        /\ op = "signin" => UNCHANGED overlapped
        /\ op = "setup" => ~totp[u].enabled
        /\ op = "enable" => totp[u].secret = locals.secret
        /\ op = "regenerate" => totp[u].enabled
  <2>1. CASE BeginTotpSetup(r, u) \/ VerifyTotp(r, u)
    <3>1. PICK secret \in Secrets, op \in {"setup", "enable"} :
            /\ Settings(r, op, Locals(u, secret, None, {}))
            /\ op = "setup" => ~totp[u].enabled
            /\ op = "enable" => totp[u].secret = secret
      BY <2>1 DEF BeginTotpSetup, VerifyTotp, CanSetUp, CodeFits
    <3>2. /\ Locals(u, secret, None, {}) \in LocalsType
          /\ Locals(u, secret, None, {}).user = u /\ Locals(u, secret, None, {}).secret = secret
      BY DEF Locals, LocalsType
    <3> QED
      BY <3>1, <3>2 DEF Settings
  <2>2. CASE DisableTotp(r, u) \/ RegenerateBackupCodes(r, u)
    <3>1. PICK op \in {"disable", "regenerate"} :
            /\ Settings(r, op, Locals(u, None, None, {}))
            /\ op = "regenerate" => totp[u].enabled
      BY <2>2 DEF DisableTotp, RegenerateBackupCodes
    <3>2. /\ Locals(u, None, None, {}) \in LocalsType
          /\ Locals(u, None, None, {}).user = u
      BY DEF Locals, LocalsType
    <3> QED
      BY <3>1, <3>2 DEF Settings
  <2>3. ASSUME NEW c \in Codes, VerifyBackupCode(r, u, c)
        PROVE  \E locals \in LocalsType :
                 Begin(r, "signin", locals) /\ locals.user = u /\ UNCHANGED overlapped
    <3>1. Unused(u, c) \in SUBSET Nat
      BY BatchFacts DEF Unused
    <3>2. /\ Locals(u, None, c, Unused(u, c)) \in LocalsType
          /\ Locals(u, None, c, Unused(u, c)).user = u
      BY <3>1 DEF Locals, LocalsType
    <3> QED
      BY <2>3, <3>2 DEF VerifyBackupCode
  <2> QED
    BY <1>1, <2>1, <2>2, <2>3
<1>3. /\ todo[r] = <<>> /\ todo'[r] = Steps(op) /\ req'[r] = locals
      /\ \A q \in Reqs : q # r => todo'[q] = todo[q] /\ req'[q] = req[q]
      /\ UNCHANGED <<totp, batch, faults>>
  BY <1>2, BeginTyped
<1>4. SUFFICES ASSUME NEW v \in Users, v \notin overlapped'
               PROVE  SerialOf(v)'
  BY DEF SerialInv
<1>5. v \notin overlapped /\ SerialOf(v)
  BY <1>2, <1>4 DEF SerialInv
<1>6. CASE v # u \/ op = "signin"
  <2>1. ~Changing(r, v)'
    BY <1>2, <1>3, <1>6 DEF Changing, Steps
  <2> QED
    BY <1>3, <1>5, <2>1, SerialFrame
<1>7. CASE v = u /\ op # "signin"
  <2>1. ~Busy(u)
    BY <1>2, <1>4, <1>7
  <2>2. \A q \in Reqs : ~Changing(q, u)
    BY <2>1 DEF Busy, Changing, Steps
  <2>3. \A q \in Reqs : Changing(q, u)' => q = r
    BY <1>3, <2>2 DEF Changing
  <2>4. Settled(u)'
    BY <1>3, <1>5, <1>7 DEF SerialOf, Settled
  <2>5. Relies(r, u)'
    <3>1. /\ op = "setup" => Steps(op) = <<"upsert">>
          /\ op = "enable" => Steps(op) = <<"mark", "delete", "create">>
          /\ op = "disable" => Steps(op) = <<"delete", "drop">>
          /\ op = "regenerate" => Steps(op) = <<"delete", "create">>
      BY DEF Steps
    <3> QED
      BY <1>2, <1>3, <1>7, <3>1, TodoShapes DEF Relies
  <2> QED
    BY <1>7, <2>3, <2>4, <2>5 DEF SerialOf
<1> QED
  BY <1>6, <1>7

\* Finishing a request only ends its own settings change.
LEMMA SerialFinish ==
  ASSUME TypeInv, NEW u \in Users, SerialOf(u), NEW r \in Reqs, Finish(r),
         UNCHANGED totp[u], Holding(batch', u) \subseteq Holding(batch, u)
  PROVE  SerialOf(u)'
<1>1. /\ todo'[r] = <<>> /\ req'[r] = NoReq /\ NoReq.user = None
      /\ \A q \in Reqs : q # r => todo'[q] = todo[q] /\ req'[q] = req[q]
  BY DEF Finish, TypeInv, TypeOK, NoReq, Locals
<1>2. ~Changing(r, u)'
  BY <1>1, SecondFactorAssumption DEF Changing
<1> QED
  BY <1>1, <1>2, SerialFrame

LEMMA SerialServe ==
  ASSUME TypeInv, SerialInv, NEW r \in Reqs, Serve(r)
  PROVE  SerialInv'
<1> USE SecondFactorAssumption
<1>1. /\ totp \in [Users -> TotpType] /\ todo[r] \in Todos /\ todo[r] # <<>>
      /\ req \in [Reqs -> LocalsType]
  BY DEF TypeInv, TypeOK, Serve, At, UpsertPendingUserTotp, MarkUserTotpEnabled,
     DeleteBackupCodes, CreateBackupCodes, DeleteUserTotp, MarkBackupCodeUsed
<1>2. req[r].user \in Users
  BY <1>1 DEF TypeInv
<1>3. UNCHANGED overlapped
  BY DEF Serve, UpsertPendingUserTotp, MarkUserTotpEnabled, DeleteBackupCodes,
     CreateBackupCodes, DeleteUserTotp, MarkBackupCodeUsed
<1>4. SUFFICES ASSUME NEW u \in Users, SerialOf(u)
               PROVE  SerialOf(u)'
  BY <1>3 DEF SerialInv
<1>5. ASSUME Done(r), u # req[r].user, UNCHANGED totp[u],
             Holding(batch', u) \subseteq Holding(batch, u)
      PROVE  SerialOf(u)'
  <2>1. /\ \A q \in Reqs : q # r => todo'[q] = todo[q] /\ req'[q] = req[q]
        /\ req'[r] = req[r] \/ req'[r].user = None
    BY <1>1, <1>5, DoneTyped DEF NoReq, Locals
  <2>2. ~Changing(r, u)'
    BY <1>5, <2>1 DEF Changing
  <2> QED
    BY <1>4, <1>5, <2>1, <2>2, SerialFrame
<1>6. CASE UpsertPendingUserTotp(r)
  <2>1. /\ Done(r) /\ UNCHANGED batch
        /\ totp' = [totp EXCEPT ![req[r].user] = Pending(req[r].secret)]
    BY <1>6 DEF UpsertPendingUserTotp
  <2>2. todo[r] = <<"upsert">>
    BY <1>1, <1>6, TodoShapes DEF UpsertPendingUserTotp, At, Todos
  <2>3. CASE u = req[r].user
    <3>1. Changing(r, u) /\ ~totp[u].enabled /\ Holding(batch, u) = {}
      BY <1>4, <2>2, <2>3, TodosDiffer DEF Changing, SerialOf, Relies, Settled
    <3>2. /\ \A q \in Reqs : q # r => todo'[q] = todo[q] /\ req'[q] = req[q]
          /\ todo'[r] = <<>> /\ req'[r] = NoReq /\ NoReq.user = None
      BY <1>1, <2>1, <2>2, DoneTyped, TodoShapes DEF NoReq, Locals, Done, Finish
    <3>3. ~totp'[u].enabled
      BY <1>1, <2>1, <2>2, <2>3, RowsTyped DEF TypeInv
    <3>4. Settled(u)' /\ ~Changing(r, u)'
      BY <2>1, <3>1, <3>2, <3>3 DEF Settled, Changing
    <3> QED
      BY <1>4, <3>1, <3>2, <3>4, SerialWrite
  <2>4. CASE u # req[r].user
    BY <1>1, <1>5, <2>1, <2>4
  <2> QED
    BY <2>3, <2>4
<1>7. CASE MarkUserTotpEnabled(r)
  <2>1. /\ UNCHANGED batch
        /\ \/ UNCHANGED totp /\ Finish(r)
           \/ /\ Done(r)
              /\ totp' = [totp EXCEPT ![req[r].user] = Enabled(totp[req[r].user], req[r].secret)]
    BY <1>7 DEF MarkUserTotpEnabled
  <2>2. todo[r] = <<"mark", "delete", "create">>
    BY <1>1, <1>7, TodoShapes DEF MarkUserTotpEnabled, At, Todos
  <2>3. CASE UNCHANGED totp /\ Finish(r)
    BY <1>4, <2>1, <2>3, SerialFinish
  <2>4. CASE u # req[r].user
    BY <1>1, <1>4, <1>5, <2>1, <2>3, <2>4
  <2>5. CASE u = req[r].user /\ Done(r)
             /\ totp' = [totp EXCEPT ![req[r].user] = Enabled(totp[req[r].user], req[r].secret)]
    <3>1. Changing(r, u) /\ totp[u].secret = req[r].secret
      BY <1>4, <2>2, <2>5, TodosDiffer DEF Changing, SerialOf, Relies
    <3>2. /\ \A q \in Reqs : q # r => todo'[q] = todo[q] /\ req'[q] = req[q]
          /\ todo'[r] = <<"delete", "create">> /\ req'[r] = req[r]
      BY <1>1, <2>2, <2>5, DoneTyped, TodoShapes
    <3>3. totp'[u].enabled /\ totp'[u].proved
      BY <1>1, <2>5, <3>1, EnabledTyped
    <3>4. Settled(u)'
      BY <1>4, <2>1, <3>3 DEF Settled, SerialOf
    <3>5. Relies(r, u)'
      BY <3>2, <3>3, TodoShapes DEF Relies
    <3> QED
      BY <1>4, <3>1, <3>2, <3>4, <3>5, SerialWrite
  <2> QED
    BY <2>1, <2>3, <2>4, <2>5
<1>8. CASE DeleteBackupCodes(r)
  <2>1. UNCHANGED totp
    BY <1>8 DEF DeleteBackupCodes
  <2>2. /\ Holding(batch', req[r].user) = {}
        /\ Holding(batch', u) \subseteq Holding(batch, u)
    BY <1>8, DeleteTyped
  <2>3. CASE u = req[r].user
    <3>1. todo[r] \in {<<"delete", "create">>, <<"delete", "drop">>}
      BY <1>8, DeleteRest
    <3>2. Changing(r, u) /\ Relies(r, u)
      BY <1>4, <2>3, <3>1, TodosDiffer DEF Changing, SerialOf
    <3>3. /\ \A q \in Reqs : q # r => todo'[q] = todo[q] /\ req'[q] = req[q]
          /\ \/ todo[r] = <<"delete", "create">> /\ todo'[r] = <<"create">>
             \/ todo[r] = <<"delete", "drop">> /\ todo'[r] = <<"drop">>
      BY <1>8, DeleteRest
    <3>4. Settled(u)'
      BY <1>4, <2>1, <2>2, <2>3 DEF Settled, SerialOf
    <3>5. Relies(r, u)'
      BY <2>1, <2>2, <2>3, <3>2, <3>3, TodoShapes DEF Relies
    <3> QED
      BY <1>4, <3>2, <3>3, <3>4, <3>5, SerialWrite
  <2>4. CASE u # req[r].user
    <3>1. ~Changing(r, u)' /\ \A q \in Reqs : q # r => todo'[q] = todo[q] /\ req'[q] = req[q]
      BY <1>8, <2>4, DeleteRest DEF Changing
    <3> QED
      BY <1>4, <2>1, <2>2, <3>1, SerialFrame
  <2> QED
    BY <2>3, <2>4
<1>9. CASE CreateBackupCodes(r)
  <2>1. Done(r) /\ UNCHANGED totp
    BY <1>9 DEF CreateBackupCodes
  <2>2. /\ DOMAIN batch' = 1..(Len(batch) + 1) /\ batch'[Len(batch) + 1].user = req[r].user
        /\ \A b \in 1..Len(batch) : batch'[b] = batch[b]
    BY <1>2, <1>9, CreateTyped, BatchFacts
  <2>3. Holding(batch', u) \subseteq Holding(batch, u) \cup
          {b \in {Len(batch) + 1} : u = req[r].user}
    BY <2>2, BatchFacts DEF Holding
  <2>4. todo[r] \in {<<"create">>}
    BY <1>1, <1>9, TodoShapes DEF CreateBackupCodes, At, Todos
  <2>5. CASE u = req[r].user
    <3>1. Changing(r, u) /\ totp[u].enabled /\ Holding(batch, u) = {}
      BY <1>4, <2>4, <2>5, TodosDiffer DEF Changing, SerialOf, Relies
    <3>2. /\ \A q \in Reqs : q # r => todo'[q] = todo[q] /\ req'[q] = req[q]
          /\ todo'[r] = <<>> /\ req'[r] = NoReq /\ NoReq.user = None
      BY <1>1, <2>1, <2>4, DoneTyped, TodoShapes DEF NoReq, Locals, Done, Finish
    <3>3. Settled(u)' /\ ~Changing(r, u)'
      BY <1>4, <2>1, <2>3, <3>1, <3>2 DEF Settled, Changing, SerialOf
    <3> QED
      BY <1>4, <3>1, <3>2, <3>3, SerialWrite
  <2>6. CASE u # req[r].user
    BY <1>5, <2>1, <2>3, <2>6
  <2> QED
    BY <2>5, <2>6
<1>10. CASE DeleteUserTotp(r)
  <2>1. /\ Done(r) /\ UNCHANGED batch /\ totp' = [totp EXCEPT ![req[r].user] = NoTotp]
    BY <1>10 DEF DeleteUserTotp
  <2>2. todo[r] = <<"drop">>
    BY <1>1, <1>10, TodoShapes DEF DeleteUserTotp, At, Todos
  <2>3. CASE u = req[r].user
    <3>1. Changing(r, u) /\ Holding(batch, u) = {}
      BY <1>4, <2>2, <2>3, TodosDiffer DEF Changing, SerialOf, Relies
    <3>2. /\ \A q \in Reqs : q # r => todo'[q] = todo[q] /\ req'[q] = req[q]
          /\ todo'[r] = <<>> /\ req'[r] = NoReq /\ NoReq.user = None
      BY <1>1, <2>1, <2>2, DoneTyped, TodoShapes DEF NoReq, Locals, Done, Finish
    <3>3. ~totp'[u].enabled
      BY <1>1, <2>1, <2>3, RowsTyped
    <3>4. Settled(u)' /\ ~Changing(r, u)'
      BY <2>1, <3>1, <3>2, <3>3 DEF Settled, Changing
    <3> QED
      BY <1>4, <3>1, <3>2, <3>4, SerialWrite
  <2>4. CASE u # req[r].user
    BY <1>1, <1>5, <2>1, <2>4
  <2> QED
    BY <2>3, <2>4
<1>11. CASE MarkBackupCodeUsed(r)
  <2>1. todo[r] = <<"spend">>
    BY <1>1, <1>11, TodoShapes DEF MarkBackupCodeUsed, At, Todos
  <2>2. req[r].code \in Codes /\ req[r].rows \subseteq DOMAIN batch /\ UNCHANGED totp
    BY <1>11, <2>1 DEF MarkBackupCodeUsed, TypeInv, TypeOK
  <2>3. Holding(batch', u) \subseteq Holding(batch, u)
    BY <1>11, <2>2, SpendTyped
  <2>4. CASE Finish(r)
    BY <1>4, <2>2, <2>3, <2>4, SerialFinish
  <2>5. CASE UNCHANGED todo /\ \E b \in req[r].rows : req' = [req EXCEPT ![r].rows = @ \ {b}]
    <3>1. \A q \in Reqs : q # r => req'[q] = req[q]
      BY <1>1, <2>5
    <3>2. ~Changing(r, u)'
      BY <2>1, <2>5 DEF Changing
    <3> QED
      BY <1>4, <2>2, <2>3, <2>5, <3>1, <3>2, SerialFrame
  <2> QED
    BY <1>11, <2>4, <2>5 DEF MarkBackupCodeUsed
<1> QED
  BY <1>6, <1>7, <1>8, <1>9, <1>10, <1>11 DEF Serve

LEMMA SerialStep == TypeInv /\ SerialInv /\ [Next]_vars => SerialInv'
<1> SUFFICES ASSUME TypeInv, SerialInv, [Next]_vars
             PROVE  SerialInv'
  OBVIOUS
<1>1. CASE UNCHANGED vars
  BY <1>1, SerialFrame DEF vars, SerialInv
<1>2. ASSUME NEW r \in Reqs, Arrive(r) \/ Serve(r)
      PROVE  SerialInv'
  BY <1>2, SerialBegin, SerialServe
<1>3. ASSUME NEW r \in Reqs, DbThrows(r)
      PROVE  SerialInv'
  BY <1>3, SerialFinish DEF DbThrows, SerialInv
<1>4. CASE Restart
  <2>1. \A r \in Reqs : req'[r].user = None
    BY <1>4 DEF Restart, NoReq, Locals
  <2>2. \A u \in Users, r \in Reqs : ~Changing(r, u)'
    BY <2>1, SecondFactorAssumption DEF Changing
  <2> QED
    BY <1>4, <2>2, SerialFrame DEF Restart, SerialInv
<1> QED
  BY <1>1, <1>2, <1>3, <1>4 DEF Next

LEMMA SerialInit == Init => SerialInv
<1> SUFFICES ASSUME Init, NEW u \in Users
             PROVE  SerialOf(u)
  BY DEF SerialInv
<1>1. ~totp[u].enabled /\ \A r \in Reqs : req[r].user = None
  BY RowsTyped DEF Init, NoReq, Locals
<1>2. Holding(batch, u) = {}
  BY EmptySeq DEF Init, Holding
<1> QED
  BY <1>1, <1>2, SecondFactorAssumption DEF SerialOf, Settled, Changing

\* At most one batch of a user holds valid codes.
OneBatch ==
  \A a, b \in DOMAIN batch :
    /\ HasCodes(a) /\ HasCodes(b)
    /\ batch[a].user = batch[b].user /\ batch[a].user \notin overlapped
    => a = b

LEMMA SerialMeans ==
  ASSUME TypeInv, SerialInv
  PROVE  CodesNeedTotp /\ OneBatch /\ EnabledProved
<1>1. \A b \in DOMAIN batch : HasCodes(b) => b \in Holding(batch, batch[b].user)
  BY DEF HasCodes, Holding
<1>2. \A b \in DOMAIN batch : batch[b].user \in Users
  BY BatchFacts DEF BatchType
<1> QED
  BY <1>1, <1>2 DEF SerialInv, SerialOf, Settled, CodesNeedTotp, OneBatch, EnabledProved

\* Without overlapping settings requests, no crash or failure leaves codes without TOTP.
THEOREM NoStrayCodes == Spec => []CodesNeedTotp
<1> QED
  BY TypeInit, TypeStep, SerialInit, SerialStep, SerialMeans, PTL DEF Spec

\* Without overlapping settings requests, a new batch replaces the others.
THEOREM NewBatchReplaces == Spec => []OneBatch
<1> QED
  BY TypeInit, TypeStep, SerialInit, SerialStep, SerialMeans, PTL DEF Spec

\* Without overlapping settings requests, only a secret the user has proved is enabled.
THEOREM SecretProved == Spec => []EnabledProved
<1> QED
  BY TypeInit, TypeStep, SerialInit, SerialStep, SerialMeans, PTL DEF Spec
==============================================================================
