--------------------------- MODULE ToolEffectsProofs ---------------------------
(***************************************************************************)
(* What the side effect ledger guarantees, for any number of calls of any  *)
(* kind, of writes that fail and of requests to repeat the run.            *)
(***************************************************************************)
EXTENDS ToolEffects, FiniteSetTheorems, TLAPS

LedgerRow == [call : Calls, status : Statuses, safe : BOOLEAN]

(* Rows by position: SMT sees the sequence as a function.                  *)
Row1(l, c) == \E i \in DOMAIN l : l[i].call = c
Status1(l, c, status) == \E i \in DOMAIN l : l[i].call = c /\ l[i].status = status

OneRow(l) == \A i, j \in DOMAIN l : l[i].call = l[j].call => i = j

Fact(c) == \E f \in facts : f.call = c

Types ==
  /\ at \in [Calls -> Places]
  /\ result \in [Calls -> Results]
  /\ effect \in [Calls -> {"none", "begun", "done"}]
  /\ ledger \in Seq(LedgerRow)
  /\ facts \subseteq [call : Calls, error : BOOLEAN]

(* Where a call is says what the ledger and the journal hold of it.        *)
Places1 ==
  \A c \in Calls :
    /\ at[c] = "idle" => ~Row1(ledger, c) /\ effect[c] = "none"
    /\ at[c] \in {"intended", "running"} => Status1(ledger, c, "started")
    /\ at[c] # "completed" => ~Fact(c)

RowsInv ==
  \A c \in Calls :
    /\ effect[c] # "none" => Row1(ledger, c)
    /\ KindOf[c] # "mcp" /\ Status1(ledger, c, "completed") =>
         [call |-> c, error |-> FALSE] \in facts
    /\ Fact(c) => ~Status1(ledger, c, "started")

LedgerInv == Types /\ OneRow(ledger) /\ Places1 /\ RowsInv

-------------------------------------------------------------------------------
(* The writes of the ledger. *)

(* A call without a row gets one at the end. *)
LEMMA RecordedFirst ==
  ASSUME NEW l \in Seq(LedgerRow), NEW c \in Calls, NEW status \in Statuses, ~Row1(l, c)
  PROVE  Recorded(l, c, status) = Append(l, Row(c, status, FALSE))
BY DEF Recorded, Row1

(* A row that is still open, or one that is put in doubt, is changed where *)
(* it stands.                                                              *)
LEMMA RecordedAgain ==
  ASSUME NEW l \in Seq(LedgerRow), NEW c \in Calls, NEW status \in Statuses,
         OneRow(l), Row1(l, c),
         status = "uncertain" \/ Status1(l, c, "started")
  PROVE  Recorded(l, c, status) =
           [i \in DOMAIN l |-> IF l[i].call = c THEN Row(c, status, FALSE) ELSE l[i]]
<1> DEFINE open == {i \in DOMAIN l : l[i].call = c /\
                      (l[i].status \notin {"cancelled", "uncertain"} \/ status = "uncertain")}
<1>1. \A i \in DOMAIN l : l[i].call = c => i \in open
  BY DEF OneRow, Row1, Status1
<1>2. open # {}
  BY <1>1 DEF Row1
<1>3. \A i \in DOMAIN l : i \in open <=> l[i].call = c
  BY <1>1
<1> QED BY <1>2, <1>3 DEF Recorded

LEMMA RowTyped ==
  ASSUME NEW c \in Calls, NEW status \in Statuses, NEW safe \in BOOLEAN
  PROVE  /\ Row(c, status, safe) \in LedgerRow
         /\ Row(c, status, safe).call = c
         /\ Row(c, status, safe).status = status
BY DEF Row, LedgerRow

(* What a write of record_tool_effect_state leaves.                        *)
LEMMA RecordedFacts ==
  ASSUME NEW l \in Seq(LedgerRow), NEW c \in Calls, NEW status \in Statuses, OneRow(l),
         ~Row1(l, c) \/ status = "uncertain" \/ Status1(l, c, "started")
  PROVE  LET m == Recorded(l, c, status)
         IN /\ m \in Seq(LedgerRow) /\ OneRow(m)
            /\ Status1(m, c, status)
            /\ \A s : Status1(m, c, s) => s = status
            /\ \A b, s : b # c => (Status1(m, b, s) <=> Status1(l, b, s))
            /\ \A b : b # c => (Row1(m, b) <=> Row1(l, b))
<1> DEFINE m == Recorded(l, c, status)
<1> DEFINE r == Row(c, status, FALSE)
<1>0. r \in LedgerRow /\ r.call = c /\ r.status = status
  BY RowTyped
<1>1. CASE ~Row1(l, c)
  <2>1. m = Append(l, r)
    BY <1>1, RecordedFirst
  <2> HIDE DEF m, r
  <2>2. /\ m \in Seq(LedgerRow) /\ Len(m) = Len(l) + 1
        /\ m[Len(l) + 1] = r
        /\ \A i \in 1..Len(l) : m[i] = l[i]
        /\ DOMAIN m = 1..(Len(l) + 1) /\ DOMAIN l = 1..Len(l) /\ Len(l) \in Nat
    BY <1>0, <2>1
  <2>3. \A i \in DOMAIN l : l[i].call # c
    BY <1>1 DEF Row1
  <2>4. OneRow(m)
    BY <1>0, <2>2, <2>3 DEF OneRow
  <2>5. Status1(m, c, status) /\ \A s : Status1(m, c, s) => s = status
    BY <1>0, <2>2, <2>3 DEF Status1
  <2>6. \A b, s : b # c => (Status1(m, b, s) <=> Status1(l, b, s))
    BY <1>0, <2>2 DEF Status1
  <2>7. \A b : b # c => (Row1(m, b) <=> Row1(l, b))
    BY <1>0, <2>2 DEF Row1
  <2> QED BY <2>2, <2>4, <2>5, <2>6, <2>7 DEF m
<1>2. CASE Row1(l, c)
  <2>1. m = [i \in DOMAIN l |-> IF l[i].call = c THEN r ELSE l[i]]
    BY <1>2, RecordedAgain
  <2> HIDE DEF m, r
  <2>2. /\ DOMAIN m = DOMAIN l /\ DOMAIN l = 1..Len(l) /\ Len(l) \in Nat
        /\ \A i \in DOMAIN l : m[i] = IF l[i].call = c THEN r ELSE l[i]
        /\ \A i \in DOMAIN l : l[i] \in LedgerRow
    BY <2>1
  <2>3. m \in Seq(LedgerRow)
    BY <1>0, <2>1, <2>2
  <2>4. OneRow(m)
    BY <1>0, <2>2 DEF OneRow
  <2>5. Status1(m, c, status) /\ \A s : Status1(m, c, s) => s = status
    BY <1>0, <1>2, <2>2 DEF Status1, Row1
  <2>6. \A b, s : b # c => (Status1(m, b, s) <=> Status1(l, b, s))
    BY <1>0, <2>2 DEF Status1
  <2>7. \A b : b # c => (Row1(m, b) <=> Row1(l, b))
    BY <1>0, <2>2 DEF Row1
  <2> QED BY <2>3, <2>4, <2>5, <2>6, <2>7 DEF m
<1> QED BY <1>1, <1>2

(* What the settlement in the transaction of a fact leaves.                *)
LEMMA SettledFacts ==
  ASSUME NEW l \in Seq(LedgerRow), NEW c \in Calls, NEW error \in BOOLEAN, OneRow(l)
  PROVE  LET m == Settled(l, c, error)
         IN /\ m \in Seq(LedgerRow) /\ OneRow(m)
            /\ ~Status1(m, c, "started")
            /\ Status1(m, c, "completed") => Status1(l, c, "completed") \/ ~error
            /\ Status1(l, c, "uncertain") => Status1(m, c, "uncertain")
            /\ \A b, s : b # c => (Status1(m, b, s) <=> Status1(l, b, s))
            /\ \A b : Row1(m, b) <=> Row1(l, b)
<1> DEFINE m == Settled(l, c, error)
<1> DEFINE r == Row(c, IF error THEN "failed" ELSE "completed", KindOf[c] = "file")
<1>0. r \in LedgerRow /\ r.call = c /\ r.status = IF error THEN "failed" ELSE "completed"
  <2>1. (IF error THEN "failed" ELSE "completed") \in Statuses
    BY DEF Statuses
  <2>2. (KindOf[c] = "file") \in BOOLEAN
    OBVIOUS
  <2> HIDE DEF r
  <2>3. r = Row(c, IF error THEN "failed" ELSE "completed", KindOf[c] = "file")
    BY DEF r
  <2> QED BY <2>1, <2>2, <2>3, RowTyped
<1>1. m = [i \in DOMAIN l |-> IF l[i].call = c /\ l[i].status = "started" THEN r ELSE l[i]]
  BY DEF Settled
<1> HIDE DEF m, r
<1>2. /\ DOMAIN m = DOMAIN l /\ DOMAIN l = 1..Len(l) /\ Len(l) \in Nat
      /\ \A i \in DOMAIN l :
           m[i] = IF l[i].call = c /\ l[i].status = "started" THEN r ELSE l[i]
      /\ \A i \in DOMAIN l : l[i] \in LedgerRow
  BY <1>1
<1>3. m \in Seq(LedgerRow)
  BY <1>0, <1>1, <1>2
<1>4. OneRow(m)
  BY <1>0, <1>2 DEF OneRow
<1>5. ~Status1(m, c, "started")
  BY <1>0, <1>2 DEF Status1
<1>6. Status1(m, c, "completed") => Status1(l, c, "completed") \/ ~error
  BY <1>0, <1>2 DEF Status1
<1>7. Status1(l, c, "uncertain") => Status1(m, c, "uncertain")
  BY <1>0, <1>2 DEF Status1
<1>8. \A b, s : b # c => (Status1(m, b, s) <=> Status1(l, b, s))
  BY <1>0, <1>2 DEF Status1
<1>9. \A b : Row1(m, b) <=> Row1(l, b)
  BY <1>0, <1>2 DEF Row1
<1> QED BY <1>3, <1>4, <1>5, <1>6, <1>7, <1>8, <1>9 DEF m

-------------------------------------------------------------------------------
(* The ledger, the journal and the effects. *)

(* One row and one fact per call: a step of one call cannot touch what is  *)
(* said of another.                                                        *)
StepOf(c) ==
  /\ c \in Calls
  /\ \A b \in Calls \ {c} :
       /\ at'[b] = at[b] /\ effect'[b] = effect[b]
       /\ \A s : Status1(ledger', b, s) <=> Status1(ledger, b, s)
       /\ Row1(ledger', b) <=> Row1(ledger, b)
       /\ Fact(b)' <=> Fact(b)
       /\ [call |-> b, error |-> FALSE] \in facts => [call |-> b, error |-> FALSE] \in facts'

(* What a step of a call has to show of that call.                         *)
LEMMA OneCallStep ==
  ASSUME LedgerInv, Types', OneRow(ledger'), NEW c, StepOf(c),
         at'[c] = "idle" => ~Row1(ledger', c) /\ effect'[c] = "none",
         at'[c] \in {"intended", "running"} => Status1(ledger', c, "started"),
         at'[c] # "completed" => ~Fact(c)',
         effect'[c] # "none" => Row1(ledger', c),
         KindOf[c] # "mcp" /\ Status1(ledger', c, "completed") =>
           [call |-> c, error |-> FALSE] \in facts',
         Fact(c)' => ~Status1(ledger', c, "started")
  PROVE  LedgerInv'
<1>1. Places1'
  <2> SUFFICES ASSUME NEW b \in Calls
               PROVE  /\ at'[b] = "idle" => ~Row1(ledger', b) /\ effect'[b] = "none"
                      /\ at'[b] \in {"intended", "running"} => Status1(ledger', b, "started")
                      /\ at'[b] # "completed" => ~Fact(b)'
    BY DEF Places1
  <2>1. CASE b = c
    BY <2>1
  <2>2. CASE b # c
    BY <2>2 DEF LedgerInv, Places1, StepOf
  <2> QED BY <2>1, <2>2
<1>2. RowsInv'
  <2> SUFFICES ASSUME NEW b \in Calls
               PROVE  /\ effect'[b] # "none" => Row1(ledger', b)
                      /\ KindOf[b] # "mcp" /\ Status1(ledger', b, "completed") =>
                           [call |-> b, error |-> FALSE] \in facts'
                      /\ Fact(b)' => ~Status1(ledger', b, "started")
    BY DEF RowsInv
  <2>1. CASE b = c
    BY <2>1
  <2>2. CASE b # c
    BY <2>2 DEF LedgerInv, RowsInv, StepOf
  <2> QED BY <2>1, <2>2
<1> QED BY <1>1, <1>2 DEF LedgerInv

LEMMA LedgerInit == Init => LedgerInv
<1> SUFFICES ASSUME Init PROVE LedgerInv
  OBVIOUS
<1>1. Types
  BY DEF Init, Types, Places, Results
<1>2. ledger = <<>> /\ DOMAIN ledger = {} /\ facts = {}
  BY DEF Init
<1> QED BY <1>1, <1>2 DEF Init, LedgerInv, OneRow, Places1, RowsInv, Row1, Status1, Fact

(* Steps that change neither a row, nor a fact, nor an effect.             *)
LEMMA QuietStep ==
  ASSUME LedgerInv, at' \in [Calls -> Places], UNCHANGED <<result, effect, ledger, facts>>,
         \A c \in Calls : at'[c] # at[c] => at'[c] = "abandoned" /\ at[c] # "completed"
  PROVE  LedgerInv'
<1>1. Types'
  BY DEF LedgerInv, Types
<1>2. OneRow(ledger') /\ RowsInv'
  BY DEF LedgerInv, RowsInv, Fact
<1>3. Places1'
  BY DEF LedgerInv, Places1, Fact
<1> QED BY <1>1, <1>2, <1>3 DEF LedgerInv

LEMMA CallSteps ==
  ASSUME LedgerInv, NEW c \in Calls, CallStep(c)
  PROVE  LedgerInv'
<1> USE DEF Places, Results, Statuses
<1>0. /\ Types /\ OneRow(ledger) /\ Places1 /\ RowsInv /\ ledger \in Seq(LedgerRow)
  BY DEF LedgerInv, Types
<1>a. ASSUME at' = [at EXCEPT ![c] = at'[c]], at'[c] \in Places, UNCHANGED <<effect, ledger, facts>>,
             result' \in [Calls -> Results],
             \/ at[c] = "idle" /\ at'[c] = "returned"
             \/ at[c] = "returned" /\ at'[c] = "abandoned"
      PROVE  LedgerInv'
  <2>1. Types' /\ OneRow(ledger') /\ RowsInv'
    BY <1>0, <1>a DEF Types, RowsInv, Fact
  <2>2. Places1'
    BY <1>0, <1>a DEF Types, Places1, Fact
  <2> QED BY <2>1, <2>2 DEF LedgerInv
<1>1. CASE Refuse(c)
  BY <1>0, <1>1, <1>a DEF Refuse, Turn, Return, Types, durable
<1>2. CASE Intend(c)
  <2>1. ~Row1(ledger, c) /\ effect[c] = "none" /\ ~Fact(c) /\ at[c] = "idle"
    BY <1>0, <1>2 DEF Intend, Turn, Places1
  <2>2. /\ ledger' \in Seq(LedgerRow) /\ OneRow(ledger')
        /\ Status1(ledger', c, "started")
        /\ \A s : Status1(ledger', c, s) => s = "started"
        /\ \A b, s : b # c => (Status1(ledger', b, s) <=> Status1(ledger, b, s))
        /\ \A b : b # c => (Row1(ledger', b) <=> Row1(ledger, b))
    BY <1>0, <1>2, <2>1, RecordedFacts DEF Intend
  <2>3. Row1(ledger', c)
    BY <2>2 DEF Row1, Status1
  <2>4. Types'
    BY <1>0, <1>2, <2>2 DEF Types, Intend
  <2>5. StepOf(c)
    BY <1>0, <1>2, <2>2 DEF StepOf, Intend, Types, Fact
  <2>6. at'[c] = "intended" /\ effect'[c] = "none" /\ ~Fact(c)'
    BY <1>0, <1>2, <2>1 DEF Types, Intend, Fact
  <2> QED BY <2>2, <2>3, <2>4, <2>5, <2>6, OneCallStep
<1>3. CASE Begin(c)
  <2>1. Types' /\ OneRow(ledger') /\ StepOf(c)
    BY <1>0, <1>3 DEF Begin, Types, StepOf, durable, Fact
  <2>2. Status1(ledger', c, "started") /\ at'[c] = "running" /\ ~Fact(c)'
    BY <1>0, <1>3 DEF Begin, Types, Places1, durable, Fact
  <2>3. Row1(ledger', c)
    BY <2>2 DEF Row1, Status1
  <2>4. KindOf[c] # "mcp" /\ Status1(ledger', c, "completed") =>
           [call |-> c, error |-> FALSE] \in facts'
    BY <1>0, <1>3 DEF Begin, durable, RowsInv
  <2> QED BY <2>1, <2>2, <2>3, <2>4, OneCallStep
<1>b. ASSUME at[c] = "running", at' = [at EXCEPT ![c] = "returned"],
             effect' \in [Calls -> {"none", "begun", "done"}],
             \A b \in Calls \ {c} : effect'[b] = effect[b],
             result' \in [Calls -> Results], UNCHANGED facts,
             \/ UNCHANGED ledger
             \/ \E status \in Statuses :
                  /\ KindOf[c] = "mcp" \/ status # "completed"
                  /\ ledger' = Recorded(ledger, c, status)
      PROVE  LedgerInv'
  <2>1. Status1(ledger, c, "started") /\ ~Fact(c)
    BY <1>0, <1>b DEF Places1
  <2>2. /\ ledger' \in Seq(LedgerRow) /\ OneRow(ledger') /\ Row1(ledger', c)
        /\ \A b, s : b # c => (Status1(ledger', b, s) <=> Status1(ledger, b, s))
        /\ \A b : b # c => (Row1(ledger', b) <=> Row1(ledger, b))
        /\ KindOf[c] # "mcp" => ~Status1(ledger', c, "completed")
    <3>1. CASE UNCHANGED ledger
      <4>1. \A s : Status1(ledger, c, s) => s = "started"
        BY <1>0, <2>1 DEF Status1, OneRow
      <4> QED BY <1>0, <2>1, <3>1, <4>1 DEF Row1, Status1
    <3>2. ASSUME NEW status \in Statuses, KindOf[c] = "mcp" \/ status # "completed",
                 ledger' = Recorded(ledger, c, status)
          PROVE  <2>2!:
      <4> HIDE DEF Statuses, Places, Results
      <4>1. /\ ledger' \in Seq(LedgerRow) /\ OneRow(ledger')
            /\ Status1(ledger', c, status)
            /\ \A s : Status1(ledger', c, s) => s = status
            /\ \A b, s : b # c => (Status1(ledger', b, s) <=> Status1(ledger, b, s))
            /\ \A b : b # c => (Row1(ledger', b) <=> Row1(ledger, b))
        BY <1>0, <2>1, <3>2, RecordedFacts
      <4>2. Row1(ledger', c)
        BY <4>1 DEF Row1, Status1
      <4> QED BY <3>2, <4>1, <4>2
    <3> QED BY <1>b, <3>1, <3>2
  <2>3. Types'
    BY <1>0, <1>b, <2>2 DEF Types
  <2>4. StepOf(c)
    BY <1>0, <1>b, <2>2 DEF StepOf, Types, Fact
  <2>5. at'[c] = "returned" /\ ~Fact(c)'
    BY <1>0, <1>b, <2>1 DEF Types, Fact
  <2> QED BY <2>2, <2>3, <2>4, <2>5, OneCallStep
<1>4. CASE HandlerOk(c)
  <2>1. /\ at[c] = "running" /\ at' = [at EXCEPT ![c] = "returned"]
        /\ effect' \in [Calls -> {"none", "begun", "done"}]
        /\ \A b \in Calls \ {c} : effect'[b] = effect[b]
        /\ result' \in [Calls -> Results] /\ UNCHANGED facts
    BY <1>0, <1>4 DEF HandlerOk, Return, Types
  <2>2. ledger' = ledger \/ ledger' = Recorded(ledger, c, "uncertain")
    BY <1>4 DEF HandlerOk
  <2> QED BY <1>b, <2>1, <2>2
<1>5. CASE HandlerErr(c)
  <2>1. /\ at[c] = "running" /\ at' = [at EXCEPT ![c] = "returned"]
        /\ effect' \in [Calls -> {"none", "begun", "done"}]
        /\ \A b \in Calls \ {c} : effect'[b] = effect[b]
        /\ result' \in [Calls -> Results] /\ UNCHANGED facts
    BY <1>0, <1>5 DEF HandlerErr, Return, Types
  <2>2. \/ ledger' = ledger
        \/ \E status \in {"cancelled", "uncertain", "failed"} :
             ledger' = Recorded(ledger, c, status)
    BY <1>5 DEF HandlerErr
  <2> QED BY <1>b, <2>1, <2>2
<1>6. CASE McpBack(c)
  <2>1. /\ at[c] = "running" /\ at' = [at EXCEPT ![c] = "returned"] /\ KindOf[c] = "mcp"
        /\ effect' \in [Calls -> {"none", "begun", "done"}]
        /\ \A b \in Calls \ {c} : effect'[b] = effect[b]
        /\ result' \in [Calls -> Results] /\ UNCHANGED facts
    BY <1>0, <1>6 DEF McpBack, Return, Types
  <2>2. \/ ledger' = ledger
        \/ \E status \in {"completed", "uncertain", "failed"} :
             ledger' = Recorded(ledger, c, status)
    BY <1>6 DEF McpBack
  <2> QED BY <1>b, <2>1, <2>2
<1>7. CASE Complete(c)
  <2> DEFINE error == result[c] # "ok"
  <2>0. /\ at[c] = "returned" /\ at' = [at EXCEPT ![c] = "completed"]
        /\ facts' = facts \cup {[call |-> c, error |-> error]}
        /\ ledger' = Settled(ledger, c, error)
        /\ UNCHANGED <<result, effect>>
    BY <1>7 DEF Complete
  <2>1. error \in BOOLEAN
    OBVIOUS
  <2> HIDE DEF error
  <2>2. /\ ledger' \in Seq(LedgerRow) /\ OneRow(ledger')
        /\ ~Status1(ledger', c, "started")
        /\ Status1(ledger', c, "completed") => Status1(ledger, c, "completed") \/ ~error
        /\ \A b, s : b # c => (Status1(ledger', b, s) <=> Status1(ledger, b, s))
        /\ \A b : Row1(ledger', b) <=> Row1(ledger, b)
    BY <1>0, <2>0, <2>1, SettledFacts
  <2>3. Types'
    BY <1>0, <2>0, <2>1, <2>2 DEF Types
  <2>4. \A b \in Calls \ {c} : Fact(b)' <=> Fact(b)
    BY <2>0 DEF Fact
  <2>5. StepOf(c)
    BY <1>0, <2>0, <2>2, <2>4 DEF StepOf, Types
  <2>6. at'[c] = "completed" /\ (effect'[c] # "none" => Row1(ledger', c))
    BY <1>0, <2>0, <2>2 DEF Types, RowsInv
  <2>7. KindOf[c] # "mcp" /\ Status1(ledger', c, "completed") =>
           [call |-> c, error |-> FALSE] \in facts'
    <3>1. ~error => [call |-> c, error |-> FALSE] \in facts'
      BY <2>0, <2>1
    <3> QED BY <1>0, <2>0, <2>2, <3>1 DEF RowsInv
  <2> QED BY <2>2, <2>3, <2>5, <2>6, <2>7, OneCallStep
<1>8. CASE FailToComplete(c)
  <2>0. /\ at[c] = "returned" /\ at' = [at EXCEPT ![c] = "abandoned"]
        /\ UNCHANGED <<result, effect, facts>>
        /\ ledger' = ledger \/ ledger' = Recorded(ledger, c, "uncertain")
    BY <1>8 DEF FailToComplete
  <2>1. CASE ledger' = ledger
    BY <1>0, <1>a, <2>0, <2>1 DEF Types
  <2>2. CASE ledger' = Recorded(ledger, c, "uncertain")
    <3>1. /\ ledger' \in Seq(LedgerRow) /\ OneRow(ledger')
          /\ Status1(ledger', c, "uncertain")
          /\ \A s : Status1(ledger', c, s) => s = "uncertain"
          /\ \A b, s : b # c => (Status1(ledger', b, s) <=> Status1(ledger, b, s))
          /\ \A b : b # c => (Row1(ledger', b) <=> Row1(ledger, b))
      BY <1>0, <2>2, RecordedFacts
    <3>2. Row1(ledger', c)
      BY <3>1 DEF Row1, Status1
    <3>3. Types'
      BY <1>0, <2>0, <3>1 DEF Types
    <3>4. StepOf(c)
      BY <1>0, <2>0, <3>1 DEF StepOf, Types, Fact
    <3>5. at'[c] = "abandoned" /\ ~Fact(c)'
      BY <1>0, <2>0 DEF Types, Places1, Fact
    <3> QED BY <3>1, <3>2, <3>3, <3>4, <3>5, OneCallStep
  <2> QED BY <2>0, <2>1, <2>2
<1> QED BY <1>1, <1>2, <1>3, <1>4, <1>5, <1>6, <1>7, <1>8 DEF CallStep

LEMMA RunSteps ==
  ASSUME LedgerInv, RunStep \/ GateStep
  PROVE  LedgerInv'
<1>1. Types
  BY DEF LedgerInv
<1>2. UNCHANGED <<result, effect, ledger, facts>>
  BY DEF RunStep, GateStep, CompleteTurn, StopEngine, Cancel, ForceAbort, CommitPoint, EndRun,
         CrashRestart, Retry, Continue, Resume, Restart, Decide, call, durable
<1>3. at' = at \/ Abandon
  BY DEF RunStep, GateStep, CompleteTurn, StopEngine, Cancel, ForceAbort, CommitPoint, EndRun,
         CrashRestart, Retry, Continue, Resume, Restart, Decide, call
<1>4. CASE at' = at
  BY <1>1, <1>2, <1>4, QuietStep DEF Types
<1>5. CASE Abandon
  <2>1. at' \in [Calls -> Places]
    BY <1>1, <1>5 DEF Abandon, Types, Places
  <2>2. \A c \in Calls : at'[c] # at[c] => at'[c] = "abandoned" /\ at[c] # "completed"
    BY <1>5 DEF Abandon, InFlight
  <2> QED BY <1>2, <2>1, <2>2, QuietStep
<1> QED BY <1>3, <1>4, <1>5

\* The rows, the facts, the effects and the places of the calls agree in every state, for any
\* number of calls of any kind and any number of failed writes.
THEOREM LedgerIsSound == Spec => []LedgerInv
<1>1. ASSUME LedgerInv, [Next]_vars PROVE LedgerInv'
  <2>1. CASE UNCHANGED vars
    BY <1>1, <2>1, QuietStep DEF vars, call, durable, LedgerInv, Types
  <2>2. CASE Next
    BY <1>1, <2>2, CallSteps, RunSteps DEF Next
  <2> QED BY <1>1, <2>1, <2>2
<1> QED BY <1>1, LedgerInit, PTL DEF Spec

(* The definitions of the module in terms of positions.                    *)
LEMMA ByPosition ==
  ASSUME NEW c \in Calls
  PROVE  /\ RowsOf(c) # {} <=> Row1(ledger, c)
         /\ \A status : Has(c, status) <=> Status1(ledger, c, status)
BY DEF RowsOf, Row1, Status1, Has, Range

\* Every effect has its one row, a native row is completed only with its fact, and a fact
\* leaves no row started: the order of intent, handler, fact and settlement in
\* production_tools.rs and event_log.rs, for any calls and any writes that fail.
THEOREM RowsAlwaysFollowEffects == Spec => []RowsFollowEffects
<1>1. LedgerInv => RowsFollowEffects
  <2> SUFFICES ASSUME LedgerInv, NEW c \in Calls
               PROVE  /\ effect[c] # "none" => RowsOf(c) # {}
                      /\ Cardinality({i \in DOMAIN ledger : ledger[i].call = c}) <= 1
                      /\ KindOf[c] # "mcp" /\ Has(c, "completed") =>
                           [call |-> c, error |-> FALSE] \in facts
                      /\ (\E f \in facts : f.call = c) => ~Has(c, "started")
    BY DEF RowsFollowEffects
  <2>1. Cardinality({i \in DOMAIN ledger : ledger[i].call = c}) <= 1
    <3> DEFINE rows == {i \in DOMAIN ledger : ledger[i].call = c}
    <3>1. ASSUME rows = {} PROVE Cardinality(rows) = 0
      <4> HIDE DEF rows
      <4> QED BY <3>1, FS_EmptySet, Zenon
    <3>2. ASSUME NEW i \in rows PROVE Cardinality(rows) = 1
      <4>1. rows = {i}
        BY <3>2 DEF LedgerInv, OneRow
      <4> HIDE DEF rows
      <4>2. Cardinality({i}) = 1
        BY FS_Singleton, Zenon
      <4> QED BY <4>1, <4>2, Zenon
    <3>3. rows = {} \/ \E i : i \in rows
      OBVIOUS
    <3> HIDE DEF rows
    <3>4. Cardinality(rows) \in {0, 1}
      BY <3>1, <3>2, <3>3
    <3>5. Cardinality(rows) <= 1
      BY <3>4
    <3> QED BY <3>5 DEF rows
  <2> QED BY <2>1, ByPosition DEF LedgerInv, RowsInv, Fact
<1> QED BY <1>1, LedgerIsSound, PTL

-------------------------------------------------------------------------------
(* A doubt is final. *)

(* What a call may write.                                                  *)
LEMMA LedgerWrites ==
  ASSUME LedgerInv, NEW c \in Calls, CallStep(c)
  PROVE  \/ ledger' = ledger
         \/ \E status \in Statuses :
              /\ ledger' = Recorded(ledger, c, status)
              /\ ~Row1(ledger, c) \/ status = "uncertain" \/ Status1(ledger, c, "started")
         \/ \E error \in BOOLEAN : ledger' = Settled(ledger, c, error)
<1>1. at[c] = "running" => Status1(ledger, c, "started")
  BY DEF LedgerInv, Places1
<1>2. at[c] = "idle" => ~Row1(ledger, c)
  BY DEF LedgerInv, Places1
<1> USE DEF Statuses
<1>3. CASE Refuse(c) \/ Begin(c)
  BY <1>3 DEF Refuse, Begin, durable
<1>4. CASE Intend(c)
  BY <1>2, <1>4 DEF Intend, Turn
<1>5. CASE HandlerOk(c)
  BY <1>5 DEF HandlerOk
<1>6. CASE HandlerErr(c)
  BY <1>1, <1>6 DEF HandlerErr
<1>7. CASE McpBack(c)
  BY <1>1, <1>7 DEF McpBack
<1>8. CASE Complete(c)
  BY <1>8 DEF Complete
<1>9. CASE FailToComplete(c)
  BY <1>9 DEF FailToComplete
<1> QED BY <1>3, <1>4, <1>5, <1>6, <1>7, <1>8, <1>9 DEF CallStep

LEMMA DoubtStays ==
  ASSUME LedgerInv, [Next]_vars, NEW c \in Calls, Status1(ledger, c, "uncertain")
  PROVE  Status1(ledger', c, "uncertain")
<1>0. ledger \in Seq(LedgerRow) /\ OneRow(ledger)
  BY DEF LedgerInv, Types
<1>1. CASE ledger' = ledger
  BY <1>1
<1>2. ASSUME NEW b \in Calls, CallStep(b) PROVE Status1(ledger', c, "uncertain")
  <2>1. ASSUME NEW status \in Statuses, ledger' = Recorded(ledger, b, status),
               ~Row1(ledger, b) \/ status = "uncertain" \/ Status1(ledger, b, "started")
        PROVE  Status1(ledger', c, "uncertain")
    <3>1. /\ Status1(ledger', b, status)
          /\ \A d, s : d # b => (Status1(ledger', d, s) <=> Status1(ledger, d, s))
      BY <1>0, <2>1, RecordedFacts
    <3>2. CASE b = c
      <4>1. Row1(ledger, b) /\ ~Status1(ledger, b, "started")
        BY <1>0, <3>2 DEF Row1, Status1, OneRow
      <4> QED BY <2>1, <3>1, <3>2, <4>1
    <3> QED BY <3>1, <3>2
  <2>2. ASSUME NEW error \in BOOLEAN, ledger' = Settled(ledger, b, error)
        PROVE  Status1(ledger', c, "uncertain")
    BY <1>0, <2>2, SettledFacts
  <2> QED BY <1>1, <1>2, <2>1, <2>2, LedgerWrites
<1>3. CASE RunStep \/ GateStep \/ UNCHANGED vars
  BY <1>1, <1>3
     DEF RunStep, GateStep, CompleteTurn, StopEngine, Cancel, ForceAbort, CommitPoint, EndRun,
         CrashRestart, Retry, Continue, Resume, Restart, Decide, call, durable, vars
<1> QED BY <1>2, <1>3 DEF Next

\* No write of any path takes a row out of doubt (event_log.rs:153-155), whatever fails and
\* in whatever order the engine, the handler and the cancel write.
THEOREM DoubtIsAlwaysKept == Spec => DoubtIsKept
<1>1. ASSUME LedgerInv, LedgerInv', [Next]_vars
      PROVE  [\A c \in Calls : Has(c, "uncertain") =>
                \A r \in RowsOf(c)' : r.status = "uncertain"]_vars
  <2> SUFFICES ASSUME NEW c \in Calls, Has(c, "uncertain"), NEW r \in RowsOf(c)'
               PROVE  r.status = "uncertain"
    OBVIOUS
  <2>1. Status1(ledger', c, "uncertain")
    BY <1>1, ByPosition, DoubtStays
  <2>2. \E i \in DOMAIN ledger' : r = ledger'[i] /\ ledger'[i].call = c
    BY DEF RowsOf, Range
  <2> QED BY <1>1, <2>1, <2>2 DEF LedgerInv, OneRow, Status1
<1> QED BY <1>1, LedgerIsSound, PTL DEF DoubtIsKept, Spec

-------------------------------------------------------------------------------
(* The gates. *)

(* Once the run is over nothing writes any more, and no gate opens before. *)
GateInv ==
  /\ point.cursor \in Nat
  /\ engine = "running" => run = "active"
  /\ plans # {} \/ held => run # "active"
  /\ \A c \in Calls : InFlight(c) =>
       engine = "running" /\ \A b \in 1..(c - 1) : at[b] = "completed"
  /\ ContinueIsSafe

LEMMA GateInit == Init => GateInv
BY DEF Init, GateInv, NoPoint, InFlight, ContinueIsSafe

LEMMA ActiveSteps ==
  ASSUME LedgerInv, GateInv, LedgerInv', (\E c \in Calls : CallStep(c)) \/ RunStep
  PROVE  GateInv'
<1>0. /\ at \in [Calls -> Places] /\ at' \in [Calls -> Places] /\ Calls = 1..NCalls
      /\ NCalls \in Nat
  BY CallsAssumption DEF LedgerInv, Types, Calls
<1>1. run = "active"
  BY DEF CallStep, RunStep, Refuse, Intend, Turn, Begin, HandlerOk, HandlerErr, McpBack, Complete,
         FailToComplete, CompleteTurn, StopEngine, Cancel, ForceAbort, CommitPoint, EndRun,
         CrashRestart, GateInv, InFlight
<1>2. plans' = {} /\ held' = held /\ ~held
  BY <1>1 DEF GateInv, gates, CallStep, RunStep, Refuse, Intend, Turn, Begin, HandlerOk, HandlerErr,
         McpBack, Complete, FailToComplete, CompleteTurn, StopEngine, Cancel, ForceAbort,
         CommitPoint, EndRun, CrashRestart
<1>3. ContinueIsSafe'
  BY <1>2 DEF ContinueIsSafe
<1>4. point'.cursor \in Nat
  <2>1. CASE CommitPoint
    <3>1. Len(ledger) \in Nat
      BY DEF LedgerInv, Types
    <3> QED BY <2>1, <3>1 DEF CommitPoint, Watermark
  <2>2. CASE ~CommitPoint
    <3>1. point' = point
      BY <2>2 DEF CallStep, RunStep, Refuse, Intend, Begin, HandlerOk, HandlerErr,
           McpBack, Complete, FailToComplete, CompleteTurn, StopEngine, Cancel, ForceAbort,
           EndRun, CrashRestart, durable
    <3> QED BY <3>1 DEF GateInv
  <2> QED BY <2>1, <2>2
<1>5. /\ engine' = "running" => run' = "active"
      /\ \A c \in Calls : InFlight(c)' =>
           engine' = "running" /\ \A b \in 1..(c - 1) : at'[b] = "completed"
  <2>1. ASSUME NEW c \in Calls, CallStep(c) PROVE <1>5!:
    <3>1. CASE engine' = engine /\ run' = run
      <4>1. at' = [at EXCEPT ![c] = at'[c]]
        BY <1>0, <2>1, <3>1 DEF CallStep, Refuse, Intend, Begin, HandlerOk, HandlerErr, McpBack,
             Complete, FailToComplete, Return
      <4>2. \/ Turn(c)
            \/ InFlight(c)
        BY <2>1 DEF CallStep, Refuse, Intend, Begin, HandlerOk, HandlerErr, McpBack, Complete,
             FailToComplete, InFlight
      <4>3. engine = "running" /\ \A b \in 1..(c - 1) : at[b] = "completed"
        BY <4>2 DEF Turn, GateInv
      <4>4. at[c] # "completed"
        BY <4>2 DEF Turn, InFlight
      <4>5. \A d \in Calls \ {c} : ~InFlight(d)
        <5> SUFFICES ASSUME NEW d \in Calls, d # c, InFlight(d) PROVE FALSE
          OBVIOUS
        <5>1. CASE d < c
          BY <1>0, <4>3, <5>1 DEF InFlight
        <5>2. CASE d > c
          BY <1>0, <4>4, <5>2 DEF GateInv
        <5> QED BY <1>0, <5>1, <5>2
      <4>6. \A d \in Calls \ {c} : at'[d] = at[d]
        BY <1>0, <4>1
      <4>7. \A b \in 1..(c - 1) : at'[b] = "completed"
        BY <1>0, <4>3, <4>6
      <4> QED BY <3>1, <4>3, <4>5, <4>6, <4>7 DEF InFlight, GateInv
    <3>2. CASE FailToComplete(c)
      <4>1. at[c] = "returned" /\ at' = [at EXCEPT ![c] = "abandoned"] /\ engine' = "stopped"
        BY <3>2 DEF FailToComplete
      <4>2. \A b \in 1..(c - 1) : at[b] = "completed"
        BY <4>1 DEF GateInv, InFlight
      <4>3. \A d \in Calls \ {c} : ~InFlight(d)
        <5> SUFFICES ASSUME NEW d \in Calls, d # c, InFlight(d) PROVE FALSE
          OBVIOUS
        <5>1. CASE d < c
          BY <1>0, <4>2, <5>1 DEF InFlight
        <5>2. CASE d > c
          BY <1>0, <4>1, <5>2 DEF GateInv
        <5> QED BY <1>0, <5>1, <5>2
      <4> QED BY <1>0, <4>1, <4>3 DEF InFlight
    <3>3. FailToComplete(c) \/ (engine' = engine /\ run' = run)
      BY <2>1 DEF CallStep, Refuse, Intend, Begin, HandlerOk, HandlerErr, McpBack,
           Complete, life
    <3> QED BY <3>1, <3>2, <3>3
  <2>2. CASE CompleteTurn \/ StopEngine
    BY <2>2 DEF CompleteTurn, StopEngine, Quiet, InFlight, call, GateInv
  <2>3. CASE ForceAbort \/ CrashRestart
    BY <1>0, <2>3 DEF ForceAbort, CrashRestart, Abandon, InFlight
  <2>4. CASE Cancel \/ CommitPoint \/ EndRun
    BY <2>4 DEF Cancel, CommitPoint, EndRun, InFlight, call, life, GateInv
  <2> QED BY <2>1, <2>2, <2>3, <2>4 DEF RunStep
<1> QED BY <1>2, <1>3, <1>4, <1>5 DEF GateInv


(* With nothing unresolved every effect has a row that says how it ended.  *)
LEMMA NothingUnresolved ==
  ASSUME LedgerInv, GateInv, Unresolved = {}, NEW c \in Calls
  PROVE  ~Unaccounted(c)
<1>1. CASE effect[c] = "none"
  BY <1>1 DEF Unaccounted
<1>2. CASE effect[c] # "none"
  <2>1. PICK i \in DOMAIN ledger : ledger[i].call = c
    BY <1>2 DEF LedgerInv, RowsInv, Row1
  <2>2. i \in Nat /\ ledger[i].status \in Statuses /\ point.cursor \in Nat
    <3>1. ledger \in Seq(LedgerRow) /\ DOMAIN ledger = 1..Len(ledger) /\ Len(ledger) \in Nat
      BY DEF LedgerInv, Types
    <3>2. ledger[i] \in LedgerRow
      BY <3>1
    <3> QED BY <3>1, <3>2 DEF LedgerRow, GateInv
  <2>3. /\ ledger[i].status \notin {"started", "uncertain"}
        /\ ledger[i].status = "completed" => ~(i > point.cursor)
    BY DEF Unresolved
  <2> QED BY <2>1, <2>2, <2>3 DEF Unaccounted, Statuses
<1> QED BY <1>1, <1>2

LEMMA GateSteps ==
  ASSUME LedgerInv, GateInv, GateStep
  PROVE  GateInv'
<1>1. run # "active" /\ UNCHANGED <<call, durable, life>>
  <2>1. Restart => run # "active"
    BY DEF Restart, GateInv
  <2> QED BY <2>1 DEF GateStep, Retry, Continue, Resume, Restart, Resumable, Decide
<1>2. \/ plans' = plans
      \/ \E action, decision, confirmed :
           /\ Decide(action, decision, confirmed)
           /\ decision = "SafeToContinue" /\ ~confirmed =>
                IF action = "retry" THEN \A c \in Calls : ~Has(c, "uncertain")
                ELSE Unresolved = {}
  <2>1. CASE Retry
    <3>1. \/ plans' = plans
          \/ Decide("retry", "SafeToContinue", FALSE) /\ \A c \in Calls : ~Has(c, "uncertain")
      BY <2>1 DEF Retry
    <3> QED BY <3>1, Zenon
  <2>2. CASE Continue
    <3> DEFINE answer == IF Unresolved = {} THEN "SafeToContinue"
                         ELSE IF HardBlocked THEN "Blocked"
                         ELSE "ConfirmationRequired"
    <3>1. Decide("continue", answer, FALSE)
      BY <2>2 DEF Continue
    <3>2. answer = "SafeToContinue" => Unresolved = {}
      OBVIOUS
    <3> HIDE DEF answer
    <3>3. "continue" # "retry"
      OBVIOUS
    <3> QED BY <3>1, <3>2, <3>3, Zenon
  <2>3. CASE Resume
    <3>1. PICK confirmed \in BOOLEAN :
            Decide("resume",
                   IF HardBlocked THEN "Blocked"
                   ELSE IF Unresolved # {} /\ ~confirmed THEN "ConfirmationRequired"
                   ELSE "SafeToContinue", confirmed)
      BY <2>3 DEF Resume
    <3> DEFINE answer == IF HardBlocked THEN "Blocked"
                         ELSE IF Unresolved # {} /\ ~confirmed THEN "ConfirmationRequired"
                         ELSE "SafeToContinue"
    <3>2. answer = "SafeToContinue" /\ ~confirmed => Unresolved = {}
      OBVIOUS
    <3>3. Decide("resume", answer, confirmed)
      BY <3>1
    <3> HIDE DEF answer
    <3> QED BY <3>2, <3>3
  <2>4. CASE Restart
    BY <2>4 DEF Restart
  <2> QED BY <2>1, <2>2, <2>3, <2>4 DEF GateStep
<1>3. \A c \in Calls : /\ Has(c, "uncertain")' <=> Has(c, "uncertain")
                       /\ Unaccounted(c)' <=> Unaccounted(c)
  BY <1>1 DEF Has, RowsOf, Unaccounted, call, durable
<1>4. ContinueIsSafe'
  <2>1. CASE plans' = plans
    BY <1>3, <2>1 DEF GateInv, ContinueIsSafe
  <2>2. ASSUME NEW action, NEW decision, NEW confirmed,
               Decide(action, decision, confirmed),
               decision = "SafeToContinue" /\ ~confirmed =>
                 IF action = "retry" THEN \A c \in Calls : ~Has(c, "uncertain")
                 ELSE Unresolved = {}
        PROVE  ContinueIsSafe'
    <3> DEFINE p == [action |-> action, decision |-> decision, confirmed |-> confirmed]
    <3>1. plans' = plans \cup {p}
      BY <2>2 DEF Decide
    <3>2. p.action = action /\ p.decision = decision /\ p.confirmed = confirmed
      OBVIOUS
    <3> HIDE DEF p
    <3>3. p.decision = "SafeToContinue" /\ ~p.confirmed =>
            \A c \in Calls : IF p.action = "retry" THEN ~Has(c, "uncertain") ELSE ~Unaccounted(c)
      BY <2>2, <3>2, NothingUnresolved
    <3> QED BY <1>3, <3>1, <3>3 DEF GateInv, ContinueIsSafe
  <2> QED BY <1>2, <2>1, <2>2
<1> QED BY <1>1, <1>4 DEF GateInv, InFlight, call, durable, life

LEMMA GateStutters ==
  ASSUME GateInv, UNCHANGED vars
  PROVE  GateInv'
<1>1. \A c \in Calls : /\ Has(c, "uncertain")' <=> Has(c, "uncertain")
                       /\ Unaccounted(c)' <=> Unaccounted(c)
                       /\ InFlight(c)' <=> InFlight(c)
  BY DEF vars, gates, call, durable, Has, RowsOf, Unaccounted, InFlight
<1>2. ContinueIsSafe'
  BY <1>1 DEF vars, gates, GateInv, ContinueIsSafe
<1> QED BY <1>1, <1>2 DEF GateInv, vars, gates, call, durable, life

\* A continue or a resume the caller did not confirm is called safe only when every effect
\* of the run is one a row settles and the checkpoint covers, a retry only without a doubt
\* (run_manager.rs:172-220): the effects cannot move after the gate has looked, because a
\* run that is over has no call in flight.
THEOREM ContinueIsAlwaysSafe == Spec => []ContinueIsSafe
<1>1. ASSUME LedgerInv, LedgerInv', GateInv, [Next]_vars PROVE GateInv'
  BY <1>1, ActiveSteps, GateSteps, GateStutters DEF Next
<1>2. GateInv => ContinueIsSafe
  BY DEF GateInv
<1> QED BY <1>1, <1>2, GateInit, LedgerIsSound, PTL DEF Spec

================================================================================
