----------------------------- MODULE PlannerProofs -----------------------------
(***************************************************************************)
(* Proofs about Planner, for every requirement, every verification block and *)
(* every proposal, of any length.                                            *)
(***************************************************************************)
EXTENDS Planner, TLAPS

-------------------------------------------------------------------------------
(* The expander's blocks. *)

\* The names of operations and checks a mode admits.
OpNames(m) == ALLOWED_CHECKS[m] \cup (ALLOWED_KINDS[m] \ {"assert"})

\* A step the runner of the mode executes for a declared constraint.
GoodStep(s) ==
  /\ s \in PlanStep
  /\ s.kind \in ALLOWED_KINDS[mode]
  /\ s.kind = "assert" => s.check \in ALLOWED_CHECKS[mode]
  /\ s.fields = "good"
  /\ s.cid \in allowed_ids

AllModes == {"browser", "api", "state"}

LEMMA HappyNames ==
  ASSUME NEW m \in AllModes
  PROVE  HappyOps[m] \in Seq(OpNames(m))
<1>1. CASE m = "browser"
  BY <1>1 DEF HappyOps, OpNames, ALLOWED_CHECKS, ALLOWED_KINDS
<1>2. CASE m = "api"
  BY <1>2 DEF HappyOps, OpNames, ALLOWED_CHECKS, ALLOWED_KINDS
<1>3. CASE m = "state"
  BY <1>3 DEF HappyOps, OpNames, ALLOWED_CHECKS, ALLOWED_KINDS
<1> QED
  BY <1>1, <1>2, <1>3 DEF AllModes

LEMMA OpsNames ==
  ASSUME mode \in AllModes, NEW c \in Constraint
  PROVE  OpsOf(c) \in Seq(OpNames(mode))
<1>1. CASE mode = "browser"
  <2>1. SessionOps["browser"] \in Seq(OpNames("browser"))
    BY DEF SessionOps, OpNames, ALLOWED_CHECKS, ALLOWED_KINDS
  <2>2. BrowserOps(c) \in Seq(OpNames("browser"))
    <3>1. <<"navigate", "fill", "fill", "click", "text_contains">> \in Seq(OpNames("browser"))
      BY DEF OpNames, ALLOWED_CHECKS, ALLOWED_KINDS
    <3>2. <<"clear_cookies", "navigate", "url_contains">> \in Seq(OpNames("browser"))
      BY DEF OpNames, ALLOWED_CHECKS, ALLOWED_KINDS
    <3>3. <<"unsupported_constraint">> \in Seq(OpNames("browser"))
      BY DEF OpNames, ALLOWED_CHECKS, ALLOWED_KINDS
    <3>4. \/ BrowserOps(c) = <<"navigate", "fill", "fill", "click", "text_contains">>
           \/ BrowserOps(c) = <<"clear_cookies", "navigate", "url_contains">>
           \/ BrowserOps(c) = <<"unsupported_constraint">>
      BY Zenon DEF BrowserOps
    <3> QED
      BY <3>1, <3>2, <3>3, <3>4, Zenon
  <2> QED
    BY <1>1, <2>1, <2>2 DEF OpsOf
<1>2. CASE mode = "api"
  <2>1. SessionOps["api"] \in Seq(OpNames("api"))
    BY DEF SessionOps, OpNames, ALLOWED_CHECKS, ALLOWED_KINDS
  <2>2. ApiOps(c) \in Seq(OpNames("api"))
    <3>1. <<"http_request", "status_equals", "json_contains">> \in Seq(OpNames("api"))
      BY DEF OpNames, ALLOWED_CHECKS, ALLOWED_KINDS
    <3>2. <<"http_request", "status_equals">> \in Seq(OpNames("api"))
      BY DEF OpNames, ALLOWED_CHECKS, ALLOWED_KINDS
    <3>3. <<"unsupported_constraint">> \in Seq(OpNames("api"))
      BY DEF OpNames, ALLOWED_CHECKS, ALLOWED_KINDS
    <3>4. \/ ApiOps(c) = <<"http_request", "status_equals", "json_contains">>
           \/ ApiOps(c) = <<"http_request", "status_equals">>
           \/ ApiOps(c) = <<"unsupported_constraint">>
      BY Zenon DEF ApiOps
    <3> QED
      BY <3>1, <3>2, <3>3, <3>4, Zenon
  <2> QED
    BY <1>2, <2>1, <2>2 DEF OpsOf
<1>3. CASE mode = "state"
  <2>1. StateOps(c) \in Seq(OpNames("state"))
    <3>1. <<"sql_query", "cell_equals">> \in Seq(OpNames("state"))
      BY DEF OpNames, ALLOWED_CHECKS, ALLOWED_KINDS
    <3>2. <<"http_request", "status_equals", "sql_query", "cell_equals">> \in Seq(OpNames("state"))
      BY DEF OpNames, ALLOWED_CHECKS, ALLOWED_KINDS
    <3>3. <<"unsupported_constraint">> \in Seq(OpNames("state"))
      BY DEF OpNames, ALLOWED_CHECKS, ALLOWED_KINDS
    <3>4. \/ StateOps(c) = <<"sql_query", "cell_equals">>
           \/ StateOps(c) = <<"http_request", "status_equals", "sql_query", "cell_equals">>
           \/ StateOps(c) = <<"unsupported_constraint">>
      BY Zenon DEF StateOps
    <3> QED
      BY <3>1, <3>2, <3>3, <3>4, Zenon
  <2> QED
    BY <1>3, <2>1 DEF OpsOf, Session
<1> QED
  BY <1>1, <1>2, <1>3 DEF AllModes

\* A named operation of the mode, for a declared constraint, is a good step.
LEMMA StepGood ==
  ASSUME mode \in AllModes, NEW op \in OpNames(mode), NEW c \in DOMAIN requirement, c \in Nat,
         requirement[c].id \in allowed_ids, allowed_ids \subseteq Nat, NEW n \in Nat
  PROVE  GoodStep(StepOf(op, c, n)) /\ StepOf(op, c, n).id = n
<1>1. Checks = ALLOWED_CHECKS["browser"] \cup ALLOWED_CHECKS["api"] \cup ALLOWED_CHECKS["state"]
  BY DEF Checks
<1>2. Kinds = ALLOWED_KINDS["browser"] \cup ALLOWED_KINDS["api"] \cup ALLOWED_KINDS["state"]
  BY DEF Kinds
<1>3. CASE op \in ALLOWED_CHECKS[mode]
  <2>1. op \in Checks
    BY <1>1, <1>3 DEF AllModes
  <2>2. "assert" \in ALLOWED_KINDS[mode] /\ "assert" \in Kinds
    BY <1>2 DEF ALLOWED_KINDS, AllModes
  <2> QED
    BY <1>3, <2>1, <2>2 DEF GoodStep, StepOf, PlanStep
<1>4. CASE op \in ALLOWED_KINDS[mode] \ {"assert"}
  <2>1. op \notin Checks
    BY <1>1, <1>4 DEF ALLOWED_CHECKS, ALLOWED_KINDS, AllModes
  <2>2. op \in Kinds
    BY <1>2, <1>4 DEF AllModes
  <2> QED
    BY <1>4, <2>1, <2>2 DEF GoodStep, StepOf, PlanStep
<1> QED
  BY <1>3, <1>4 DEF OpNames

-------------------------------------------------------------------------------
(* The inductive invariant. *)

StepsGood == \A i \in DOMAIN steps : GoodStep(steps[i])

\* Outside the IR path a step's id is its position.
Numbered ==
  pc \in {"sanitize", "happy", "sessions", "rest"} \/ planner \in {"llm", "deterministic"}
    => \A i \in DOMAIN steps : steps[i].id = i

\* Which planner is at work, and what is still empty.
Routed ==
  /\ planner = "none" <=> pc # "done"
  /\ pc \in {"parse", "validate", "compile", "rejected"} => verification # NoIr
  /\ pc \in {"propose", "sanitize", "happy", "sessions", "rest"} => verification = NoIr
  /\ planner \in {"llm", "deterministic"} => verification = NoIr
  /\ planner = "ir" => verification # NoIr
  /\ pc \in {"build", "parse", "validate", "propose", "happy"} => steps = <<>>
  /\ pc \in {"build", "parse"} => typed = <<>>

\* The validated steps are those read so far, and their ids differ.
TypedSoFar ==
  /\ pc = "validate" => /\ Len(typed) = next - 1
                        /\ next - 1 <= Len(verification.steps)
  /\ pc = "compile" \/ planner = "ir" => Len(typed) = Len(verification.steps)
  /\ verification # NoIr => \A i \in DOMAIN typed :
       i \in DOMAIN verification.steps /\ typed[i] = verification.steps[i]
  /\ \A i, j \in DOMAIN typed : typed[i].id = typed[j].id => i = j

\* The compiled steps are the validated ones, in their order.
CompiledSoFar ==
  /\ pc = "compile" => Len(steps) = next - 1 /\ next - 1 <= Len(typed)
  /\ planner = "ir" => Len(steps) = Len(typed)
  /\ pc = "compile" \/ planner = "ir" => \A i \in DOMAIN steps :
       i \in DOMAIN typed /\ steps[i] = Compiled(typed[i], typed[i].id)

\* The expander's plan starts with the happy path.
HappyFirst ==
  pc \in {"sessions", "rest"} \/ planner = "deterministic" =>
    \A i \in DOMAIN HappyOps[mode] :
      i \in DOMAIN steps /\ steps[i] = StepOf(HappyOps[mode][i], 1, i)

PlannerInv ==
  TypeOK /\ StepsGood /\ Numbered /\ Routed /\ TypedSoFar /\ CompiledSoFar /\ HappyFirst

\* What the inputs are, spelled out.
LEMMA InputTypes ==
  ASSUME TypeOK
  PROVE  /\ mode \in AllModes
         /\ requirement \in Seq(Constraint) /\ Len(requirement) > 0
         /\ requirement[1].id = HappyPath
         /\ HappyPath \in allowed_ids /\ allowed_ids \subseteq Nat
         /\ 1 \in DOMAIN requirement
         /\ \A i \in DOMAIN requirement : i \in Nat /\ requirement[i].id \in allowed_ids
         /\ verification # NoIr => verification.steps \in Seq(Item)
         /\ proposal \in Seq(Item)
<1>1. /\ mode \in AllModes
      /\ requirement \in Seq(Constraint) /\ Len(requirement) > 0
      /\ requirement[1].id = HappyPath
  BY PlannerAssumption DEF TypeOK, AllModes
<1>2. \A i \in DOMAIN requirement : i \in Nat /\ requirement[i].id \in allowed_ids
  BY <1>1 DEF allowed_ids
<1>3. allowed_ids \subseteq Nat
  <2>1. \A i \in DOMAIN requirement : requirement[i] \in Constraint
    BY <1>1
  <2> QED
    BY <2>1 DEF allowed_ids, Constraint
<1>4. HappyPath \in allowed_ids
  BY <1>1, <1>2
<1>5. verification # NoIr => verification \in Verification
  BY PlannerAssumption DEF TypeOK
<1>6. verification # NoIr => verification.steps \in Seq(Item)
  BY <1>5 DEF Verification
<1>7. proposal \in Seq(Item)
  <2>1. proposal \in {<<>>} \cup Proposals
    BY DEF TypeOK
  <2>2. \A p \in Proposals : p \in Seq(Item)
    BY PlannerAssumption, Zenon
  <2>3. <<>> \in Seq(Item)
    OBVIOUS
  <2> QED
    BY <2>1, <2>2, <2>3, Zenon
<1> QED
  BY <1>1, <1>2, <1>3, <1>4, <1>6, <1>7

\* sanitize_step's result is a good step.
LEMMA CompiledGood ==
  ASSUME TypeOK, NEW item \in Item, Executable(item), NEW id \in Nat
  PROVE  GoodStep(Compiled(item, id)) /\ Compiled(item, id).id = id
<1>1. mode \in AllModes
  BY InputTypes
<1>2. item.kind \in ALLOWED_KINDS[mode] /\ item.cid \in allowed_ids
  BY DEF Executable
<1>3. item.kind \in Kinds
  BY <1>1, <1>2 DEF Kinds, AllModes
<1>4. item.kind = "assert" => item.check \in ALLOWED_CHECKS[mode]
  BY DEF Executable
<1>5. item.kind \notin Unchecked => item.fields = "good"
  BY DEF Executable, Unchecked
<1> QED
  BY <1>2, <1>3, <1>4, <1>5 DEF GoodStep, Compiled, PlanStep, Item

\* add() over a block appends good steps, numbered from where the plan ends.
LEMMA AddGood ==
  ASSUME TypeOK, StepsGood, NEW ops \in Seq(OpNames(mode)), NEW c \in DOMAIN requirement,
         Add(ops, c), UNCHANGED inputVars
  PROVE  /\ steps' \in Seq(PlanStep)
         /\ StepsGood'
         /\ Len(steps') = Len(steps) + Len(ops)
         /\ \A i \in DOMAIN steps : steps'[i] = steps[i]
         /\ \A i \in DOMAIN ops :
              steps'[Len(steps) + i] = StepOf(ops[i], c, Len(steps) + i)
         /\ \A i \in DOMAIN steps' \ DOMAIN steps : steps'[i].id = i
<1> DEFINE block == [i \in 1..Len(ops) |-> StepOf(ops[i], c, Len(steps) + i)]
<1>1. steps \in Seq(PlanStep)
  BY DEF TypeOK
<1>2. Len(steps) \in Nat /\ Len(ops) \in Nat
  BY <1>1
<1>3. \A i \in 1..Len(ops) : ops[i] \in OpNames(mode)
  OBVIOUS
<1>c. /\ c \in Nat /\ requirement[c].id \in allowed_ids
      /\ mode \in AllModes /\ allowed_ids \subseteq Nat
  BY InputTypes
<1>4. \A i \in 1..Len(ops) : GoodStep(block[i]) /\ block[i].id = Len(steps) + i
  BY <1>2, <1>3, <1>c, StepGood
<1>5. block \in Seq(PlanStep) /\ Len(block) = Len(ops)
  BY <1>2, <1>4 DEF GoodStep
<1>6. steps' = steps \o block
  BY DEF Add
<1> HIDE DEF block
<1>7. /\ steps' \in Seq(PlanStep)
      /\ Len(steps') = Len(steps) + Len(ops)
      /\ \A i \in DOMAIN steps : steps'[i] = steps[i]
      /\ \A i \in 1..Len(ops) : steps'[Len(steps) + i] = block[i]
  <2>1. /\ steps \o block \in Seq(PlanStep)
        /\ Len(steps \o block) = Len(steps) + Len(block)
    BY <1>1, <1>5
  <2>2. \A i \in DOMAIN steps : (steps \o block)[i] = steps[i]
    BY <1>1, <1>5
  <2>3. \A i \in 1..Len(block) : (steps \o block)[Len(steps) + i] = block[i]
    BY <1>1, <1>5
  <2> QED
    BY <1>5, <1>6, <2>1, <2>2, <2>3
<1>8. \A i \in DOMAIN steps' : i \in DOMAIN steps \/ \E k \in 1..Len(ops) : i = Len(steps) + k
  <2> TAKE i \in DOMAIN steps'
  <2>1. i \in 1..Len(steps) + Len(ops)
    BY <1>7
  <2>2. CASE i > Len(steps)
    <3>1. i - Len(steps) \in 1..Len(ops) /\ i = Len(steps) + (i - Len(steps))
      BY <1>2, <2>1, <2>2
    <3> QED
      BY <3>1
  <2>3. CASE i <= Len(steps)
    BY <1>1, <2>1, <2>3
  <2> QED
    BY <1>2, <2>1, <2>2, <2>3
<1>9. \A i \in DOMAIN steps' : GoodStep(steps'[i])
  BY <1>4, <1>7, <1>8 DEF StepsGood
<1>10. StepsGood'
  BY <1>9 DEF StepsGood, GoodStep, inputVars, allowed_ids
<1>11. \A i \in DOMAIN steps' \ DOMAIN steps : steps'[i].id = i
  BY <1>4, <1>7, <1>8
<1>12. \A i \in DOMAIN ops :
         steps'[Len(steps) + i] = StepOf(ops[i], c, Len(steps) + i)
  BY <1>7 DEF block
<1> QED
  BY <1>7, <1>10, <1>11, <1>12

-------------------------------------------------------------------------------
(* Its proof, a lemma per group of actions. *)

LEMMA PlannerInit == Init => PlannerInv
<1> SUFFICES ASSUME Init PROVE PlannerInv
  OBVIOUS
<1>1. TypeOK
  BY DEF Init, TypeOK, Labels
<1> QED
  BY <1>1 DEF Init, PlannerInv, StepsGood, Numbered, Routed, TypedSoFar, CompiledSoFar,
              HappyFirst

\* Steps that leave the plan, the validated steps and the proposal as they are.
LEMMA QuietStep ==
  ASSUME PlannerInv, UNCHANGED <<inputVars, typed, steps>>, TypeOK',
         Routed', TypedSoFar', CompiledSoFar',
         Numbered', HappyFirst'
  PROVE  PlannerInv'
BY DEF PlannerInv, StepsGood, GoodStep, inputVars, allowed_ids

LEMMA ChooseStep == PlannerInv /\ Choose => PlannerInv'
<1> SUFFICES ASSUME PlannerInv, Choose PROVE PlannerInv'
  OBVIOUS
<1>1. /\ pc = "build" /\ steps = <<>> /\ typed = <<>> /\ next' = 1
      /\ UNCHANGED <<inputVars, proposal, typed, steps, planner>>
      /\ \/ pc' = "parse" /\ verification # NoIr
         \/ pc' \in {"propose", "happy"} /\ verification = NoIr
  BY DEF PlannerInv, Routed, Choose, UseIr, AskModel, UseExpander, Goto
<1>2. planner = "none"
  BY <1>1 DEF PlannerInv, Routed
<1>3. TypeOK'
  BY <1>1 DEF PlannerInv, TypeOK, Labels, inputVars
<1>4. Routed' /\ TypedSoFar' /\ CompiledSoFar'
  BY <1>1, <1>2 DEF Routed, TypedSoFar, CompiledSoFar, inputVars
<1>5. Numbered' /\ HappyFirst'
  BY <1>1, <1>2 DEF Numbered, HappyFirst
<1> QED
  BY <1>1, <1>3, <1>4, <1>5, QuietStep

\* parse, validate and compile.
LEMMA CompileVerificationStep == PlannerInv /\ CompileVerification => PlannerInv'
<1> SUFFICES ASSUME PlannerInv, CompileVerification PROVE PlannerInv'
  OBVIOUS
<1> USE DEF PlannerInv
<1>1. pc \in {"parse", "validate", "compile"} /\ planner = "none" /\ verification # NoIr
  BY DEF CompileVerification, ParseVerification, ValidateStep, ValidateDone, CompileStep,
         CompileDone, Routed
<1>2. /\ steps \in Seq(PlanStep) /\ typed \in Seq(Item) /\ next \in Nat \ {0}
      /\ verification.steps \in Seq(Item)
  BY <1>1, InputTypes DEF TypeOK
<1>3. ASSUME NEW label \in {"rejected", "raised"}, Stop(label) PROVE PlannerInv'
  <2>1. /\ pc' = label /\ next' = 1
        /\ UNCHANGED <<inputVars, proposal, typed, steps, planner>>
    BY <1>3 DEF Stop, Goto
  <2>2. TypeOK'
    BY <2>1 DEF TypeOK, Labels, inputVars
  <2>3. Routed' /\ TypedSoFar' /\ CompiledSoFar' /\ Numbered' /\ HappyFirst'
    BY <1>1, <2>1 DEF Routed, TypedSoFar, CompiledSoFar, Numbered, HappyFirst, inputVars
  <2> QED
    BY <2>1, <2>2, <2>3, QuietStep
<1>4. CASE ParseVerification
  <2>1. CASE Stop("validate")
    <3>1. /\ pc = "parse" /\ pc' = "validate" /\ next' = 1
          /\ steps = <<>> /\ typed = <<>>
          /\ UNCHANGED <<inputVars, proposal, typed, steps, planner>>
      BY <1>4, <2>1 DEF ParseVerification, Stop, Goto, Routed
    <3>2. TypeOK'
      BY <3>1 DEF TypeOK, Labels, inputVars
    <3>3. Len(verification.steps) \in Nat
      BY <1>2
    <3>4. Routed' /\ TypedSoFar' /\ CompiledSoFar' /\ Numbered' /\ HappyFirst'
      BY <1>1, <3>1, <3>3 DEF Routed, TypedSoFar, CompiledSoFar, Numbered, HappyFirst, inputVars
    <3> QED
      BY <3>1, <3>2, <3>4, QuietStep
  <2> QED
    BY <1>3, <1>4, <2>1 DEF ParseVerification
<1>5. CASE ValidateStep
  <2> DEFINE item == verification.steps[next]
  <2>1. CASE Stop("rejected")
    BY <1>3, <2>1
  <2>2. CASE /\ Valid(item) /\ typed' = Append(typed, item) /\ next' = next + 1
             /\ UNCHANGED <<pc, inputVars, proposal, steps, planner>>
    <3>1. /\ pc = "validate" /\ next <= Len(verification.steps)
          /\ Len(typed) = next - 1 /\ steps = <<>>
      BY <1>5 DEF ValidateStep, TypedSoFar, Routed
    <3>2. item \in Item
      BY <1>2, <3>1
    <3>3. /\ typed' \in Seq(Item) /\ Len(typed') = next
          /\ \A i \in DOMAIN typed : typed'[i] = typed[i]
          /\ typed'[next] = item
          /\ DOMAIN typed' = DOMAIN typed \cup {next}
      BY <1>2, <2>2, <3>1, <3>2
    <3>4. TypeOK'
      BY <2>2, <3>3 DEF TypeOK, inputVars
    <3>5. \A i \in DOMAIN typed' :
            i \in DOMAIN verification.steps /\ typed'[i] = verification.steps[i]
      BY <1>1, <1>2, <3>1, <3>3 DEF TypedSoFar
    <3>6. \A i \in DOMAIN typed : typed[i].id # item.id
      BY <2>2 DEF Valid
    <3>7. \A i, j \in DOMAIN typed' : typed'[i].id = typed'[j].id => i = j
      BY <3>3, <3>6 DEF TypedSoFar
    <3>8. TypedSoFar'
      BY <1>1, <1>2, <2>2, <3>1, <3>3, <3>5, <3>7 DEF TypedSoFar, inputVars
    <3>9. Routed' /\ CompiledSoFar' /\ Numbered' /\ HappyFirst'
      BY <1>1, <2>2, <3>1 DEF Routed, CompiledSoFar, Numbered, HappyFirst, inputVars
    <3>10. StepsGood'
      BY <2>2, <3>1 DEF StepsGood
    <3> QED
      BY <3>4, <3>8, <3>9, <3>10
  <2> QED
    BY <1>5, <2>1, <2>2 DEF ValidateStep
<1>6. CASE ValidateDone
  <2>1. /\ pc = "validate" /\ pc' = "compile" /\ next' = 1 /\ steps = <<>>
        /\ next > Len(verification.steps) /\ Len(typed) = next - 1
        /\ next - 1 <= Len(verification.steps)
        /\ UNCHANGED <<inputVars, proposal, typed, steps, planner>>
    BY <1>6 DEF ValidateDone, Stop, Goto, Routed, TypedSoFar
  <2>2. Len(typed) = Len(verification.steps) /\ Len(typed) \in Nat
    BY <1>2, <2>1
  <2>3. TypeOK'
    BY <2>1 DEF TypeOK, Labels, inputVars
  <2>4. Routed' /\ Numbered' /\ HappyFirst'
    BY <1>1, <2>1 DEF Routed, Numbered, HappyFirst, inputVars
  <2>5. TypedSoFar' /\ CompiledSoFar'
    BY <1>1, <2>1, <2>2 DEF TypedSoFar, CompiledSoFar, inputVars
  <2> QED
    BY <2>1, <2>3, <2>4, <2>5, QuietStep
<1>7. CASE CompileStep
  <2> DEFINE item == typed[next]
  <2>1. CASE Stop("rejected")
    BY <1>3, <2>1
  <2>2. CASE Executable(item) /\ AppendStep(item, item.id)
    <3>1. /\ pc = "compile" /\ next <= Len(typed) /\ Len(steps) = next - 1
          /\ steps' = Append(steps, Compiled(item, item.id)) /\ next' = next + 1
          /\ UNCHANGED <<pc, inputVars, proposal, typed, planner>>
      BY <1>7, <2>2 DEF CompileStep, AppendStep, CompiledSoFar
    <3>2. item \in Item /\ item.id \in Nat
      <4>1. item \in Item
        BY <1>2, <3>1
      <4> QED
        BY <4>1 DEF Item
    <3>3. GoodStep(Compiled(item, item.id))
      BY <2>2, <3>2, CompiledGood
    <3>4. /\ steps' \in Seq(PlanStep) /\ Len(steps') = next
          /\ \A i \in DOMAIN steps : steps'[i] = steps[i]
          /\ steps'[next] = Compiled(item, item.id)
          /\ DOMAIN steps' = DOMAIN steps \cup {next}
      BY <1>2, <3>1, <3>3 DEF GoodStep
    <3>5. TypeOK'
      BY <1>2, <3>1, <3>4 DEF TypeOK, inputVars
    <3>6. \A i \in DOMAIN steps' : GoodStep(steps'[i])
      BY <3>3, <3>4 DEF StepsGood
    <3>7. StepsGood'
      BY <3>1, <3>6 DEF StepsGood, GoodStep, inputVars, allowed_ids
    <3>8. Routed' /\ Numbered' /\ HappyFirst' /\ TypedSoFar'
      BY <1>1, <3>1 DEF Routed, Numbered, HappyFirst, TypedSoFar, inputVars
    <3>9. CompiledSoFar'
      BY <1>1, <1>2, <3>1, <3>4 DEF CompiledSoFar
    <3> QED
      BY <3>5, <3>7, <3>8, <3>9
  <2> QED
    BY <1>7, <2>1, <2>2 DEF CompileStep
<1>8. CASE CompileDone
  <2>1. /\ pc = "compile" /\ next > Len(typed) /\ pc' = "done" /\ planner' = "ir" /\ next' = 1
        /\ UNCHANGED <<inputVars, proposal, typed, steps>>
    BY <1>8 DEF CompileDone, Return, Goto
  <2>2. Len(steps) = Len(typed)
    BY <1>2, <2>1 DEF CompiledSoFar
  <2>3. TypeOK'
    BY <2>1 DEF TypeOK, Labels, inputVars
  <2>4. Routed' /\ Numbered' /\ HappyFirst'
    BY <1>1, <2>1 DEF Routed, Numbered, HappyFirst, inputVars
  <2>5. TypedSoFar' /\ CompiledSoFar'
    BY <1>1, <2>1, <2>2 DEF TypedSoFar, CompiledSoFar, inputVars
  <2> QED
    BY <2>1, <2>3, <2>4, <2>5, QuietStep
<1> QED
  BY <1>4, <1>5, <1>6, <1>7, <1>8 DEF CompileVerification

LEMMA FallBackStep ==
  ASSUME PlannerInv, pc \in {"propose", "sanitize"}, FallBack
  PROVE  PlannerInv'
<1>1. /\ steps' = <<>> /\ pc' = "happy" /\ next' = 1 /\ planner = "none"
      /\ verification = NoIr
      /\ UNCHANGED <<inputVars, proposal, typed, planner>>
  BY DEF FallBack, Goto, PlannerInv, Routed
<1>2. TypeOK'
  BY <1>1 DEF PlannerInv, TypeOK, Labels, inputVars
<1>3. Routed' /\ Numbered' /\ HappyFirst' /\ StepsGood' /\ CompiledSoFar'
  BY <1>1 DEF Routed, Numbered, HappyFirst, StepsGood, CompiledSoFar, inputVars
<1>4. TypedSoFar'
  BY <1>1 DEF PlannerInv, TypedSoFar, inputVars
<1> QED
  BY <1>2, <1>3, <1>4 DEF PlannerInv

LEMMA SanitizePlanStep == PlannerInv /\ SanitizePlan => PlannerInv'
<1> SUFFICES ASSUME PlannerInv, SanitizePlan PROVE PlannerInv'
  OBVIOUS
<1> USE DEF PlannerInv
<1>1. pc \in {"propose", "sanitize"} /\ planner = "none" /\ verification = NoIr
  BY DEF SanitizePlan, Propose, ProposeFails, SanitizeStep, SanitizeDone, Routed
<1>2. steps \in Seq(PlanStep) /\ next \in Nat \ {0} /\ proposal \in Seq(Item)
  BY InputTypes DEF TypeOK
<1>3. CASE Propose
  <2>1. /\ pc = "propose" /\ pc' = "sanitize" /\ next' = 1 /\ steps = <<>>
        /\ proposal' \in Proposals
        /\ UNCHANGED <<inputVars, typed, steps, planner>>
    BY <1>3 DEF Propose, Goto, Routed
  <2>2. TypeOK'
    BY <2>1 DEF TypeOK, Labels, inputVars
  <2>3. Routed' /\ Numbered' /\ HappyFirst' /\ TypedSoFar' /\ CompiledSoFar'
    BY <1>1, <2>1 DEF Routed, Numbered, HappyFirst, TypedSoFar, CompiledSoFar, inputVars
  <2> QED
    BY <2>1, <2>2, <2>3, QuietStep
<1>4. CASE SanitizeStep
  <2> DEFINE item == proposal[next]
  <2>1. CASE FallBack
    BY <1>1, <2>1, FallBackStep
  <2>2. CASE SkipStep
    <3>1. /\ pc = "sanitize" /\ next' = next + 1
          /\ UNCHANGED <<pc, inputVars, proposal, typed, steps, planner>>
      BY <1>4, <2>2 DEF SanitizeStep, SkipStep
    <3>2. TypeOK'
      BY <1>2, <3>1 DEF TypeOK, inputVars
    <3>3. Routed' /\ Numbered' /\ HappyFirst' /\ TypedSoFar' /\ CompiledSoFar'
      BY <1>1, <3>1 DEF Routed, Numbered, HappyFirst, TypedSoFar, CompiledSoFar, inputVars
    <3> QED
      BY <3>1, <3>2, <3>3, QuietStep
  <2>3. CASE Executable(item) /\ AppendStep(item, Len(steps) + 1)
    <3>1. /\ pc = "sanitize" /\ next <= Len(proposal)
          /\ steps' = Append(steps, Compiled(item, Len(steps) + 1)) /\ next' = next + 1
          /\ UNCHANGED <<pc, inputVars, proposal, typed, planner>>
      BY <1>4, <2>3 DEF SanitizeStep, AppendStep
    <3>2. item \in Item /\ Len(steps) + 1 \in Nat
      BY <1>2, <3>1
    <3>3. /\ GoodStep(Compiled(item, Len(steps) + 1))
          /\ Compiled(item, Len(steps) + 1).id = Len(steps) + 1
      BY <2>3, <3>2, CompiledGood
    <3>4. /\ steps' \in Seq(PlanStep)
          /\ \A i \in DOMAIN steps : steps'[i] = steps[i]
          /\ steps'[Len(steps) + 1] = Compiled(item, Len(steps) + 1)
          /\ DOMAIN steps' = DOMAIN steps \cup {Len(steps) + 1}
      BY <1>2, <3>1, <3>3 DEF GoodStep
    <3>5. TypeOK'
      BY <1>2, <3>1, <3>4 DEF TypeOK, inputVars
    <3>6. \A i \in DOMAIN steps' : GoodStep(steps'[i])
      BY <3>3, <3>4 DEF StepsGood
    <3>7. StepsGood'
      BY <3>1, <3>6 DEF StepsGood, GoodStep, inputVars, allowed_ids
    <3>8. Numbered'
      BY <3>1, <3>3, <3>4 DEF Numbered
    <3>9. Routed' /\ HappyFirst' /\ TypedSoFar' /\ CompiledSoFar'
      BY <1>1, <3>1 DEF Routed, HappyFirst, TypedSoFar, CompiledSoFar, inputVars
    <3> QED
      BY <3>5, <3>7, <3>8, <3>9
  <2> QED
    BY <1>4, <2>1, <2>2, <2>3 DEF SanitizeStep
<1>5. CASE SanitizeDone
  <2>1. CASE FallBack
    BY <1>1, <2>1, FallBackStep
  <2>2. CASE Return("llm") /\ steps' = steps
    <3>1. /\ pc = "sanitize" /\ pc' = "done" /\ planner' = "llm" /\ next' = 1
          /\ UNCHANGED <<inputVars, proposal, typed, steps>>
      BY <1>5, <2>2 DEF SanitizeDone, Return, Goto
    <3>2. TypeOK'
      BY <3>1 DEF TypeOK, Labels, inputVars
    <3>3. Routed' /\ Numbered' /\ HappyFirst' /\ TypedSoFar' /\ CompiledSoFar'
      BY <1>1, <3>1 DEF Routed, Numbered, HappyFirst, TypedSoFar, CompiledSoFar, inputVars
    <3> QED
      BY <3>1, <3>2, <3>3, QuietStep
  <2> QED
    BY <1>5, <2>1, <2>2 DEF SanitizeDone
<1> QED
  BY <1>1, <1>3, <1>4, <1>5, FallBackStep DEF SanitizePlan, ProposeFails

LEMMA ExpandStep == PlannerInv /\ Expand => PlannerInv'
<1> SUFFICES ASSUME PlannerInv, Expand PROVE PlannerInv'
  OBVIOUS
<1> USE DEF PlannerInv
<1>1. /\ pc \in {"happy", "sessions", "rest"} /\ planner = "none" /\ verification = NoIr
      /\ UNCHANGED <<inputVars, proposal, typed>>
  BY DEF Expand, ExpandHappy, ExpandRaises, ExpandOne, SessionsDone, ExpandDone, Return, Stop,
    Routed
<1>2. steps \in Seq(PlanStep) /\ next \in Nat \ {0} /\ requirement \in Seq(Constraint)
  BY InputTypes DEF TypeOK
<1>3. CASE ExpandHappy
  <2>1. /\ pc = "happy" /\ steps = <<>> /\ pc' = "sessions" /\ next' = 2
        /\ planner' = planner /\ Add(HappyOps[mode], 1)
    BY <1>3, InputTypes DEF ExpandHappy, Routed
  <2>2. HappyOps[mode] \in Seq(OpNames(mode)) /\ 1 \in DOMAIN requirement
    BY HappyNames, InputTypes
  <2>3. /\ steps' \in Seq(PlanStep) /\ StepsGood'
        /\ Len(steps') = Len(HappyOps[mode])
        /\ \A i \in DOMAIN HappyOps[mode] : steps'[i] = StepOf(HappyOps[mode][i], 1, i)
        /\ \A i \in DOMAIN steps' : steps'[i].id = i
    <3>1. /\ steps' \in Seq(PlanStep) /\ StepsGood'
          /\ Len(steps') = Len(steps) + Len(HappyOps[mode])
          /\ \A i \in DOMAIN HappyOps[mode] :
               steps'[Len(steps) + i] = StepOf(HappyOps[mode][i], 1, Len(steps) + i)
          /\ \A i \in DOMAIN steps' \ DOMAIN steps : steps'[i].id = i
      BY <1>1, <2>1, <2>2, AddGood
    <3>2. /\ Len(steps) = 0 /\ DOMAIN steps = {}
          /\ Len(HappyOps[mode]) \in Nat
          /\ \A i \in DOMAIN HappyOps[mode] : 0 + i = i
      BY <2>1, <2>2
    <3> QED
      BY <3>1, <3>2
  <2>4. DOMAIN steps' = DOMAIN HappyOps[mode]
    BY <2>2, <2>3
  <2>5. TypeOK'
    BY <1>1, <2>1, <2>3 DEF TypeOK, Labels, inputVars
  <2>6. HappyFirst'
    BY <1>1, <2>3, <2>4 DEF HappyFirst, StepOf, inputVars
  <2>7. Routed' /\ Numbered' /\ TypedSoFar' /\ CompiledSoFar'
    BY <1>1, <2>1, <2>3 DEF Routed, Numbered, TypedSoFar, CompiledSoFar, inputVars
  <2> QED
    BY <2>3, <2>5, <2>6, <2>7
<1>4. CASE ExpandOne
  <2> DEFINE c == requirement[next]
  <2>1. /\ pc \in {"sessions", "rest"} /\ next <= Len(requirement) /\ next' = next + 1
        /\ UNCHANGED <<pc, planner>>
    BY <1>4 DEF ExpandOne
  <2>2. TypeOK' <=> steps' \in Seq(PlanStep)
    BY <1>1, <1>2, <2>1 DEF TypeOK, inputVars
  <2>3. Routed' /\ TypedSoFar' /\ CompiledSoFar'
    BY <1>1, <2>1 DEF Routed, TypedSoFar, CompiledSoFar, inputVars
  <2>4. CASE Add(OpsOf(c), next)
    <3>1. next \in DOMAIN requirement
      BY <1>2, <2>1
    <3>2. c \in Constraint /\ c.id \in allowed_ids
      BY <1>2, <3>1, InputTypes
    <3>3. OpsOf(c) \in Seq(OpNames(mode))
      BY <3>2, OpsNames, InputTypes
    <3>4. /\ steps' \in Seq(PlanStep) /\ StepsGood'
          /\ Len(steps') = Len(steps) + Len(OpsOf(c))
          /\ \A i \in DOMAIN steps : steps'[i] = steps[i]
          /\ \A i \in DOMAIN steps' \ DOMAIN steps : steps'[i].id = i
      BY <1>1, <2>4, <3>1, <3>3, AddGood
    <3>5. DOMAIN steps \subseteq DOMAIN steps'
      BY <1>2, <3>3, <3>4
    <3>6. Numbered' /\ HappyFirst'
      BY <1>1, <2>1, <3>4, <3>5 DEF Numbered, HappyFirst, StepOf, inputVars
    <3> QED
      BY <2>2, <2>3, <3>4, <3>6
  <2>5. CASE steps' = steps
    <3>1. Numbered' /\ HappyFirst'
      BY <1>1, <2>1, <2>5 DEF Numbered, HappyFirst, StepOf, inputVars
    <3> QED
      BY <1>1, <1>2, <2>2, <2>3, <2>5, <3>1, QuietStep
  <2> QED
    BY <1>4, <2>4, <2>5 DEF ExpandOne
<1>5. CASE SessionsDone \/ ExpandDone
  <2>1. /\ pc \in {"sessions", "rest"} /\ steps' = steps /\ next' \in {1, 2}
        /\ \/ pc' = "rest" /\ planner' = planner
           \/ pc' = "done" /\ planner' = "deterministic"
    BY <1>5 DEF SessionsDone, ExpandDone, Return, Goto
  <2>2. TypeOK'
    BY <1>1, <2>1 DEF TypeOK, Labels, inputVars
  <2>3. Routed' /\ Numbered' /\ HappyFirst' /\ TypedSoFar' /\ CompiledSoFar'
    BY <1>1, <2>1 DEF Routed, Numbered, HappyFirst, StepOf, TypedSoFar, CompiledSoFar, inputVars
  <2> QED
    BY <1>1, <2>1, <2>2, <2>3, QuietStep
<1>6. CASE ExpandRaises
  <2>1. /\ pc' = "raised" /\ next' = 1
        /\ UNCHANGED <<inputVars, proposal, typed, steps, planner>>
    BY <1>6 DEF ExpandRaises, Stop, Goto
  <2>2. TypeOK'
    BY <2>1 DEF TypeOK, Labels, inputVars
  <2>3. Routed' /\ TypedSoFar' /\ CompiledSoFar' /\ Numbered' /\ HappyFirst'
    BY <1>1, <2>1 DEF Routed, TypedSoFar, CompiledSoFar, Numbered, HappyFirst, inputVars
  <2> QED
    BY <2>1, <2>2, <2>3, QuietStep
<1> QED
  BY <1>3, <1>4, <1>5, <1>6 DEF Expand

LEMMA PlannerNext == PlannerInv /\ [Next]_vars => PlannerInv'
<1> SUFFICES ASSUME PlannerInv, [Next]_vars PROVE PlannerInv'
  OBVIOUS
<1>1. CASE UNCHANGED vars
  <2>1. UNCHANGED <<pc, inputVars, proposal, next, typed, steps, planner>>
    BY <1>1 DEF vars
  <2>2. TypeOK' /\ Routed' /\ Numbered' /\ HappyFirst' /\ TypedSoFar' /\ CompiledSoFar'
    BY <2>1 DEF PlannerInv, TypeOK, Routed, Numbered, HappyFirst, StepOf, TypedSoFar,
                CompiledSoFar, inputVars
  <2> QED
    BY <2>1, <2>2, QuietStep
<1> QED
  BY <1>1, ChooseStep, CompileVerificationStep, SanitizePlanStep, ExpandStep DEF Next

LEMMA PlannerInvariant == Spec => []PlannerInv
<1> QED
  BY PlannerInit, PlannerNext, PTL DEF Spec

-------------------------------------------------------------------------------
(* The results. *)

\* Type correctness of build_plan() (llm.py:205-244 and what it calls).
THEOREM PlannerTypeCorrect == Spec => []TypeOK
<1>1. PlannerInv => TypeOK
  BY DEF PlannerInv
<1> QED
  BY <1>1, PlannerInvariant, PTL

\* No planner returns a step its runner would not execute, a constraint nobody
\* declared, or a step id twice (ir.py:118-220, llm.py:155-190, planning.py).
THEOREM ExecutableStands == Spec => []PlanIsExecutable
<1>1. PlannerInv => PlanIsExecutable
  <2> SUFFICES ASSUME PlannerInv, Planned, NEW i \in DOMAIN steps
               PROVE  /\ GoodStep(steps[i])
                      /\ \A j \in DOMAIN steps : steps[j].id = steps[i].id => j = i
    BY DEF PlanIsExecutable, GoodStep
  <2>1. GoodStep(steps[i])
    BY DEF PlannerInv, StepsGood
  <2>2. planner \in {"ir", "llm", "deterministic"}
    BY DEF PlannerInv, TypeOK, Routed, Planned
  <2>3. CASE planner = "ir"
    <3>1. \A j \in DOMAIN steps : j \in DOMAIN typed /\ steps[j].id = typed[j].id
      BY <2>3 DEF PlannerInv, CompiledSoFar, Compiled
    <3> QED
      BY <2>1, <3>1 DEF PlannerInv, TypedSoFar
  <2>4. CASE planner # "ir"
    BY <2>1, <2>2, <2>4 DEF PlannerInv, Numbered
  <2> QED
    BY <2>3, <2>4
<1> QED
  BY <1>1, PlannerInvariant, PTL

\* A declared verification block is compiled step by step, or refused; nothing
\* else plans in its place (llm.py:217-218, ir.py:278-400).
THEOREM IrStands == Spec => []DeclaredIrDecides
<1>1. PlannerInv => DeclaredIrDecides
  <2> SUFFICES ASSUME PlannerInv, Planned, verification # NoIr
               PROVE  /\ planner = "ir"
                      /\ Len(steps) = Len(verification.steps)
                      /\ \A i \in DOMAIN steps :
                           steps[i] = Compiled(verification.steps[i], verification.steps[i].id)
    BY DEF DeclaredIrDecides
  <2>1. planner = "ir"
    BY DEF PlannerInv, TypeOK, Routed, Planned
  <2> QED
    BY <2>1 DEF PlannerInv, TypedSoFar, CompiledSoFar
<1> QED
  BY <1>1, PlannerInvariant, PTL

\* A fallback plan is the expander's from the first step on (llm.py:239-244).
THEOREM FallbackStands == Spec => []FallbackStartsOver
<1>1. PlannerInv => FallbackStartsOver
  BY DEF PlannerInv, HappyFirst, FallbackStartsOver
<1> QED
  BY <1>1, PlannerInvariant, PTL
-------------------------------------------------------------------------------
(* What a block of the expander is made of. *)

\* A check stands right behind its operation, or behind another check that does,
\* and looks at the channel that operation used.
OwnBlock(ops) ==
  \A i \in DOMAIN ops : ops[i] \in Checks \ {"unsupported_constraint"} =>
    \E d \in {1, 2} :
      /\ i > d /\ ops[i - d] \notin Checks
      /\ d = 2 => ops[i - 1] \in Checks
      /\ ops[i - d] = "sql_query" <=> ops[i] = "cell_equals"

\* It has a check at all.
CheckedBlock(ops) == \E i \in DOMAIN ops : ops[i] \in Checks

\* Operations that leave the page or the session the happy path has ended in.
Away == {"navigate", "clear_cookies"}

LEMMA CheckNames ==
  Checks = {"url_contains", "text_contains", "status_equals", "json_contains", "cell_equals",
            "unsupported_constraint"}
BY DEF Checks, ALLOWED_CHECKS

LEMMA HappyBlock ==
  ASSUME NEW m \in AllModes
  PROVE  /\ OwnBlock(HappyOps[m]) /\ CheckedBlock(HappyOps[m])
         /\ \A i \in DOMAIN HappyOps[m] : HappyOps[m][i] # "reload"
         /\ \A i \in DOMAIN HappyOps[m] : i > 1 => HappyOps[m][i] \notin Away
<1>1. CASE m = "browser"
  <2>1. HappyOps["browser"] =
          <<"navigate", "fill", "fill", "click", "url_contains", "text_contains",
            "fill", "fill", "click", "url_contains", "text_contains">>
    BY DEF HappyOps
  <2> QED
    BY <1>1, <2>1, CheckNames DEF OwnBlock, CheckedBlock, Away
<1>2. CASE m = "api"
  <2>1. HappyOps["api"] =
          <<"http_request", "status_equals", "http_request", "status_equals",
            "http_request", "status_equals", "json_contains">>
    BY DEF HappyOps
  <2> QED
    BY <1>2, <2>1, CheckNames DEF OwnBlock, CheckedBlock, Away
<1>3. CASE m = "state"
  <2>1. HappyOps["state"] = <<"http_request", "status_equals", "http_request", "status_equals">>
    BY DEF HappyOps
  <2> QED
    BY <1>3, <2>1, CheckNames DEF OwnBlock, CheckedBlock, Away
<1> QED
  BY <1>1, <1>2, <1>3 DEF AllModes

\* What is asked of the block of a constraint other than the first.
FitBlock(ops) ==
  /\ OwnBlock(ops) /\ CheckedBlock(ops)
  /\ \A i \in DOMAIN ops : ops[i] # "reload"

LEMMA FitBlocks ==
  /\ FitBlock(<<"unsupported_constraint">>)
  /\ FitBlock(<<"navigate", "fill", "fill", "click", "text_contains">>)
  /\ FitBlock(<<"clear_cookies", "navigate", "url_contains">>)
  /\ FitBlock(<<"http_request", "status_equals", "json_contains">>)
  /\ FitBlock(<<"http_request", "status_equals">>)
  /\ FitBlock(<<"sql_query", "cell_equals">>)
  /\ FitBlock(<<"http_request", "status_equals", "sql_query", "cell_equals">>)
<1>1. FitBlock(<<"unsupported_constraint">>)
  BY CheckNames DEF FitBlock, OwnBlock, CheckedBlock
<1>2. FitBlock(<<"navigate", "fill", "fill", "click", "text_contains">>)
  BY CheckNames DEF FitBlock, OwnBlock, CheckedBlock
<1>3. FitBlock(<<"clear_cookies", "navigate", "url_contains">>)
  BY CheckNames DEF FitBlock, OwnBlock, CheckedBlock
<1>4. FitBlock(<<"http_request", "status_equals", "json_contains">>)
  BY CheckNames DEF FitBlock, OwnBlock, CheckedBlock
<1>5. FitBlock(<<"http_request", "status_equals">>)
  BY CheckNames DEF FitBlock, OwnBlock, CheckedBlock
<1>6. FitBlock(<<"sql_query", "cell_equals">>)
  BY CheckNames DEF FitBlock, OwnBlock, CheckedBlock
<1>7. FitBlock(<<"http_request", "status_equals", "sql_query", "cell_equals">>)
  BY CheckNames DEF FitBlock, OwnBlock, CheckedBlock
<1> QED
  BY <1>1, <1>2, <1>3, <1>4, <1>5, <1>6, <1>7

\* The block of a session constraint.
SessionBlock(ops) ==
  /\ OwnBlock(ops) /\ CheckedBlock(ops)
  /\ \A i \in DOMAIN ops : ops[i] \notin Away

LEMMA SessionBlocks ==
  /\ SessionBlock(SessionOps["browser"])
  /\ SessionBlock(SessionOps["api"])
<1>1. SessionOps["browser"] = <<"reload", "url_contains", "text_contains">>
      /\ SessionOps["api"] = <<"http_request", "status_equals", "json_contains">>
  BY DEF SessionOps
<1>2. SessionBlock(<<"reload", "url_contains", "text_contains">>)
  BY CheckNames DEF SessionBlock, OwnBlock, CheckedBlock, Away
<1>3. SessionBlock(<<"http_request", "status_equals", "json_contains">>)
  BY CheckNames DEF SessionBlock, OwnBlock, CheckedBlock, Away
<1> QED
  BY <1>1, <1>2, <1>3

LEMMA OpsBlock ==
  ASSUME mode \in AllModes, NEW c
  PROVE  IF Session(c) THEN SessionBlock(OpsOf(c)) ELSE FitBlock(OpsOf(c))
<1>1. CASE Session(c)
  <2>1. mode \in {"browser", "api"} /\ OpsOf(c) = SessionOps[mode]
    BY <1>1 DEF Session, OpsOf, AllModes
  <2> QED
    BY <1>1, <2>1, SessionBlocks
<1>2. CASE ~Session(c)
  <2>1. OpsOf(c) \in {BrowserOps(c), ApiOps(c), StateOps(c)}
    BY <1>2 DEF OpsOf, AllModes
  <2>2. FitBlock(BrowserOps(c))
    BY FitBlocks, Zenon DEF BrowserOps
  <2>3. FitBlock(ApiOps(c))
    BY FitBlocks, Zenon DEF ApiOps
  <2>4. FitBlock(StateOps(c))
    BY FitBlocks, Zenon DEF StateOps
  <2> QED
    BY <1>2, <2>1, <2>2, <2>3, <2>4
<1> QED
  BY <1>1, <1>2

-------------------------------------------------------------------------------
(* What the expander has planned so far. *)

Expanding == pc \in {"sessions", "rest"} \/ planner = "deterministic"

\* Every assert of s that was planned for is judged on an operation of its own
\* constraint, and on its channel.
OwnSteps(s) ==
  \A i \in DOMAIN s :
    s[i].kind = "assert" /\ s[i].check # "unsupported_constraint" =>
      \E j \in 1..i - 1 :
        /\ s[j].kind # "assert" /\ \A k \in j + 1..i - 1 : s[k].kind = "assert"
        /\ s[j].for = s[i].for
        /\ s[j].kind = "sql_query" <=> s[i].check = "cell_equals"

\* No step of s before a reload leaves the page; while sessions are planned no
\* step does.
InPlace ==
  /\ Expanding => \A i \in DOMAIN steps : steps[i].kind = "reload" =>
                    \A j \in 2..i - 1 : steps[j].kind \notin Away
  /\ pc = "sessions" => \A j \in DOMAIN steps : j > 1 => steps[j].kind \notin Away

\* The constraints, by their place in requirements.yaml, that have been planned.
Handled ==
  {i \in DOMAIN requirement :
     \/ i = 1
     \/ pc = "sessions" /\ i < next /\ Session(requirement[i])
     \/ pc = "rest" /\ (i < next \/ Session(requirement[i]))
     \/ pc = "done"}

\* The constraint at place c has an assert in s.
Checked(c, s) ==
  \E i \in DOMAIN s : s[i].for = c /\ s[i].cid = requirement[c].id /\ s[i].kind = "assert"

CheckedSoFar == Expanding => \A c \in Handled : Checked(c, steps)

OwnSoFar == Expanding => OwnSteps(steps)

ExpanderInv == OwnSoFar /\ InPlace /\ CheckedSoFar

LEMMA ExpanderInit == Init => ExpanderInv
BY DEF Init, ExpanderInv, OwnSoFar, InPlace, CheckedSoFar, Expanding

\* The expander is at work in its own steps only.
LEMMA ExpanderShape ==
  ASSUME PlannerInv, [Next]_vars, Expanding'
  PROVE  \/ ExpandHappy /\ pc' = "sessions" /\ steps = <<>>
         \/ ExpandOne /\ pc' = pc /\ Expanding
         \/ SessionsDone /\ Expanding
         \/ ExpandDone /\ Expanding
         \/ UNCHANGED vars /\ Expanding
<1>1. planner = "none" <=> pc # "done"
  BY DEF PlannerInv, Routed
<1>2. CASE Choose
  BY <1>1, <1>2 DEF Choose, UseIr, AskModel, UseExpander, Goto, Expanding
<1>3. CASE CompileVerification
  BY <1>1, <1>3 DEF CompileVerification, ParseVerification, ValidateStep, ValidateDone,
    CompileStep, CompileDone, Stop, AppendStep, Return, Goto, Expanding
<1>4. CASE SanitizePlan
  BY <1>1, <1>4 DEF SanitizePlan, Propose, ProposeFails, SanitizeStep, SanitizeDone, FallBack,
    SkipStep, AppendStep, Return, Goto, Expanding
<1>5. CASE Expand
  BY <1>1, <1>5 DEF Expand, ExpandHappy, ExpandRaises, ExpandOne, SessionsDone, ExpandDone, Stop,
    Goto, Expanding, PlannerInv, Routed
<1>6. CASE UNCHANGED vars
  BY <1>6 DEF vars, Expanding
<1> QED
  BY <1>2, <1>3, <1>4, <1>5, <1>6 DEF Next

\* One name of a block becomes one step.
LEMMA StepKind ==
  ASSUME NEW op, NEW c, NEW n
  PROVE  /\ StepOf(op, c, n).for = c /\ StepOf(op, c, n).cid = requirement[c].id
         /\ op \in Checks => StepOf(op, c, n).kind = "assert" /\ StepOf(op, c, n).check = op
         /\ op \notin Checks => StepOf(op, c, n).kind = op
BY DEF StepOf

\* add() turns a name into an assert when it is a check, and never otherwise.
LEMMA AssertIsNoName == mode \in AllModes => "assert" \notin OpNames(mode)
<1>1. mode \in AllModes => "assert" \notin ALLOWED_CHECKS[mode]
  BY DEF ALLOWED_CHECKS, AllModes
<1> QED
  BY <1>1 DEF OpNames

\* A block appended, name by name.
Appended(ops, c) ==
  /\ mode \in AllModes
  /\ steps \in Seq(PlanStep) /\ steps' \in Seq(PlanStep) /\ ops \in Seq(OpNames(mode))
  /\ Len(steps') = Len(steps) + Len(ops)
  /\ \A i \in DOMAIN steps : steps'[i] = steps[i]
  /\ \A i \in DOMAIN ops :
       steps'[Len(steps) + i] = StepOf(ops[i], c, Len(steps) + i)

\* Where a step of the longer plan comes from.
LEMMA AppendedWhere ==
  ASSUME NEW ops, NEW c, Appended(ops, c), NEW i \in DOMAIN steps'
  PROVE  i \in DOMAIN steps \/ \E k \in DOMAIN ops : i = Len(steps) + k
<1>1. i \in 1..Len(steps) + Len(ops) /\ Len(steps) \in Nat /\ Len(ops) \in Nat
  BY DEF Appended
<1>2. CASE i > Len(steps)
  <2>1. i - Len(steps) \in 1..Len(ops) /\ i = Len(steps) + (i - Len(steps))
    BY <1>1, <1>2
  <2> QED
    BY <2>1 DEF Appended
<1>3. CASE i <= Len(steps)
  BY <1>1, <1>3 DEF Appended
<1> QED
  BY <1>1, <1>2, <1>3

\* A block with its own operations keeps every assert with its operation.
LEMMA AppendedOwn ==
  ASSUME NEW ops, NEW c, Appended(ops, c), OwnBlock(ops), OwnSteps(steps)
  PROVE  OwnSteps(steps')
<1> SUFFICES ASSUME NEW i \in DOMAIN steps', steps'[i].kind = "assert",
                    steps'[i].check # "unsupported_constraint"
             PROVE  \E j \in 1..i - 1 :
                      /\ steps'[j].kind # "assert"
                      /\ \A k \in j + 1..i - 1 : steps'[k].kind = "assert"
                      /\ steps'[j].for = steps'[i].for
                      /\ steps'[j].kind = "sql_query" <=> steps'[i].check = "cell_equals"
  BY DEF OwnSteps
<1>1. Len(steps) \in Nat /\ Len(ops) \in Nat /\ DOMAIN steps = 1..Len(steps) /\ DOMAIN ops = 1..Len(ops)
  BY DEF Appended
<1>2. CASE i \in DOMAIN steps
  <2>1. \A k \in 1..i : k \in DOMAIN steps /\ steps'[k] = steps[k]
    BY <1>1, <1>2 DEF Appended
  <2>2. steps'[i] = steps[i] /\ i \in Nat
    BY <1>1, <1>2, <2>1
  <2>3. PICK j \in 1..i - 1 :
          /\ steps[j].kind # "assert" /\ \A k \in j + 1..i - 1 : steps[k].kind = "assert"
          /\ steps[j].for = steps[i].for
          /\ steps[j].kind = "sql_query" <=> steps[i].check = "cell_equals"
    BY <1>2, <2>2 DEF OwnSteps
  <2> QED
    BY <2>1, <2>2, <2>3
<1>3. CASE i \notin DOMAIN steps
  <2>1. PICK k \in DOMAIN ops : i = Len(steps) + k
    BY <1>3, AppendedWhere
  <2>2. steps'[i] = StepOf(ops[k], c, i)
    BY <2>1 DEF Appended
  <2>3. ops[k] \in Checks \ {"unsupported_constraint"}
    <3>1. ops[k] \in OpNames(mode)
      BY <2>1 DEF Appended
    <3> QED
      BY <2>2, <3>1, AssertIsNoName, StepKind DEF Appended
  <2>4. steps'[i].for = c /\ steps'[i].check = ops[k]
    BY <2>2, <2>3, StepKind
  <2>5. PICK d \in {1, 2} :
          /\ k > d /\ ops[k - d] \notin Checks
          /\ d = 2 => ops[k - 1] \in Checks
          /\ ops[k - d] = "sql_query" <=> ops[k] = "cell_equals"
    BY <2>1, <2>3 DEF OwnBlock
  <2>6. \A b \in 1..k - 1 : b \in DOMAIN ops /\ steps'[Len(steps) + b] = StepOf(ops[b], c, Len(steps) + b)
    <3> TAKE b \in 1..k - 1
    <3>1. b \in DOMAIN ops
      BY <1>1, <2>1
    <3> QED
      BY <3>1 DEF Appended
  <2>7. k - d \in 1..k - 1 /\ i - d = Len(steps) + (k - d) /\ i - d \in 1..i - 1
    BY <1>1, <2>1, <2>5
  <2>8. /\ steps'[i - d].kind = ops[k - d]
        /\ steps'[i - d].for = c
    BY <2>5, <2>6, <2>7, StepKind
  <2>9. steps'[i - d].kind # "assert"
    <3>1. k - d \in DOMAIN ops
      BY <2>6, <2>7
    <3>2. ops[k - d] \in OpNames(mode)
      BY <3>1 DEF Appended
    <3> QED
      BY <2>8, <3>2, AssertIsNoName DEF Appended
  <2>10. \A b \in i - d + 1..i - 1 : steps'[b].kind = "assert"
    <3>1. CASE d = 1
      BY <1>1, <2>1, <3>1
    <3>2. CASE d = 2
      <4>1. \A b \in i - d + 1..i - 1 : b = Len(steps) + (k - 1)
        BY <1>1, <2>1, <3>2
      <4>2. k - 1 \in 1..k - 1
        BY <1>1, <2>1, <2>5
      <4> QED
        BY <2>5, <2>6, <3>2, <4>1, <4>2, StepKind
    <3> QED
      BY <3>1, <3>2
  <2> QED
    BY <2>4, <2>5, <2>7, <2>8, <2>9, <2>10
<1> QED
  BY <1>2, <1>3

LEMMA AppendedKind ==
  ASSUME NEW ops, NEW c, Appended(ops, c), NEW k \in DOMAIN ops
  PROVE  steps'[Len(steps) + k].kind \in {"assert", ops[k]}
BY StepKind DEF Appended

\* A block without reload, or one that moves nowhere, keeps every reload in place.
LEMMA AppendedPlace ==
  ASSUME NEW ops, NEW c, Appended(ops, c),
         \A i \in DOMAIN steps : steps[i].kind = "reload" =>
           \A j \in 2..i - 1 : steps[j].kind \notin Away,
         \/ \A k \in DOMAIN ops : ops[k] # "reload"
         \/ /\ \A k \in DOMAIN ops : ops[k] \notin Away
            /\ \A j \in DOMAIN steps : j > 1 => steps[j].kind \notin Away
  PROVE  \A i \in DOMAIN steps' : steps'[i].kind = "reload" =>
           \A j \in 2..i - 1 : steps'[j].kind \notin Away
<1> SUFFICES ASSUME NEW i \in DOMAIN steps', steps'[i].kind = "reload", NEW j \in 2..i - 1
             PROVE  steps'[j].kind \notin Away
  OBVIOUS
<1>1. /\ Len(steps) \in Nat /\ DOMAIN steps = 1..Len(steps)
      /\ Len(steps') \in Nat /\ DOMAIN steps' = 1..Len(steps')
  BY DEF Appended
<1>2. CASE i \in DOMAIN steps
  <2>1. j \in DOMAIN steps
    BY <1>1, <1>2
  <2> QED
    BY <1>2, <2>1 DEF Appended
<1>3. CASE i \notin DOMAIN steps
  <2>1. PICK k \in DOMAIN ops : i = Len(steps) + k
    BY <1>3, AppendedWhere
  <2>2. ops[k] = "reload"
    BY <2>1, AppendedKind
  <2>3. /\ \A b \in DOMAIN ops : ops[b] \notin Away
        /\ \A b \in DOMAIN steps : b > 1 => steps[b].kind \notin Away
    BY <2>2
  <2>4. j \in DOMAIN steps' /\ j > 1
    BY <1>1
  <2>5. CASE j \in DOMAIN steps
    BY <2>3, <2>4, <2>5 DEF Appended
  <2>6. CASE j \notin DOMAIN steps
    <3>1. PICK b \in DOMAIN ops : j = Len(steps) + b
      BY <2>4, <2>6, AppendedWhere
    <3> QED
      BY <2>3, <3>1, AppendedKind DEF Away
  <2> QED
    BY <2>5, <2>6
<1> QED
  BY <1>2, <1>3

\* What has been checked stays so; and a block with a check checks the constraint
\* it is planned for.
LEMMA AppendedChecked ==
  ASSUME NEW ops, NEW c, Appended(ops, c)
  PROVE  /\ \A d : Checked(d, steps) => Checked(d, steps')
         /\ CheckedBlock(ops) => Checked(c, steps')
<1>1. /\ Len(steps) \in Nat /\ DOMAIN steps = 1..Len(steps)
      /\ Len(steps') = Len(steps) + Len(ops) /\ DOMAIN steps' = 1..Len(steps')
      /\ Len(ops) \in Nat /\ DOMAIN ops = 1..Len(ops)
  BY DEF Appended
<1>2. \A i \in DOMAIN steps : i \in DOMAIN steps' /\ steps'[i] = steps[i]
  BY <1>1 DEF Appended
<1>3. ASSUME CheckedBlock(ops) PROVE Checked(c, steps')
  <2>1. PICK k \in DOMAIN ops : ops[k] \in Checks
    BY <1>3 DEF CheckedBlock
  <2>2. Len(steps) + k \in DOMAIN steps'
    BY <1>1
  <2>3. steps'[Len(steps) + k] = StepOf(ops[k], c, Len(steps) + k)
    BY DEF Appended
  <2> QED
    BY <2>1, <2>2, <2>3, StepKind DEF Checked
<1> QED
  BY <1>2, <1>3 DEF Checked

LEMMA HappyAppended ==
  ASSUME PlannerInv, ExpandHappy
  PROVE  Appended(HappyOps[mode], 1) /\ UNCHANGED inputVars
<1>1. Add(HappyOps[mode], 1) /\ UNCHANGED inputVars
  BY DEF ExpandHappy
<1>2. /\ mode \in AllModes /\ 1 \in DOMAIN requirement
      /\ HappyOps[mode] \in Seq(OpNames(mode))
  BY InputTypes, HappyNames DEF PlannerInv
<1> QED
  BY <1>1, <1>2, AddGood DEF Appended, PlannerInv, TypeOK

LEMMA OneAppended ==
  ASSUME PlannerInv, ExpandOne
  PROVE  LET c == requirement[next]
         IN  /\ next \in DOMAIN requirement /\ next' = next + 1 /\ UNCHANGED <<pc, planner, inputVars>>
             /\ Turn(c) => Appended(OpsOf(c), next)
             /\ ~Turn(c) => steps' = steps
<1> DEFINE c == requirement[next]
<1>1. /\ pc \in {"sessions", "rest"} /\ next <= Len(requirement) /\ next' = next + 1
      /\ UNCHANGED <<pc, planner, inputVars>>
      /\ Turn(c) => Add(OpsOf(c), next)
      /\ ~Turn(c) => steps' = steps
  BY DEF ExpandOne
<1>2. next \in DOMAIN requirement /\ requirement \in Seq(Constraint)
  BY <1>1, InputTypes DEF PlannerInv, TypeOK
<1>3. c \in Constraint /\ c.id \in allowed_ids /\ mode \in AllModes
  BY <1>2, InputTypes DEF PlannerInv
<1>4. OpsOf(c) \in Seq(OpNames(mode))
  BY <1>3, OpsNames
<1> HIDE DEF c
<1>5. Turn(c) => Appended(OpsOf(c), next)
  BY <1>1, <1>2, <1>3, <1>4, AddGood DEF Appended, PlannerInv, TypeOK
<1> QED
  BY <1>1, <1>2, <1>5 DEF c

LEMMA OwnNext == ASSUME PlannerInv, OwnSoFar, [Next]_vars PROVE OwnSoFar'
<1> SUFFICES ASSUME Expanding' PROVE OwnSteps(steps')
  BY DEF OwnSoFar
<1>m. mode \in AllModes
  BY InputTypes DEF PlannerInv
<1>1. CASE ExpandHappy /\ steps = <<>>
  <2>1. OwnSteps(steps)
    BY <1>1 DEF OwnSteps
  <2> QED
    BY <1>1, <1>m, <2>1, HappyAppended, HappyBlock, AppendedOwn
<1>2. CASE ExpandOne /\ Expanding
  <2>1. OwnBlock(OpsOf(requirement[next]))
    BY <1>m, OpsBlock DEF SessionBlock, FitBlock
  <2> QED
    BY <1>2, <2>1, OneAppended, AppendedOwn DEF OwnSoFar
<1>3. CASE (SessionsDone \/ ExpandDone \/ UNCHANGED vars) /\ Expanding
  <2>1. steps' = steps
    BY <1>3 DEF SessionsDone, ExpandDone, vars
  <2> QED
    BY <1>3, <2>1 DEF OwnSoFar
<1> QED
  BY <1>1, <1>2, <1>3, ExpanderShape

LEMMA PlaceNext == ASSUME PlannerInv, InPlace, [Next]_vars PROVE InPlace'
<1> DEFINE Reloads == \A i \in DOMAIN steps' : steps'[i].kind = "reload" =>
                        \A j \in 2..i - 1 : steps'[j].kind \notin Away
           Stays == \A j \in DOMAIN steps' : j > 1 => steps'[j].kind \notin Away
<1> SUFFICES ASSUME Expanding' PROVE Reloads /\ (pc' = "sessions" => Stays)
  BY DEF InPlace, Expanding
<1>m. mode \in AllModes
  BY InputTypes DEF PlannerInv
<1>1. CASE ExpandHappy /\ steps = <<>>
  <2> DEFINE ops == HappyOps[mode]
  <2>1. Appended(ops, 1)
    BY <1>1, HappyAppended
  <2>2. /\ \A i \in DOMAIN ops : ops[i] # "reload"
        /\ \A i \in DOMAIN ops : i > 1 => ops[i] \notin Away
    BY <1>m, HappyBlock
  <2> HIDE DEF ops
  <2>3. Reloads
    BY <1>1, <2>1, <2>2, AppendedPlace
  <2>4. ASSUME NEW j \in DOMAIN steps', j > 1 PROVE steps'[j].kind \notin Away
    <3>1. PICK k \in DOMAIN ops : j = Len(steps) + k
      BY <1>1, <2>1, <2>4, AppendedWhere
    <3>2. j = k
      BY <1>1, <2>1, <3>1 DEF Appended
    <3> QED
      BY <2>1, <2>2, <2>4, <3>1, <3>2, AppendedKind DEF Away
  <2> QED
    BY <2>3, <2>4
<1>2. CASE ExpandOne /\ pc' = pc /\ Expanding
  <2> DEFINE ops == OpsOf(requirement[next])
  <2>1. CASE steps' = steps
    BY <1>2, <2>1 DEF InPlace
  <2>2. CASE Turn(requirement[next]) /\ Appended(ops, next)
    <3>1. CASE pc = "sessions"
      <4>1. \A k \in DOMAIN ops : ops[k] \notin Away
        BY <1>m, <2>2, <3>1, OpsBlock DEF Turn, SessionBlock
      <4>2. \A j \in DOMAIN steps : j > 1 => steps[j].kind \notin Away
        BY <3>1 DEF InPlace
      <4> HIDE DEF ops
      <4>3. Reloads
        BY <1>2, <2>2, <4>1, <4>2, AppendedPlace DEF InPlace
      <4>4. ASSUME NEW j \in DOMAIN steps', j > 1 PROVE steps'[j].kind \notin Away
        <5>1. CASE j \in DOMAIN steps
          BY <2>2, <4>2, <4>4, <5>1 DEF Appended
        <5>2. CASE j \notin DOMAIN steps
          <6>1. PICK k \in DOMAIN ops : j = Len(steps) + k
            BY <2>2, <5>2, AppendedWhere
          <6> QED
            BY <2>2, <4>1, <6>1, AppendedKind DEF Away
        <5> QED
          BY <5>1, <5>2
      <4> QED
        BY <4>3, <4>4
    <3>2. CASE pc # "sessions"
      <4>1. \A k \in DOMAIN ops : ops[k] # "reload"
        BY <1>m, <2>2, <3>2, OpsBlock DEF Turn, FitBlock
      <4> HIDE DEF ops
      <4>2. Reloads
        BY <1>2, <2>2, <4>1, AppendedPlace DEF InPlace
      <4> QED
        BY <1>2, <3>2, <4>2
    <3> QED
      BY <3>1, <3>2
  <2> QED
    BY <1>2, <2>1, <2>2, OneAppended
<1>3. CASE (SessionsDone \/ ExpandDone \/ UNCHANGED vars) /\ Expanding
  <2>1. steps' = steps /\ (pc' = "sessions" => pc = "sessions")
    BY <1>3 DEF SessionsDone, ExpandDone, Return, Goto, vars
  <2> QED
    BY <1>3, <2>1 DEF InPlace
<1> QED
  BY <1>1, <1>2, <1>3, ExpanderShape

LEMMA CheckedNext == ASSUME PlannerInv, CheckedSoFar, [Next]_vars PROVE CheckedSoFar'
<1>t. /\ mode \in AllModes /\ next \in Nat /\ 1 \in DOMAIN requirement
      /\ requirement \in Seq(Constraint) /\ DOMAIN requirement = 1..Len(requirement)
  BY InputTypes DEF PlannerInv, TypeOK
<1>c. ASSUME UNCHANGED requirement, NEW c, Checked(c, steps') PROVE Checked(c, steps)'
  BY <1>c DEF Checked
<1> SUFFICES ASSUME Expanding' PROVE \A c \in Handled' : Checked(c, steps)'
  BY DEF CheckedSoFar
<1>1. CASE ExpandHappy /\ pc' = "sessions" /\ steps = <<>>
  <2>1. next' = 2 /\ UNCHANGED requirement
    BY <1>1 DEF ExpandHappy, inputVars
  <2>2. Handled' = {1}
    BY <1>1, <1>t, <2>1 DEF Handled
  <2>3. Checked(1, steps')
    BY <1>1, <1>t, HappyAppended, HappyBlock, AppendedChecked
  <2> QED
    BY <1>c, <2>1, <2>2, <2>3
<1>2. CASE ExpandOne /\ pc' = pc /\ Expanding
  <2> DEFINE c == requirement[next]
  <2>1. /\ next \in DOMAIN requirement /\ next' = next + 1 /\ UNCHANGED <<pc, mode, requirement>>
        /\ pc \in {"sessions", "rest"}
    BY <1>2, OneAppended DEF inputVars, ExpandOne
  <2>2. \A d \in Handled : Checked(d, steps)
    BY <1>2 DEF CheckedSoFar
  <2>3. \A i \in DOMAIN requirement : i < next + 1 <=> i < next \/ i = next
    BY <1>t, <2>1
  <2>4. \A i \in DOMAIN requirement : Session(requirement[i])' <=> Session(requirement[i])
    BY <2>1 DEF Session
  <2>5. CASE Turn(c)
    <3>1. Handled' = Handled \cup {next}
      BY <2>1, <2>3, <2>4, <2>5 DEF Handled, Turn
    <3>2. CheckedBlock(OpsOf(c))
      BY <1>t, OpsBlock DEF SessionBlock, FitBlock
    <3>3. \A d \in Handled \cup {next} : Checked(d, steps')
      BY <1>2, <2>2, <2>5, <3>2, OneAppended, AppendedChecked
    <3> QED
      BY <1>c, <2>1, <3>1, <3>3
  <2>6. CASE ~Turn(c)
    <3>1. steps' = steps
      BY <1>2, <2>6, OneAppended
    <3>2. Handled' = Handled
      BY <2>1, <2>3, <2>4, <2>6 DEF Handled, Turn
    <3> QED
      BY <1>c, <2>1, <2>2, <3>1, <3>2
  <2> QED
    BY <2>5, <2>6
<1>3. CASE (SessionsDone \/ ExpandDone) /\ Expanding
  <2>1. /\ steps' = steps /\ UNCHANGED <<mode, requirement>> /\ next > Len(requirement)
        /\ \/ pc = "sessions" /\ pc' = "rest" /\ next' = 2
           \/ pc = "rest" /\ pc' = "done"
    BY <1>3 DEF SessionsDone, ExpandDone, Return, Goto, inputVars
  <2>2. \A i \in DOMAIN requirement : i < next /\ (i < 2 <=> i = 1)
    BY <1>t, <2>1
  <2>3. \A i \in DOMAIN requirement : Session(requirement[i])' <=> Session(requirement[i])
    BY <2>1 DEF Session
  <2>4. Handled' = Handled
    BY <2>1, <2>2, <2>3 DEF Handled
  <2> QED
    BY <1>3, <1>c, <2>1, <2>4 DEF CheckedSoFar
<1>4. CASE UNCHANGED vars /\ Expanding
  <2>1. UNCHANGED <<pc, mode, requirement, next, steps, planner>>
    BY <1>4 DEF vars, inputVars
  <2>2. Handled' = Handled
    BY <2>1 DEF Handled, Session
  <2> QED
    BY <1>4, <1>c, <2>1, <2>2 DEF CheckedSoFar
<1> QED
  BY <1>1, <1>2, <1>3, <1>4, ExpanderShape

LEMMA ExpanderNext == PlannerInv /\ ExpanderInv /\ [Next]_vars => ExpanderInv'
BY OwnNext, PlaceNext, CheckedNext DEF ExpanderInv

LEMMA ExpanderInvariant == Spec => []ExpanderInv
BY ExpanderInit, ExpanderNext, PlannerInit, PlannerNext, PTL DEF Spec

\* In a plan of the expander every assert is judged on an operation made for its
\* own constraint, and no other of the same id, on its own channel
\* (planning.py:72-102, 155-180, 239-253).
THEOREM OwnStands == Spec => []ExpanderJudgesItsOwn
<1>1. ExpanderInv => ExpanderJudgesItsOwn
  <2> SUFFICES ASSUME ExpanderInv, planner = "deterministic", NEW i \in DOMAIN steps,
                      steps[i].kind = "assert", steps[i].check # "unsupported_constraint"
               PROVE  \E j \in Judged(i) :
                        /\ steps[j].for = steps[i].for
                        /\ steps[j].kind = "sql_query" <=> steps[i].check = "cell_equals"
    BY DEF ExpanderJudgesItsOwn
  <2>1. OwnSteps(steps)
    BY DEF ExpanderInv, OwnSoFar, Expanding
  <2> QED
    BY <2>1 DEF OwnSteps, Judged
<1> QED
  BY <1>1, ExpanderInvariant, PTL

\* A session is checked before any other constraint has left the page
\* (planning.py:71-80).
THEOREM SessionStands == Spec => []SessionCheckedInPlace
<1>1. ExpanderInv => SessionCheckedInPlace
  BY DEF ExpanderInv, InPlace, Expanding, SessionCheckedInPlace, Away
<1> QED
  BY <1>1, ExpanderInvariant, PTL

\* Every declared constraint has an assert that was planned for it, whichever id it
\* goes by and whatever its statement says (planning.py:47-253).
THEOREM CheckedStands == Spec => []EveryConstraintIsChecked
<1>1. ExpanderInv => EveryConstraintIsChecked
  <2>1. pc = "done" => Handled = DOMAIN requirement
    BY DEF Handled
  <2> QED
    BY <2>1 DEF ExpanderInv, CheckedSoFar, Checked, Expanding, EveryConstraintIsChecked, Planned
<1> QED
  BY <1>1, ExpanderInvariant, PTL

===============================================================================
