-------------------------------- MODULE Planner --------------------------------
(***************************************************************************)
(* build_plan() (opentruth/llm.py): a plan comes from the declared           *)
(* Verification IR (ir.py), else from a model's proposal, else from the      *)
(* deterministic expander (planning.py).  The loops of the three run one     *)
(* item per step.  Text is reduced to what the code tells apart: a           *)
(* statement to the groups of needles found in it, the fields of a step to   *)
(* the outcome of their checks, HOSTILE_KINDS to one kind.                   *)
(***************************************************************************)
EXTENDS Naturals, Sequences

CONSTANTS
  Modes,         \* the --mode values of this instance
  Requirements,  \* the constraint lists of requirements.yaml
  Verifications, \* the declared verification blocks
  Proposals,     \* the lists of steps a model may send
  NoIr           \* no verification block

ALLOWED_KINDS ==
  [browser |-> {"navigate", "fill", "click", "reload", "clear_cookies", "assert"},
   api     |-> {"http_request", "assert"},
   state   |-> {"http_request", "sql_query", "assert"}]

ALLOWED_CHECKS ==
  [browser |-> {"url_contains", "text_contains", "unsupported_constraint"},
   api     |-> {"status_equals", "json_contains", "text_contains", "unsupported_constraint"},
   state   |-> {"status_equals", "json_contains", "text_contains", "cell_equals",
                "unsupported_constraint"}]

Kinds == UNION {ALLOWED_KINDS[m] : m \in {"browser", "api", "state"}}
Checks == UNION {ALLOWED_CHECKS[m] : m \in {"browser", "api", "state"}}

\* The groups of needles expand() looks for in a statement.
Needles == {"session", "duplicate", "second row", "password", "unauthorized",
            "durable", "identity"}

\* A constraint: its id and what its statement contains.  The first of a list is
\* the happy path, C-0; the ids of the others may repeat (`id:` is not checked).
Constraint == [id : Nat, says : SUBSET Needles]
HappyPath == 0

\* A step as written by a person or a model.  flat: a mapping that
\* _flatten_yaml_step takes; id 0: none; fields: what the checks of the kind's
\* fields say ("nested": JSON or templates beyond the depth limit).
Item == [flat : BOOLEAN, id : Nat, cid : Nat, kind : Kinds \cup {"hostile", "other"},
         check : Checks \cup {"none"}, fields : {"good", "bad", "nested"}]

\* head: what becomes of the block before its steps are looked at.  "refused"
\* is no mapping, an unknown field, a version that is missing or not 1, steps
\* that are no list; int() of an infinite version raises OverflowError.
Verification == [head : {"good", "refused", "infinite"}, steps : Seq(Item)]

\* A step of a plan.  fields: the outcome of the checks its kind asks for, "good"
\* where it asks for none.  for is not in the code: the place in requirements.yaml
\* of the constraint the expander was planning when it added the step, 0 for a
\* step somebody else has written.  Constraints that share an id differ in it.
PlanStep == [id : Nat, cid : Nat, kind : Kinds, check : Checks \cup {"none"},
             fields : {"good", "bad", "nested"}, for : Nat]

ASSUME PlannerAssumption ==
  /\ Modes \subseteq {"browser", "api", "state"}
  /\ Requirements \subseteq Seq(Constraint)
  /\ \A req \in Requirements : Len(req) > 0 /\ req[1].id = HappyPath
  /\ Verifications \subseteq Verification
  /\ Proposals \subseteq Seq(Item)
  /\ NoIr \notin Verifications

VARIABLES
  pc,           \* where build_plan() is
  mode, requirement, verification,
  llm,          \* --llm: "off", "no_key" (none in the environment) or "on"
  proposal,     \* the steps the model has sent
  next,         \* index of the loop at pc
  typed,        \* VerificationIr.steps
  steps,        \* `cleaned` or `steps`: the plan so far
  planner       \* plan["planner"], "none" until the plan is returned

inputVars == <<mode, requirement, verification, llm>>
vars == <<pc, inputVars, proposal, next, typed, steps, planner>>

allowed_ids == {requirement[i].id : i \in DOMAIN requirement}

\* Mutant of Goto: indices from 0.
GotoZero(label) == pc' = label /\ next' = 0

\* On to another loop, whose index starts at its first item.
Goto(label) == pc' = label /\ next' = 1

-------------------------------------------------------------------------------
Init ==
  /\ pc = "build"
  /\ mode \in Modes
  /\ requirement \in Requirements
  /\ verification \in Verifications \cup {NoIr}
  /\ llm \in {"off", "no_key", "on"}
  /\ proposal = <<>>
  /\ next = 1
  /\ typed = <<>>
  /\ steps = <<>>
  /\ planner = "none"

UseIr ==
  /\ pc = "build" /\ verification # NoIr
  /\ Goto("parse")
  /\ UNCHANGED <<inputVars, proposal, typed, steps, planner>>

\* resolve_proposer returns a proposer.
AskModel ==
  /\ pc = "build" /\ verification = NoIr /\ llm = "on"
  /\ Goto("propose")
  /\ UNCHANGED <<inputVars, proposal, typed, steps, planner>>

\* No model wanted, or no key for it.
UseExpander ==
  /\ pc = "build" /\ verification = NoIr /\ llm # "on"
  /\ Goto("happy")
  /\ UNCHANGED <<inputVars, proposal, typed, steps, planner>>

\* IrError, or another exception, leaves build_plan.
Stop(label) ==
  /\ Goto(label)
  /\ UNCHANGED <<inputVars, proposal, typed, steps, planner>>

Return(who) ==
  /\ planner' = who
  /\ Goto("done")
  /\ UNCHANGED <<inputVars, proposal, typed>>

-------------------------------------------------------------------------------
(* Declared IR: parse, validate, normalize, compile. *)

\* parse_verification and the head of validate_verification.
ParseVerification ==
  /\ pc = "parse"
  /\ \/ verification.head = "good" /\ Stop("validate")
     \/ verification.head = "refused" /\ Stop("rejected")
     \/ verification.head = "infinite" /\ Stop("raised")

\* What one iteration of validate_verification lets through.
Valid(item) ==
  /\ item.flat
  /\ item.id # 0
  /\ \A i \in DOMAIN typed : typed[i].id # item.id
  /\ item.cid \in allowed_ids
  /\ item.kind \in ALLOWED_KINDS[mode]

ValidateStep ==
  /\ pc = "validate" /\ next <= Len(verification.steps)
  /\ LET item == verification.steps[next]
     IN  \/ /\ Valid(item)
            /\ typed' = Append(typed, item)
            /\ next' = next + 1
            /\ UNCHANGED <<pc, inputVars, proposal, steps, planner>>
         \/ ~Valid(item) /\ Stop("rejected")

\* normalize_verification refuses templates nested too deep, here with the
\* other checks of fields in CompileStep: each is an IrError.
ValidateDone ==
  /\ pc = "validate" /\ next > Len(verification.steps)
  /\ Stop("compile")

\* sanitize_step raises whether it is strict or not.
Hostile(item) ==
  \/ item.kind = "hostile"
  \/ /\ item.kind = "http_request" /\ item.kind \in ALLOWED_KINDS[mode]
     /\ item.cid \in allowed_ids
     /\ item.fields = "nested"

\* Kinds whose fields sanitize_step takes as they are.
Unchecked == {"assert", "reload", "clear_cookies"}

\* Mutant of Executable: any check will do, the runner knows what to make of it.
ExecutableAnyCheck(item) ==
  /\ item.kind \in ALLOWED_KINDS[mode]
  /\ item.cid \in allowed_ids
  /\ item.kind \in Unchecked \/ item.fields = "good"

\* sanitize_step returns a step.
Executable(item) ==
  /\ item.kind \in ALLOWED_KINDS[mode]
  /\ item.cid \in allowed_ids
  /\ CASE item.kind = "assert" -> item.check \in ALLOWED_CHECKS[mode]
       [] item.kind \in Unchecked \ {"assert"} -> TRUE
       [] OTHER -> item.fields = "good"

Compiled(item, id) ==
  [id |-> id, cid |-> item.cid, kind |-> item.kind,
   check |-> IF item.kind = "assert" THEN item.check ELSE "none",
   fields |-> IF item.kind \in Unchecked THEN "good" ELSE item.fields, for |-> 0]

AppendStep(item, id) ==
  /\ steps' = Append(steps, Compiled(item, id))
  /\ next' = next + 1
  /\ UNCHANGED <<pc, inputVars, proposal, typed, planner>>

\* A step the loop passes over.
SkipStep ==
  /\ next' = next + 1
  /\ UNCHANGED <<pc, inputVars, proposal, typed, steps, planner>>

\* Mutant of CompileStep: not strict, as for a model's proposal.
CompileStepLenient ==
  /\ pc = "compile" /\ next <= Len(typed)
  /\ LET item == typed[next]
     IN  \/ Executable(item) /\ AppendStep(item, item.id)
         \/ ~Executable(item) /\ SkipStep

\* One iteration of compile_ir: sanitize_step with strict=True.
CompileStep ==
  /\ pc = "compile" /\ next <= Len(typed)
  /\ LET item == typed[next]
         ok == Executable(item) /\ item.fields # "nested"
     IN  \/ ok /\ AppendStep(item, item.id)
         \/ ~ok /\ Stop("rejected")

CompileDone ==
  /\ pc = "compile" /\ next > Len(typed)
  /\ Return("ir")
  /\ steps' = steps

-------------------------------------------------------------------------------
(* The proposal of a model. *)

\* Mutant of FallBack: what was accepted so far stays in the plan.
FallBackKeeping ==
  /\ Goto("happy")
  /\ UNCHANGED <<inputVars, proposal, typed, steps, planner>>

\* `except Exception`: whatever went wrong with the proposal, expand() plans.
FallBack ==
  /\ steps' = <<>>
  /\ Goto("happy")
  /\ UNCHANGED <<inputVars, proposal, typed, planner>>

\* The model answers with JSON that has a list of steps.
Propose ==
  /\ pc = "propose"
  /\ \E items \in Proposals : items # <<>> /\ proposal' = items
  /\ Goto("sanitize")
  /\ UNCHANGED <<inputVars, typed, steps, planner>>

\* No answer, no JSON, or no steps in it.
ProposeFails == pc = "propose" /\ FallBack

\* One iteration of sanitize_plan.  The ids it gives out at the end are the
\* positions in the plan.
SanitizeStep ==
  /\ pc = "sanitize" /\ next <= Len(proposal)
  /\ LET item == proposal[next]
     IN  \/ ~item.flat /\ SkipStep
         \/ item.flat /\ Hostile(item) /\ FallBack
         \/ item.flat /\ ~Hostile(item) /\ ~Executable(item) /\ SkipStep
         \/ /\ item.flat /\ ~Hostile(item) /\ Executable(item)
            /\ AppendStep(item, Len(steps) + 1)

SanitizeDone ==
  /\ pc = "sanitize" /\ next > Len(proposal)
  /\ \/ steps = <<>> /\ FallBack
     \/ steps # <<>> /\ Return("llm") /\ steps' = steps

-------------------------------------------------------------------------------
(* expand(): operations and checks by name, in the order of the code. *)

HappyOps ==
  [browser |-> <<"navigate", "fill", "fill", "click", "url_contains", "text_contains",
                 "fill", "fill", "click", "url_contains", "text_contains">>,
   api     |-> <<"http_request", "status_equals", "http_request", "status_equals",
                 "http_request", "status_equals", "json_contains">>,
   state   |-> <<"http_request", "status_equals", "http_request", "status_equals">>]

\* Mutant of SessionOps: the check looks at what the happy path has fetched.
SessionOpsReusing ==
  [browser |-> <<"url_contains", "text_contains">>,
   api     |-> <<"status_equals", "json_contains">>]

SessionOps ==
  [browser |-> <<"reload", "url_contains", "text_contains">>,
   api     |-> <<"http_request", "status_equals", "json_contains">>]

\* The constraints expand_browser and expand_api treat before all others.
Session(c) == mode # "state" /\ "session" \in c.says

Says(c, needles) == c.says \cap needles # {}

BrowserOps(c) ==
  IF Says(c, {"duplicate", "password"})
    THEN <<"navigate", "fill", "fill", "click", "text_contains">>
  ELSE IF Says(c, {"unauthorized"}) THEN <<"clear_cookies", "navigate", "url_contains">>
  ELSE <<"unsupported_constraint">>

ApiOps(c) ==
  IF Says(c, {"duplicate", "password"})
    THEN <<"http_request", "status_equals", "json_contains">>
  ELSE IF Says(c, {"unauthorized"}) THEN <<"http_request", "status_equals">>
  ELSE <<"unsupported_constraint">>

StateOps(c) ==
  IF Says(c, {"durable", "identity"}) THEN <<"sql_query", "cell_equals">>
  ELSE IF Says(c, {"duplicate", "second row"})
    THEN <<"http_request", "status_equals", "sql_query", "cell_equals">>
  ELSE <<"unsupported_constraint">>

OpsOf(c) ==
  IF Session(c) THEN SessionOps[mode]
  ELSE CASE mode = "browser" -> BrowserOps(c)
         [] mode = "api" -> ApiOps(c)
         [] OTHER -> StateOps(c)

\* A step for the constraint at place c of requirements.yaml.
StepOf(op, c, id) ==
  [id |-> id, cid |-> requirement[c].id, kind |-> IF op \in Checks THEN "assert" ELSE op,
   check |-> IF op \in Checks THEN op ELSE "none", fields |-> "good", for |-> c]

\* add(), once per operation or check.
Add(ops, c) ==
  steps' = steps \o [i \in 1..Len(ops) |-> StepOf(ops[i], c, Len(steps) + i)]

ExpandHappy ==
  /\ pc = "happy"
  /\ Add(HappyOps[mode], 1)
  /\ pc' = "sessions" /\ next' = 2
  /\ UNCHANGED <<inputVars, proposal, typed, planner>>

\* A declared route without method or path; the happy path asks for all of them.
ExpandRaises ==
  /\ pc = "happy" /\ mode # "browser"
  /\ Stop("raised")

\* Mutant of Turn: constraints are planned in the order they are declared.
TurnInOrder(c) == pc = "rest"

\* Whether a loop of expand() plans the constraint it is at.
Turn(c) == Session(c) <=> pc = "sessions"

\* Mutant of ExpandOne: an id that has steps already is taken to be planned.
ExpandOncePerId ==
  /\ pc \in {"sessions", "rest"} /\ next <= Len(requirement)
  /\ IF Turn(requirement[next]) /\ \A i \in DOMAIN steps : steps[i].cid # requirement[next].id
       THEN Add(OpsOf(requirement[next]), next)
       ELSE steps' = steps
  /\ next' = next + 1
  /\ UNCHANGED <<pc, inputVars, proposal, typed, planner>>

ExpandOne ==
  /\ pc \in {"sessions", "rest"} /\ next <= Len(requirement)
  /\ IF Turn(requirement[next]) THEN Add(OpsOf(requirement[next]), next) ELSE steps' = steps
  /\ next' = next + 1
  /\ UNCHANGED <<pc, inputVars, proposal, typed, planner>>

SessionsDone ==
  /\ pc = "sessions" /\ next > Len(requirement)
  /\ pc' = "rest" /\ next' = 2
  /\ UNCHANGED <<inputVars, proposal, typed, steps, planner>>

ExpandDone ==
  /\ pc = "rest" /\ next > Len(requirement)
  /\ Return("deterministic")
  /\ steps' = steps

-------------------------------------------------------------------------------
Choose == UseIr \/ AskModel \/ UseExpander
CompileVerification == ParseVerification \/ ValidateStep \/ ValidateDone
                         \/ CompileStep \/ CompileDone
SanitizePlan == Propose \/ ProposeFails \/ SanitizeStep \/ SanitizeDone
Expand == ExpandHappy \/ ExpandRaises \/ ExpandOne \/ SessionsDone \/ ExpandDone

Next == Choose \/ CompileVerification \/ SanitizePlan \/ Expand

Spec == Init /\ [][Next]_vars

-------------------------------------------------------------------------------
Labels == {"build", "parse", "validate", "compile", "propose", "sanitize", "happy",
           "sessions", "rest", "done", "rejected", "raised"}

\* Every variable of build_plan() has its type.
TypeOK ==
  /\ pc \in Labels
  /\ mode \in Modes
  /\ requirement \in Requirements
  /\ verification \in Verifications \cup {NoIr}
  /\ llm \in {"off", "no_key", "on"}
  /\ proposal \in {<<>>} \cup Proposals
  /\ next \in Nat \ {0}
  /\ typed \in Seq(Item)
  /\ steps \in Seq(PlanStep)
  /\ planner \in {"none", "ir", "llm", "deterministic"}

Planned == pc = "done"

\* Whatever planner it came from, a plan only has steps the runner of its mode
\* executes, with fields that passed the checks of their kind, for declared
\* constraints, and no two steps share an id: a bad step does not reach the
\* application (ir.py:118-220, llm.py:174-181).
PlanIsExecutable ==
  Planned => \A i \in DOMAIN steps :
    /\ steps[i].kind \in ALLOWED_KINDS[mode]
    /\ steps[i].kind = "assert" => steps[i].check \in ALLOWED_CHECKS[mode]
    /\ steps[i].fields = "good"
    /\ steps[i].cid \in allowed_ids
    /\ \A j \in DOMAIN steps : steps[j].id = steps[i].id => j = i

\* Declared IR is executed as it is written, every step in its place, or
\* nothing is: no step of it is dropped or reordered, and neither a model nor
\* the expander ever plans in its stead (llm.py:217-218, README "Declared
\* verification.version: 1 wins").
DeclaredIrDecides ==
  Planned /\ verification # NoIr =>
    /\ planner = "ir"
    /\ Len(steps) = Len(verification.steps)
    /\ \A i \in DOMAIN steps :
         steps[i] = Compiled(verification.steps[i], verification.steps[i].id)

\* A plan of the expander is the expander's from its first step on: nothing is
\* left in it of a proposal that was given up half-way (llm.py:239-244).
FallbackStartsOver ==
  Planned /\ planner = "deterministic" =>
    \A i \in DOMAIN HappyOps[mode] :
      /\ i \in DOMAIN steps
      /\ steps[i] = StepOf(HappyOps[mode][i], 1, i)

\* The expander has planned an assert for every declared constraint, under its
\* id: none goes without because another one has the same id, because it calls
\* itself C-0 and the happy path has asserts enough, or because nothing is known
\* about its statement (planning.py:47-253, README law 10).
EveryConstraintIsChecked ==
  Planned /\ planner = "deterministic" =>
    \A c \in DOMAIN requirement : \E i \in DOMAIN steps :
      steps[i].for = c /\ steps[i].cid = requirement[c].id /\ steps[i].kind = "assert"

\* The operation whose outcome an assert at i is judged on.
Judged(i) ==
  {j \in 1..i - 1 : /\ steps[j].kind # "assert"
                    /\ \A k \in j + 1..i - 1 : steps[k].kind = "assert"}

\* In a plan of the expander no assert is judged on an operation made for
\* another constraint, be it one of the same id, nor on the wrong channel: the
\* runners judge whatever came last (planning.py:72-102, 155-180, 239-253;
\* http.py:158, state.py:112).
ExpanderJudgesItsOwn ==
  Planned /\ planner = "deterministic" =>
    \A i \in DOMAIN steps :
      steps[i].kind = "assert" /\ steps[i].check # "unsupported_constraint" =>
        \E j \in Judged(i) :
          /\ steps[j].for = steps[i].for
          /\ steps[j].kind = "sql_query" <=> steps[i].check = "cell_equals"

\* The session is checked while the browser is where the happy path has left
\* it: no other constraint has navigated away or cleared the cookies before
\* (planning.py:71-80).
SessionCheckedInPlace ==
  Planned /\ planner = "deterministic" =>
    \A i \in DOMAIN steps : steps[i].kind = "reload" =>
      \A j \in 2..i - 1 : steps[j].kind \notin {"navigate", "clear_cookies"}
===============================================================================
