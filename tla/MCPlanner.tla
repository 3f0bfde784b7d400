------------------------------- MODULE MCPlanner -------------------------------
(* Instances of Planner for TLC. *)
EXTENDS Planner

\* Lists of at most three declared constraints: every order of what statements
\* can say, a statement that says two things, ids that repeat or are C-0.
MCRequirements ==
  LET happy == [id |-> HappyPath, says |-> {}]
      c(id, says) == [id |-> id, says |-> says]
      all == {{}, {"session"}, {"duplicate"}, {"unauthorized"}, {"durable"},
              {"session", "unauthorized"}}
      some == {{}, {"session"}, {"second row"}}
  IN  {<<happy>>}
        \cup {<<happy, c(id, s)>> : id \in 0..1, s \in all}
        \cup {<<happy, c(1, s), c(2, t)>> : s \in all, t \in all}
        \cup {<<happy, c(1, s), c(1, t)>> : s \in some, t \in some}
        \cup {<<happy, c(1, {"unauthorized"}), c(2, {"password"}), c(3, {"session"})>>,
              <<happy, c(1, {"identity"}), c(0, {"duplicate"}), c(1, {"identity"})>>}

MCItem(id, cid, kind, check, fields) ==
  [flat |-> TRUE, id |-> id, cid |-> cid, kind |-> kind, check |-> check,
   fields |-> fields]

\* Steps each mode admits, and one for every way to be refused.
MCItems ==
  {MCItem(1, 0, kind, "none", "good") :
     kind \in {"http_request", "sql_query", "navigate", "reload", "hostile", "other"}}
    \cup {MCItem(2, cid, "assert", check, "good") :
            cid \in {0, 1, 9}, check \in {"status_equals", "cell_equals", "url_contains", "none"}}
    \cup {MCItem(3, 0, "http_request", "none", fields) : fields \in {"bad", "nested"}}
    \cup {MCItem(0, 0, "http_request", "none", "good"),
          [MCItem(1, 0, "reload", "none", "good") EXCEPT !.flat = FALSE]}

\* Those that occur in lists of two and three.
MCFew ==
  {MCItem(1, 0, "http_request", "none", "good"), MCItem(2, 0, "assert", "status_equals", "good"),
   MCItem(3, 1, "sql_query", "none", "good"), MCItem(2, 1, "reload", "none", "good"),
   MCItem(1, 0, "hostile", "none", "good"), MCItem(3, 0, "navigate", "none", "bad")}

MCProposals ==
  {<<>>} \cup {<<i>> : i \in MCItems} \cup {<<i, j>> : i \in MCFew, j \in MCFew}

MCVerifications ==
  {[head |-> "good", steps |-> s] : s \in MCProposals}
    \cup {[head |-> h, steps |-> <<>>] : h \in {"refused", "infinite"}}
===============================================================================
