----------------------------- MODULE MCLearning -----------------------------
(* A course to its certificate, and the accounts of its learners: one takes *)
(* the steps of a behaviour, the other rests in an initial state.           *)
EXTENDS CourseCompletion, Accounts, TLC

CONSTANTS l1, q1, a1, r1, r2, e1, e2, e3, i1, u1, u2

VARIABLE focus

learningVars == <<focus, vars, accountVars>>

\* A video lesson, then an assignment and a quiz behind it.
MCPosition == [i \in Items |-> IF i \in Lessons THEN 1 ELSE IF i \in Assignments THEN 2 ELSE 3]

\* One identity whose provider may tell the email e3.
MCProviderEmail == [i \in Identities |-> e3]

FlowsOutside(steps) == Cardinality({f \in Flows : flow'[f].step \notin steps})

\* Firebase and the administrators act beside one flow; the second flow races with
\* the first, or begins after it and may have its account suspended.
SecondFlowAlone ==
    FlowsOutside({"none"}) = 2 =>
        /\ signing' = {}
        /\ \A e \in Emails : user'[e].uid = "none" /\ (user'[e].by = "seed" => user'[e].active)
                             /\ user'[e] # NoUser => (user'[e].role = "admin" <=> user'[e].by = "seed")
        /\ FlowsOutside({"none", "stopped", "done"}) = 2 =>
              admitted' = {} /\ \A e \in Emails : user'[e] # NoUser => user'[e].active

\* Two sessions, and two Firebase logins under way.
FewSessions == Cardinality(opened') <= 2 /\ Cardinality(signing') <= 2

LearningInit ==
    /\ focus \in {"course", "accounts"}
    /\ Init /\ AccountsInit
    /\ focus = "course" => /\ user[e3] = NoUser /\ q1 \in required
                           /\ state[l1] = "live" /\ state[a1] = "live"
    /\ focus = "accounts" => /\ template /\ required = Items
                             /\ \A i \in Items : state[i] = "live"
                             /\ \A q \in Quizzes : limit[q] = None

LearningNext ==
    /\ UNCHANGED focus
    /\ \/ focus = "course" /\ Next /\ UNCHANGED accountVars
       \/ focus = "accounts" /\ AccountsNext /\ SecondFlowAlone /\ FewSessions /\ UNCHANGED vars

LearningSpec == LearningInit /\ [][LearningNext]_learningVars

Alike == UNION {Permutations(s) : s \in {Requests, {e1, e2}, Uids}}
=============================================================================
