----------------------------- MODULE TrackerCalls -----------------------------
(***************************************************************************)
(* The call ledger of the tracker bot: how messages, buttons and timers    *)
(* register calls (packages/tracker/src/bot.ts), the calls and users       *)
(* tables (db.ts), and the tracker that raises a call's all-time high      *)
(* until it is 48 hours old (ath-tracker.ts).  One group.  Telegram        *)
(* updates are handled one after the other; timers and polls interleave    *)
(* with them at every await.                                               *)
(***************************************************************************)
EXTENDS Integers, FiniteSets, FiniteSetsExt

CONSTANTS User, Token,
          Mcap,       \* bound: market caps the price service may report
          Poller,     \* bound: pollActiveCalls() activations alive at a time
          MaxJobs     \* bound: calls asked for

ASSUME TrackerAssumption == Mcap \subseteq Nat \ {0} /\ MaxJobs \in Nat

VARIABLES job,        \* registrations under way: a 30-second timer, then a lookup
          jobs,       \* number of jobs so far
          pending,    \* pendingAutoCalls: per token, the job whose timer it holds
          offered,    \* tokens with a keyboard to choose the call type
          busy,       \* the job the current update waits for, 0 if none
          blocked,    \* blocked_users
          calls,      \* the calls table
          old,        \* calls more than 48 hours old
          points,     \* users.points
          wiped,      \* history: points awarded to calls that were wiped
          poll        \* pollActiveCalls() activations: the call whose price they
                      \* await (0 if idle) and the rest of their snapshot
botVars == <<job, jobs, pending, offered, busy, blocked>>
vars == <<botVars, calls, old, points, wiped, poll>>

Id == 1..MaxJobs

TypeOK == /\ jobs \in 0..MaxJobs /\ DOMAIN job \subseteq 1..jobs
          /\ \A j \in DOMAIN job :
                 job[j] \in [stage : {"timer", "fetch"}, user : User, token : Token]
          /\ pending \in [Token -> 0..jobs]
          /\ offered \subseteq Token /\ busy \in {0} \cup DOMAIN job
          /\ blocked \subseteq User
          /\ DOMAIN calls \subseteq 1..jobs /\ old \subseteq 1..jobs
          /\ \A i \in DOMAIN calls :
                 calls[i] \in [user : User, at : Mcap, ath : Mcap, points : -1..5,
                               finalized : BOOLEAN]
          /\ points \in [User -> Int] /\ wiped \in [User -> Int]
          /\ poll \in [Poller -> [on : 0..jobs, rest : SUBSET (1..jobs)]]

Init == /\ job = <<>> /\ jobs = 0 /\ pending = [t \in Token |-> 0] /\ offered = {}
        /\ busy = 0 /\ blocked = {}
        /\ calls = <<>> /\ old = {}
        /\ points = [u \in User |-> 0] /\ wiped = [u \in User |-> 0]
        /\ poll = [p \in Poller |-> [on |-> 0, rest |-> {}]]

Put(f, x, y) == [z \in DOMAIN f \cup {x} |-> IF z = x THEN y ELSE f[z]]
Drop(f, S) == [z \in DOMAIN f \ S |-> f[z]]

------------------------------------------------------------------------------
(* bot.ts: registering calls *)

NewJob(stage, u, t) ==
    /\ busy = 0 /\ jobs < MaxJobs
    /\ jobs' = jobs + 1
    /\ job' = Put(job, jobs + 1, [stage |-> stage, user |-> u, token |-> t])
    /\ UNCHANGED <<offered, blocked, calls, old, points, wiped, poll>>

\* A message names a token, in auto mode: handleAutoCall() starts a timer and
\* remembers it, in place of one it may hold for the token already.
AutoMessage(u, t) ==
    /\ u \notin blocked
    /\ NewJob("timer", u, t)
    /\ pending' = [pending EXCEPT ![t] = jobs + 1]
    /\ UNCHANGED busy

\* The same in button mode: handleButtonCall() offers the choice to the group.
ButtonMessage(u, t) ==
    /\ busy = 0 /\ u \notin blocked /\ t \notin offered
    /\ offered' = offered \cup {t}
    /\ UNCHANGED <<job, jobs, pending, busy, blocked, calls, old,
                   points, wiped, poll>>

\* A member presses a call button, which stays, or sends a call command; the
\* update waits for registerCall().
CallNow(u, t, command) ==
    /\ command \/ t \in offered
    /\ NewJob("fetch", u, t)
    /\ busy' = jobs + 1
    /\ UNCHANGED pending

TimerFires(j) ==
    /\ job[j].stage = "timer"
    /\ pending' = [pending EXCEPT ![job[j].token] = 0]
    /\ job' = [job EXCEPT ![j].stage = "fetch"]
    /\ UNCHANGED <<jobs, offered, busy, blocked, calls, old, points, wiped, poll>>

\* The cancel button of a token: the timer the map holds is cleared.
CancelCall(t) ==
    /\ busy = 0 /\ pending[t] # 0
    /\ job' = Drop(job, {pending[t]})
    /\ pending' = [pending EXCEPT ![t] = 0]
    /\ UNCHANGED <<jobs, offered, busy, blocked, calls, old, points, wiped, poll>>

\* fetchTokenInfo() settles: createCall(), or an apology when there is no price.
Register(j) ==
    /\ job[j].stage = "fetch"
    /\ \/ \E m \in Mcap : calls' = Put(calls, j,
             [user |-> job[j].user, at |-> m, ath |-> m, points |-> 0, finalized |-> FALSE])
       \/ UNCHANGED calls
    /\ job' = Drop(job, {j})
    /\ busy' = IF busy = j THEN 0 ELSE busy
    /\ UNCHANGED <<jobs, pending, offered, blocked, old, points, wiped, poll>>

\* /block and /unblock by an administrator.
SetBlocked(u) ==
    /\ busy = 0
    /\ \E b \in BOOLEAN : blocked' = IF b THEN blocked \cup {u} ELSE blocked \ {u}
    /\ UNCHANGED <<job, jobs, pending, offered, busy, calls, old, points,
                   wiped, poll>>

\* Points of the calls in c that belong to u.
Awarded(c, u) == MapThenSumSet(LAMBDA i : c[i].points,
                               {i \in DOMAIN c : c[i].user = u})

\* wipe:confirm deletes the group's calls; users.points stays as it is.
Wipe ==
    /\ busy = 0 /\ calls # <<>>
    /\ calls' = <<>>
    /\ wiped' = [u \in User |-> wiped[u] + Awarded(calls, u)]
    /\ UNCHANGED <<botVars, old, points, poll>>

------------------------------------------------------------------------------
(* types.ts, db.ts and ath-tracker.ts: points and all-time highs *)

\* calcPoints() of the multiplier ath / at.
CalcPoints(at, ath) == CASE ath >= 30 * at -> 5
                         [] ath < 30 * at /\ ath >= 15 * at -> 4
                         [] ath < 15 * at /\ ath >= 5 * at -> 3
                         [] ath < 5 * at /\ ath >= 2 * at -> 2
                         [] ath < 2 * at /\ 2 * ath >= 3 * at -> 0
                         [] OTHER -> -1

\* finalizeCall() on the calls in S, in the table c.
Finalize(c, S) == [i \in DOMAIN c |-> IF i \in S THEN [c[i] EXCEPT !.finalized = TRUE]
                                                ELSE c[i]]

\* updateCallAth(): reads the row again; only a higher value of a call that is
\* not final counts, and the difference of the points goes to the caller.
Raised_Stale(c, i, m) == i \in DOMAIN c /\ m > c[i].ath
Raised(c, i, m) == i \in DOMAIN c /\ ~c[i].finalized /\ m > c[i].ath
WithAth(c, i, m) ==
    IF Raised(c, i, m)
    THEN [c EXCEPT ![i].ath = m, ![i].points = CalcPoints(c[i].at, m)] ELSE c
Credit_Total(c, i, m) ==
    IF Raised(c, i, m)
    THEN [points EXCEPT ![c[i].user] = @ + CalcPoints(c[i].at, m)] ELSE points
Credit(c, i, m) ==
    IF Raised(c, i, m)
    THEN [points EXCEPT ![c[i].user] = @ + CalcPoints(c[i].at, m) - c[i].points]
    ELSE points

\* The loop of pollActiveCalls() over the snapshot todo, on the table c, to its
\* next await: calls past their 48 hours are finalized, the first other one is
\* looked up.
RunLoop_SkipsOld(p, c, todo) ==
    LET young == todo \ old IN
    /\ calls' = c
    /\ poll' = [poll EXCEPT ![p] =
           IF young = {} THEN [on |-> 0, rest |-> {}]
           ELSE [on |-> Min(young), rest |-> {i \in todo : i > Min(young)}]]
RunLoop(p, c, todo) ==
    LET young == todo \ old
        next == IF young = {} THEN 0 ELSE Min(young)
        passed == {i \in todo : next = 0 \/ i < next}
    IN /\ calls' = Finalize(c, passed)
       /\ poll' = [poll EXCEPT ![p] = [on |-> next, rest |-> todo \ (passed \cup {next})]]

Active == {i \in DOMAIN calls : ~calls[i].finalized}

\* The interval fires, whether or not earlier activations are done.
PollStart(p) ==
    /\ poll[p].on = 0 /\ Active # {}
    /\ RunLoop(p, calls, Active)
    /\ UNCHANGED <<botVars, old, points, wiped>>

\* The price of a call arrives, or none, and the loop goes on.
PollAnswer(p) ==
    /\ poll[p].on # 0
    /\ \/ \E m \in Mcap : /\ RunLoop(p, WithAth(calls, poll[p].on, m), poll[p].rest)
                          /\ points' = Credit(calls, poll[p].on, m)
       \/ RunLoop(p, calls, poll[p].rest) /\ UNCHANGED points
    /\ UNCHANGED <<botVars, old, wiped>>

\* 48 hours have passed since call i.
Age(i) ==
    /\ i \in DOMAIN calls \ old
    /\ old' = old \cup {i}
    /\ UNCHANGED <<botVars, calls, points, wiped, poll>>

Next == \/ \E u \in User, t \in Token : AutoMessage(u, t) \/ ButtonMessage(u, t)
        \/ \E u \in User, t \in Token, command \in BOOLEAN : CallNow(u, t, command)
        \/ \E j \in DOMAIN job : TimerFires(j) \/ Register(j)
        \/ \E t \in Token : CancelCall(t)
        \/ \E u \in User : SetBlocked(u)
        \/ Wipe
        \/ \E p \in Poller : PollStart(p) \/ PollAnswer(p)
        \/ \E i \in DOMAIN calls : Age(i)

\* The poll timer fires again and again and price lookups settle.
Fairness == \A p \in Poller : WF_vars(PollStart(p)) /\ WF_vars(PollAnswer(p))

Spec == Init /\ [][Next]_vars
FairSpec == Spec /\ Fairness

------------------------------------------------------------------------------
\* users.points is the sum of the points of the user's calls, those of wiped
\* calls included: overlapping polls of one call never credit a rise twice.
LedgerBalances ==
    \A u \in User : points[u] = Awarded(calls, u) + wiped[u]

\* An all-time high never falls, and that of a finalized call never moves, even
\* when a price asked for before arrives after.
HighsStand ==
    [][\A i \in DOMAIN calls \cap DOMAIN calls' :
           /\ calls'[i].ath >= calls[i].ath
           /\ calls[i].finalized => calls'[i] = calls[i]]_vars

\* Every call past its 48 hours is finalized, unless it is wiped first.
OldCallsAreFinalized ==
    \A i \in Id : i \in old ~> i \notin DOMAIN calls \/ calls[i].finalized

=============================================================================
