-------------------------------- MODULE Limits --------------------------------
(***************************************************************************)
(* The counters of one phone number in the server's cache (AuthService):    *)
(* how many messages were asked for and how many wrong codes were typed     *)
(* within a minute.  A request reads its counter and writes it back one     *)
(* higher, with another minute to live, in separate calls of the cache.     *)
(* Whoever asks for a message too often is shut out for a quarter of an     *)
(* hour.  The request that sets a new password compares its code without a  *)
(* counter.  What else the requests do is in Registration.                  *)
(***************************************************************************)
EXTENDS Naturals

CONSTANTS Askers,                        \* bound on the requests at once
          SmsCounterLimit, OtpFailLimit,
          MaxUncounted                   \* bound on the wrong codes that nothing counts

ASSUME LimitsAssumption ==
    SmsCounterLimit \in Nat \ {0} /\ OtpFailLimit \in Nat \ {0} /\ MaxUncounted \in Nat

VARIABLES
    counter,     \* by kind of request, 0 when the cache has none
    blacklist,   \* "no", "yes", or "unfair": nobody had reached the limit (history)
    asking,      \* [kind, phase, seen, late] of each request
    passed,      \* history: the messages, or wrong codes, since the counter last was 0
    uncounted,   \* history: how many of them nothing counted
    crossed      \* history: one of them was written over a counter it had not read

limitVars == <<counter, blacklist, asking, passed, uncounted, crossed>>

\* The code of a registration and that of a forgotten password have a counter each.
Codes == {"code", "password"}
Counted == Codes \cup {"message"}
Limit(kind) == IF kind = "message" THEN SmsCounterLimit ELSE OtpFailLimit
NotAsking == [kind |-> "message", phase |-> "idle", seen |-> 0, late |-> FALSE]

LimitsInit ==
    /\ counter = [kind \in Counted |-> 0]
    /\ blacklist = "no"
    /\ asking = [a \in Askers |-> NotAsking]
    /\ passed = [kind \in Counted |-> 0] /\ uncounted = [kind \in Counted |-> 0]
    /\ crossed = [kind \in Counted |-> FALSE]

Turns(a, phase) == asking' = [asking EXCEPT ![a].phase = phase]

\* A request ends; if it wrote the counter, whoever has read the old one is late.
Leaves(a) == asking' = [asking EXCEPT ![a] = NotAsking]
Outdated(kind) ==
    [b \in Askers |-> [asking[b] EXCEPT !.late = @ \/ (asking[b].kind = kind /\ asking[b].phase # "idle")]]
LeavesWriting(a, kind) == asking' = [Outdated(kind) EXCEPT ![a] = NotAsking]

\* A message is asked for by a registration, by "send again" and by a forgotten password: the
\* blacklist is looked at first.
AskMessage(a) ==
    /\ asking[a] = NotAsking /\ blacklist = "no"
    /\ asking' = [asking EXCEPT ![a] = [NotAsking EXCEPT !.phase = "asked"]]
    /\ UNCHANGED <<counter, blacklist, passed, uncounted, crossed>>

TypeCode(a) ==
    /\ asking[a] = NotAsking
    /\ \E kind \in Codes :
           asking' = [asking EXCEPT ![a] = [NotAsking EXCEPT !.kind = kind, !.phase = "asked"]]
    /\ UNCHANGED <<counter, blacklist, passed, uncounted, crossed>>

\* The slip of counting one too many.
OneTooMany(kind, count) == count > Limit(kind)
Exceeded(kind, count) == count >= Limit(kind)

ReadCounter(a) ==
    LET kind == asking[a].kind
    IN  /\ asking[a].phase = "asked"
        /\ asking' = [asking EXCEPT ![a].seen = counter[kind], ![a].late = FALSE,
               ![a].phase = IF ~Exceeded(kind, counter[kind]) THEN "counted" ELSE "refused"]
        /\ UNCHANGED <<counter, blacklist, passed, uncounted, crossed>>

\* Only the messages have a blacklist.
Refuse(a) ==
    /\ asking[a].phase = "refused"
    /\ blacklist' = IF asking[a].kind \in Codes THEN blacklist
                    ELSE IF passed["message"] >= SmsCounterLimit \/ asking[a].late \/ crossed["message"]
                    THEN "yes" ELSE "unfair"
    /\ Leaves(a)
    /\ UNCHANGED <<counter, passed, uncounted, crossed>>

\* The message may go out, whatever becomes of it, or the code was wrong.  Bound: passed is not
\* counted on beyond one more than the limit, and what nothing counted.
Pass(a) ==
    LET r == asking[a]
    IN  /\ r.phase = "counted"
        /\ counter' = [counter EXCEPT ![r.kind] = r.seen + 1]
        /\ passed' = [passed EXCEPT ![r.kind] = IF @ > Limit(r.kind) + uncounted[r.kind] THEN @ ELSE @ + 1]
        /\ crossed' = [crossed EXCEPT ![r.kind] = @ \/ r.late]
        /\ LeavesWriting(a, r.kind)
        /\ UNCHANGED <<blacklist, uncounted>>

StartsAgain(kind) ==
    /\ counter' = [counter EXCEPT ![kind] = 0]
    /\ passed' = [passed EXCEPT ![kind] = 0] /\ uncounted' = [uncounted EXCEPT ![kind] = 0]
    /\ crossed' = [crossed EXCEPT ![kind] = FALSE]

\* The code was right: the counter is removed.
RightCode(a) ==
    /\ asking[a].kind \in Codes /\ asking[a].phase = "counted"
    /\ StartsAgain(asking[a].kind)
    /\ LeavesWriting(a, asking[a].kind)
    /\ UNCHANGED blacklist

\* There is no code to compare with: nothing is counted.
NoCode(a) ==
    /\ asking[a].kind \in Codes /\ asking[a].phase = "counted"
    /\ Leaves(a)
    /\ UNCHANGED <<counter, blacklist, passed, uncounted, crossed>>

\* The code comes once more with the new password (ResetPasswordAsync): a wrong one is refused, and
\* no counter is read or written.
SetPassword ==
    /\ uncounted["password"] < MaxUncounted
    /\ passed' = [passed EXCEPT !["password"] = @ + 1]
    /\ uncounted' = [uncounted EXCEPT !["password"] = @ + 1]
    /\ UNCHANGED <<counter, blacklist, asking, crossed>>

\* A minute has gone by since the counter was written.
RunsOut(kind) ==
    /\ counter[kind] # 0
    /\ StartsAgain(kind)
    /\ asking' = Outdated(kind)
    /\ UNCHANGED blacklist

\* A quarter of an hour: the counter ran out long ago.
Readmit ==
    /\ blacklist # "no" /\ counter["message"] = 0
    /\ blacklist' = "no"
    /\ UNCHANGED <<counter, asking, passed, uncounted, crossed>>

LimitsNext ==
    \/ \E a \in Askers :
           \/ AskMessage(a) \/ TypeCode(a) \/ ReadCounter(a)
           \/ Refuse(a) \/ Pass(a) \/ RightCode(a) \/ NoCode(a)
    \/ \E kind \in Counted : RunsOut(kind)
    \/ SetPassword \/ Readmit

-----------------------------------------------------------------------------
\* Within a minute of one another no more messages go out, and no more wrong codes are compared,
\* than the limits say, and nobody is shut out who had not used up his messages, except that
\* - the request that sets a new password compares the code of a forgotten password without
\*   limit (ResetPasswordAsync): as many more are compared as it brought;
\* - two requests, or one and the end of its minute, may cross between the read of the counter
\*   and its write (EnforceSmsRateLimitAsync, VerifyOtpAsync): until the counter runs out it then
\*   says less than what it counts.
LimitsHold ==
    /\ \A kind \in Counted : ~crossed[kind] => passed[kind] <= Limit(kind) + uncounted[kind]
    /\ blacklist # "unfair"
=============================================================================
