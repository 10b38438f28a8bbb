------------------------------- MODULE Ratings -------------------------------
(***************************************************************************)
(* The ratings one user is given, one per delivered load, and the average  *)
(* and the count kept beside the account.  Submitting adds a row and moves *)
(* the kept average by one score in one save; deleting removes the row in  *)
(* a save and recomputes both from the rows in another.                    *)
(***************************************************************************)
EXTENDS Integers, FiniteSets, Sums

CONSTANTS Rated,      \* the delivered loads
          Scores,     \* the stars that are given
          Handlers,   \* bound on the requests
          StarParts,  \* what a star is counted in, so that averages come out whole
          NoLoad, NoScore

\* The forms give one to five stars; the server takes any number.
ASSUME RatingsAssumption ==
    /\ IsFiniteSet(Rated)
    /\ Scores \subseteq Int
    /\ NoScore \notin Scores
    /\ StarParts \in Nat \ {0}
    /\ \A n \in 1 .. Cardinality(Rated) : StarParts % n = 0

VARIABLES
    score,     \* the row of each load, NoScore when there is none
    kept,      \* [count, average] of the account
    form,      \* the form on each load's page: open or done
    request,   \* [kind, load, stars, phase, seen, new, late] of each handler
    astray     \* history: two requests met, or a deletion has not recomputed

ratingVars == <<score, kept, form, request, astray>>

Unrated == [count |-> 0, average |-> 0]
Free == [kind |-> "none", load |-> NoLoad, stars |-> 0, phase |-> "free",
         seen |-> Unrated, new |-> Unrated, late |-> FALSE]

RatingsInit ==
    /\ score = [l \in Rated |-> NoScore]
    /\ kept = Unrated
    /\ form = [l \in Rated |-> "open"]
    /\ request = [h \in Handlers |-> Free]
    /\ astray = FALSE

RatedNow == {l \in Rated : score[l] # NoScore}
Total == SumOver(score, RatedNow)

\* GetByUser, and the second half of a deletion: count and average of the rows.
OfRows == [count |-> Cardinality(RatedNow),
           average |-> IF RatedNow = {} THEN 0 ELSE (StarParts * Total) \div Cardinality(RatedNow)]

-----------------------------------------------------------------------------
(* The forms and the administrator's list *)

SendRating(l, kind, stars) ==
    \E h \in Handlers :
        /\ request[h] = Free
        /\ request' = [request EXCEPT ![h] =
               [Free EXCEPT !.kind = kind, !.load = l, !.stars = stars, !.phase = "sent"]]
        /\ UNCHANGED <<score, kept, form, astray>>

Unanswered(l) == {h \in Handlers : request[h].load = l /\ request[h].phase \notin {"free", "over"}}

\* The phone's form waits for the answer, the web's can be pressed again.
RateOnWeb(l, stars) == form[l] = "open" /\ SendRating(l, "submit", stars)
RateOnPhone(l, stars) == Unanswered(l) = {} /\ RateOnWeb(l, stars)

\* From a list that may be old.
Remove(l) == SendRating(l, "delete", 0)

\* The form says thanks, or the answer is lost and it stays open.
AnswerForm(h) ==
    /\ request[h].phase \in {"saved", "refused"}
    /\ request' = [request EXCEPT ![h].phase = "over"]
    /\ form' \in {form, IF request[h].phase = "saved" /\ request[h].kind = "submit"
                        THEN [form EXCEPT ![request[h].load] = "done"] ELSE form}
    /\ UNCHANGED <<score, kept, astray>>

-----------------------------------------------------------------------------
(* The server *)

Steps(h, phase) == request' = [request EXCEPT ![h].phase = phase]

\* Whoever is between its reading and its writing is late when another writes.
AtWork == {h \in Handlers : request[h].phase \in {"read", "removed", "recounted"}}
Writes(h, phase) ==
    request' = [g \in Handlers |->
        IF g = h THEN [request[g] EXCEPT !.phase = phase]
        ELSE IF g \in AtWork THEN [request[g] EXCEPT !.late = TRUE] ELSE request[g]]

\* A column is written only where the new value differs from the one read.
Written(new, seen) ==
    kept' = [count |-> IF new.count = seen.count THEN kept.count ELSE new.count,
             average |-> IF new.average = seen.average THEN kept.average ELSE new.average]

\* Submit: one rating per load and giver; the database refuses what this check misses.
CheckRated(h) ==
    /\ request[h].kind = "submit"
    /\ request[h].phase = "sent"
    /\ Steps(h, IF score[request[h].load] # NoScore THEN "refused" ELSE "checked")
    /\ UNCHANGED <<score, kept, form, astray>>

\* The slip of dividing by the old count.
MovedByOld(seen, stars) ==
    [count |-> seen.count + 1,
     average |-> (seen.average * seen.count + StarParts * stars) \div (IF seen.count = 0 THEN 1 ELSE seen.count)]

Moved(seen, stars) ==
    [count |-> seen.count + 1,
     average |-> (seen.average * seen.count + StarParts * stars) \div (seen.count + 1)]

ReadRated(h) ==
    /\ request[h].phase = "checked"
    /\ request' = [request EXCEPT ![h].phase = "read", ![h].seen = kept,
                                  ![h].new = Moved(kept, request[h].stars)]
    /\ UNCHANGED <<score, kept, form, astray>>

SaveRating(h) ==
    LET r == request[h]
    IN  /\ r.kind = "submit"
        /\ r.phase = "read"
        /\ IF score[r.load] # NoScore
           THEN /\ Steps(h, "refused")
                /\ UNCHANGED <<score, kept, astray>>
           ELSE /\ score' = [score EXCEPT ![r.load] = r.stars]
                /\ Written(r.new, r.seen)
                /\ Writes(h, "saved")
                /\ astray' = (astray \/ r.late)
        /\ UNCHANGED form

\* DeleteRating: the row goes in a save of its own.
DeleteRow(h) ==
    LET r == request[h]
    IN  /\ r.kind = "delete"
        /\ r.phase = "sent"
        /\ IF score[r.load] = NoScore
           THEN /\ Steps(h, "refused")
                /\ UNCHANGED <<score, astray>>
           ELSE /\ score' = [score EXCEPT ![r.load] = NoScore]
                /\ Writes(h, "removed")
                /\ astray' = TRUE
        /\ UNCHANGED <<kept, form>>

\* The rest of the rows and the account are read; what will be written is known.
ReadRows(h) ==
    /\ request[h].phase = "removed"
    /\ request' = [request EXCEPT ![h].phase = "recounted", ![h].seen = kept, ![h].new = OfRows]
    /\ UNCHANGED <<score, kept, form, astray>>

SaveCount(h) ==
    /\ request[h].phase = "recounted"
    /\ Written(request[h].new, request[h].seen)
    /\ Writes(h, "saved")
    /\ astray' = request[h].late
    /\ UNCHANGED <<score, form>>

\* The request fails between its two saves.
FailHalfway(h) ==
    /\ request[h].phase \in {"removed", "recounted"}
    /\ Steps(h, "refused")
    /\ UNCHANGED <<score, kept, form, astray>>

RatingsNext ==
    \/ \E l \in Rated :
           \/ \E stars \in Scores : RateOnWeb(l, stars) \/ RateOnPhone(l, stars)
           \/ Remove(l)
    \/ \E h \in Handlers :
           \/ AnswerForm(h) \/ CheckRated(h) \/ ReadRated(h) \/ SaveRating(h)
           \/ DeleteRow(h) \/ ReadRows(h) \/ SaveCount(h) \/ FailHalfway(h)

\* The average and the count beside the account are those of the rows, which GetByUser answers,
\* unless two requests about the user met on the server (RatingsController 65-73 writes what it
\* read) or a deletion stopped between its two saves; the next deletion to run alone mends it.
AverageOfRows == ~astray => kept = OfRows
=============================================================================
