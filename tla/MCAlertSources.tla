--------------------------- MODULE MCAlertSources -----------------------------
(***************************************************************************)
(* An instance of what acts on alerts from outside the engine: the replies *)
(* of sinks, and the results of checks.                                    *)
(***************************************************************************)
EXTENDS AlertSources, TLC

---------------------------------------------------------------------------
\* Replies: two organisations, of which the second has one alert that no reply
\* of the first may touch.
CONSTANTS o1, o2, a1, a2, ab, m1, m2, mb, e1, e2, eb, u1, ub, c1, cb, x1, x2, s1, s2

\* e1 is about alert a1, e2 about monitor m2, eb about the other organisation.
AlertOfEvent == (e1 :> a1 @@ e2 :> NoId @@ eb :> ab)
MonitorOfEvent == (e1 :> m1 @@ e2 :> m2 @@ eb :> mb)

Organisations ==
  (a1 :> o1 @@ a2 :> o1 @@ ab :> o2 @@ m1 :> o1 @@ m2 :> o1 @@ mb :> o2 @@
   e1 :> o1 @@ e2 :> o1 @@ eb :> o2 @@ u1 :> o1 @@ ub :> o2 @@ c1 :> o1 @@ cb :> o2)

R(id, type, ref, alert, to, result, valid) ==
  [id |-> id, type |-> type, ref |-> ref, alert |-> alert, target |-> to,
   result |-> result, valid |-> valid]

\* A well-formed reply of each kind about a1, and those that a handler refuses.
AllReplies ==
  {R("claimed", "claimed", e1, a1, NoId, "", TRUE),
   R("enriched", "enriched", e1, NoId, NoId, "", TRUE),
   R("linked", "linked", e1, NoId, NoId, "", TRUE),
   R("ack", "ack_with_context", e1, a1, NoId, "", TRUE),
   R("owner", "ownership", e1, NoId, u1, "", TRUE),
   R("owner of o2", "ownership", e1, NoId, ub, "", TRUE),
   R("duplicate", "deduplicated", e1, NoId, a2, "", TRUE),
   R("duplicate of o2", "deduplicated", e1, NoId, ab, "", TRUE),
   R("step", "escalated", e1, NoId, 1, "", TRUE),
   R("no step", "escalated", e1, NoId, 2, "", TRUE),
   R("suppressed", "suppressed", e1, NoId, NoId, "", TRUE),
   R("by monitor", "suppressed", e2, a1, NoId, "", TRUE),
   R("route", "route", e1, NoId, c1, "", TRUE),
   R("route of o2", "route", e1, NoId, cb, "", TRUE),
   R("page", "status_page", e1, NoId, NoId, "", TRUE),
   R("start", "remediation_started", e1, NoId, x1, "", TRUE),
   R("start of o2", "remediation_started", eb, NoId, x1, "", TRUE),
   R("done", "remediation_result", e1, NoId, x1, "success", TRUE),
   R("success", "remediation_result", e1, NoId, x2, "success", TRUE),
   R("failure", "remediation_result", e1, NoId, x2, "failure", TRUE),
   R("deregister", "deregister", e2, NoId, m2, "", TRUE),
   R("malformed", "linked", e1, NoId, NoId, "", FALSE),
   R("wrong alert", "enriched", e1, a2, NoId, "", TRUE),
   R("other", "other", e1, NoId, NoId, "", TRUE),
   R("no ref", "claimed", NoId, NoId, NoId, "", TRUE)}

\* A trusted channel and one that only takes notes.
Trusted == [accepted |-> Types, trusted |-> TRUE, deregister |-> TRUE, limit |-> 2]
Notes == [accepted |-> {"claimed", "suppressed", "deregister"}, trusted |-> FALSE,
          deregister |-> FALSE, limit |-> 1]

TheChannels == {Trusted, Notes}

MonitorOfAlert == (a1 :> m1 @@ a2 :> m2 @@ ab :> mb)

\* x2 was started before the process was.
EarlierReply == R("earlier", "remediation_started", e1, NoId, x2, "", TRUE)
KnownReplies == AllReplies \cup {EarlierReply}
StartedEarlier ==
  (x1 :> NoRemediation @@
   x2 :> [status |-> "in_progress", alert |-> a1, source |-> EarlierReply])

Named(ids) == {r \in AllReplies : r.id \in ids}

AllJobs == {<<e1, Trusted>>, <<e1, Notes>>, <<e2, Trusted>>, <<eb, Trusted>>}

Served(replies, jobs, n, time, u) ==
  [replies |-> replies, jobs |-> jobs, sends |-> n, time |-> time, upsets |-> u]

\* Each reply alone, delivered once or twice, and those that meet in a row, with
\* one upset at any time; and three posts under a limit of one or two, with a
\* clock that passes from one window to the next and outlives a bucket.
TheMenus ==
  {Served({r}, AllJobs, 2, 1, 1) : r \in AllReplies} \cup
  {Served(Named(ids), AllJobs, 2, 0, 1) :
     ids \in {{"start", "start of o2"}, {"start", "done"}, {"success", "failure"}}} \cup
  {Served(Named({"claimed"}), {<<e1, Notes>>, <<e1, Trusted>>}, 3, 4, 0)}

OneRepeat == <<0, 0>>

---------------------------------------------------------------------------
(***************************************************************************)
(* Checks.  In the first setting one worker checks one monitor and         *)
(* evaluates the pings of another.  In the second two workers' checks of   *)
(* one monitor overlap, and the process stops or dies and starts again.    *)
(***************************************************************************)
CONSTANTS w0, w1, w2

UpBefore == [m \in {m1} |-> "up"]

\* The workers of a pool are interchangeable.
Symmetry == Permutations({s1, s2}) \cup Permutations({w1, w2})
=============================================================================
