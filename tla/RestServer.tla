----------------------------- MODULE RestServer -----------------------------
(***************************************************************************)
(* std.rest-server, ts/src/plugins/rest-server/index.ts: resources mounted *)
(* as routes of the leased std.http-server, put back when a new generation *)
(* of it comes.  A resource stands for one path prefix and its routes.     *)
(***************************************************************************)
EXTENDS RouteTable

CONSTANTS
    Resource,   \* resources, the pathPrefixes of well-formed declarations
    Size,       \* the number of slots each declares
    MaxMount    \* bound on the calls of resource.mount that get to route.add

\* A path begins with a slash: no resource is called as the route of std.rpc is.
ASSUME RestAssumption == Size \in [Resource -> Nat \ {0}] /\ MaxMount \in Nat /\ "rpc" \notin Resource

VARIABLES
    rest,       \* [lease, usable]: the lease's generation, 0 for null
    mounts,     \* the records by resource: [ids, stamp], and the generation gen
                \* of std.http-server that gave the ids, which the code does not keep
    stamps,     \* the calls of resource.mount: a record is an object, known by its stamp
    jobs        \* its sequences of calls: of an invocation, the sink, stop()

restVars == <<rest, mounts, stamps, jobs>>

Job == {"invoke", "sink", "stop"}
Idle == [op |-> "idle"]
Running(j) == jobs[j].op # "idle"
Task(j) == <<"rest", j>>
Routes(r) == [i \in 1 .. Size[r] |-> <<r, i>>]
NoMounts == [r \in {} |-> {}]

RestInitial ==
    /\ rest = [lease |-> 0, usable |-> FALSE] /\ mounts = NoMounts /\ stamps = 0
    /\ jobs = [j \in Job |-> Idle]

\* The job's call was answered and its continuation runs.
Answered(j, op) == Calm /\ jobs[j].op = op /\ guard # Task(j)
Becomes(j, job) == jobs' = [jobs EXCEPT ![j] = job]

-----------------------------------------------------------------------------
(* addConventionRoutes()                                                   *)

\* A sequence that adds the routes of r; more are the records to do after it.
AddJob(r, g, more) == [op |-> "add", res |-> r, gen |-> g, of |-> g, ids |-> <<>>, ans |-> 0, more |-> more,
                       stamp |-> stamps + 1]

\* The next route.add of the job.
Adds(j, job) ==
    LET route == Routes(job.res)[Len(job.ids) + 1]
    IN  /\ RouteAdd(Task(j), "rest", job.gen, route)
        /\ Becomes(j, [job EXCEPT !.ans = AddAnswer("rest", job.gen, route)])

AddGoesOn(j) ==
    /\ Answered(j, "add") /\ jobs[j].ans # 0 /\ Len(jobs[j].ids) + 1 < Size[jobs[j].res]
    /\ Adds(j, [jobs[j] EXCEPT !.ids = Append(@, jobs[j].ans)])
    /\ UNCHANGED <<rest, mounts, stamps, rackVars>>

\* A failed route.add: the routes added are removed one by one, whatever each
\* answers.  (mutant: the last one is forgotten)
UndoneButLast(ids) == Front(ids)
Undone(ids) == ids
UndoJob(job) == [job EXCEPT !.op = "undo", !.ids = Undone(job.ids)]

\* The next route.remove, or none is left.
Undoes(j, job) ==
    IF job.ids = <<>> THEN Becomes(j, job) /\ UNCHANGED srvVars
    ELSE /\ RouteRemove(Task(j), "rest", job.gen, Head(job.ids), job.of)
         /\ Becomes(j, [job EXCEPT !.ids = Tail(@)])

AddFails(j) ==
    /\ Answered(j, "add") /\ jobs[j].ans = 0
    /\ IF jobs[j].ids = <<>> THEN Becomes(j, [jobs[j] EXCEPT !.op = "undo"]) /\ UNCHANGED srvVars
       ELSE Undoes(j, UndoJob(jobs[j]))
    /\ UNCHANGED <<rest, mounts, stamps, rackVars>>

UndoGoesOn(j) ==
    /\ Answered(j, "undo") /\ jobs[j].ids # <<>>
    /\ Undoes(j, jobs[j])
    /\ UNCHANGED <<rest, mounts, stamps, rackVars>>

\* remountAll() takes the next record; an invocation has none left.
NextRecord(j, g, more) ==
    IF more = {} THEN Becomes(j, Idle) /\ UNCHANGED srvVars
    ELSE \E m \in more : Adds(j, [AddJob(m.res, g, more \ {m}) EXCEPT !.stamp = m.stamp])

\* A mount that failed is answered; a record that could not be put back keeps
\* the ids it had.
AddGivenUp(j) ==
    /\ Answered(j, "undo") /\ jobs[j].ids = <<>>
    /\ NextRecord(j, jobs[j].gen, jobs[j].more)
    /\ UNCHANGED <<rest, mounts, stamps, rackVars>>

\* Every route is added: mountResource() makes the record, remountAll() writes
\* the ids into the one it had, which may be out of the map by now.
AddDone(j) ==
    /\ Answered(j, "add") /\ jobs[j].ans # 0 /\ Len(jobs[j].ids) + 1 = Size[jobs[j].res]
    /\ LET job == jobs[j]
           ids == Append(job.ids, job.ans)
       IN  /\ \/ /\ j = "invoke"
                 /\ mounts' = [r \in DOMAIN mounts \cup {job.res} |->
                                 IF r = job.res THEN [ids |-> ids, stamp |-> job.stamp, gen |-> job.gen] ELSE mounts[r]]
              \/ /\ j = "sink"
                 /\ mounts' = [r \in DOMAIN mounts |->
                                 IF r = job.res /\ mounts[r].stamp = job.stamp
                                 THEN [mounts[r] EXCEPT !.ids = ids, !.gen = job.gen] ELSE mounts[r]]
           /\ NextRecord(j, job.gen, job.more)
    /\ UNCHANGED <<rest, stamps, rackVars>>

-----------------------------------------------------------------------------
(* resource.mount and resource.unmount: one invocation at a time           *)

Invoked == Calm /\ life["rest"] = "active" /\ ~Running("invoke")
Usable == rest.lease # 0 /\ rest.usable

MountBegins(r) ==
    /\ Invoked /\ stamps < MaxMount
    /\ Usable /\ r \notin DOMAIN mounts
    /\ stamps' = stamps + 1
    /\ Adds("invoke", AddJob(r, rest.lease, {}))
    /\ UNCHANGED <<rest, mounts, rackVars>>

\* The next route.remove of the record; its id is taken out first.
Removes(r, g) ==
    LET id == Head(mounts[r].ids)
    IN  /\ RouteRemove(Task("invoke"), "rest", g, id, mounts[r].gen)
        /\ mounts' = [mounts EXCEPT ![r].ids = Tail(@)]
        /\ Becomes("invoke", [op |-> "remove", res |-> r, gen |-> g, id |-> id,
                              ok |-> RemoveAnswer("rest", g, id)])

Dropped(r) == mounts' = [x \in DOMAIN mounts \ {r} |-> mounts[x]]

UnmountBegins(r) ==
    /\ Invoked /\ r \in DOMAIN mounts
    /\ \/ ~Usable /\ Dropped(r) /\ UNCHANGED <<srvVars, jobs>>
       \/ Usable /\ mounts[r].ids # <<>> /\ Removes(r, rest.lease)
       \/ Usable /\ mounts[r].ids = <<>> /\ Dropped(r) /\ UNCHANGED <<srvVars, jobs>>
    /\ UNCHANGED <<rest, stamps, rackVars>>

\* The id of a failed removal goes back and the call fails.
UnmountGoesOn ==
    /\ Answered("invoke", "remove")
    /\ LET job == jobs["invoke"]
           r == job.res
           ids == IF r \in DOMAIN mounts THEN mounts[r].ids ELSE <<>>
       IN  \/ /\ r \in DOMAIN mounts /\ ~job.ok
              /\ mounts' = [mounts EXCEPT ![r].ids = <<job.id>> \o @]
              /\ Becomes("invoke", Idle) /\ UNCHANGED srvVars
           \/ /\ r \in DOMAIN mounts /\ job.ok /\ ids # <<>>
              /\ Removes(r, job.gen)
           \/ /\ (r \in DOMAIN mounts => job.ok) /\ ids = <<>>
              /\ Dropped(r) /\ Becomes("invoke", Idle) /\ UNCHANGED srvVars
    /\ UNCHANGED <<rest, stamps, rackVars>>

-----------------------------------------------------------------------------
(* The lease                                                               *)

Borrows == rest.lease = 0

Records == {[res |-> r, stamp |-> mounts[r].stamp] : r \in DOMAIN mounts}

\* onCapability(): borrows, and puts the recorded resources back; with a lease in
\* hand it does neither.
Offered ==
    /\ IF Borrows THEN Acquires("rest") ELSE UNCHANGED leases
    /\ rest' = [lease |-> IF Borrows THEN srv.gen ELSE rest.lease, usable |-> TRUE]
    /\ IF Borrows /\ life["rest"] = "active" THEN NextRecord("sink", srv.gen, Records)
       ELSE UNCHANGED <<jobs, srvVars>>

RestToldOffer ==
    /\ Told("rest") /\ Available
    /\ Offered
    /\ UNCHANGED <<mounts, stamps, watchers, revoking, life, lives>>

RestToldGone ==
    /\ Told("rest") /\ ~Available
    /\ rest' = [rest EXCEPT !.usable = FALSE]
    /\ UNCHANGED <<mounts, stamps, jobs, srvVars, leases, watchers, revoking, life, lives>>

\* onRevoke() clears the cached lease before it returns it.  (mutant: it keeps it)
LeaseKept == [rest EXCEPT !.usable = FALSE]
LeaseCleared == [lease |-> 0, usable |-> FALSE]
RestOnRevoke ==
    /\ Leased("rest", srv.gen) /\ Asked("rest")
    /\ IF rest.lease # srv.gen THEN UNCHANGED <<rest, leases>>
       ELSE rest' = LeaseCleared /\ leases' = Returned("rest")
    /\ UNCHANGED <<mounts, stamps, jobs, srvVars, watchers, telling, life, lives>>

-----------------------------------------------------------------------------
(* Its life                                                                *)

\* init() watches: the snapshot may tell of a server already.
RestInits ==
    /\ Calm /\ life["rest"] = "absent" /\ lives["rest"] < MaxLife["rest"]
    /\ life' = [life EXCEPT !["rest"] = "initialized"] /\ lives' = [lives EXCEPT !["rest"] = @ + 1]
    /\ watchers' = Append(watchers, "rest")
    /\ IF Available THEN Offered ELSE UNCHANGED <<rest, leases, jobs, srvVars>>
    /\ UNCHANGED <<mounts, stamps, telling, revoking>>

RestStarts ==
    /\ Calm /\ life["rest"] = "initialized"
    /\ life' = [life EXCEPT !["rest"] = "active"]
    /\ UNCHANGED <<restVars, srvVars, leases, watchers, telling, revoking, lives>>

\* What is left of an instance that is destroyed.
RestEnds ==
    /\ Forgotten("rest")
    /\ rest' = [lease |-> 0, usable |-> FALSE] /\ mounts' = NoMounts
    /\ jobs' = [j \in Job |-> Idle]
    /\ guard' = IF guard[1] = "rest" THEN Gone ELSE guard
    /\ spoiled' = (spoiled \/ \E id \in DOMAIN table : table[id][1] \in Resource)
    /\ UNCHANGED <<stamps, srv, table, seq, telling, revoking, lives>>

\* The unload protocol: no invocation is running.  stop() runs in a 'revoking'
\* instance, which has every route.remove refused.
RestUnloads == Calm /\ life["rest"] = "active" /\ ~Running("invoke") /\ RestEnds

\* A rollback calls stop() with the instance active: the removals go through.
AllIds == FlattenSeq([i \in 1 .. Cardinality(DOMAIN mounts) |-> mounts[SetToSeq(DOMAIN mounts)[i]].ids])

RestRollsBack ==
    /\ Calm /\ life["rest"] = "active"
    /\ life' = [life EXCEPT !["rest"] = "stopping"]
    /\ Unwatches("rest")
    /\ rest' = [lease |-> 0, usable |-> FALSE]
    /\ Undoes("stop", [op |-> "undo", gen |-> rest.lease,
                       of |-> IF \A r \in DOMAIN mounts : mounts[r].gen = srv.gen THEN srv.gen ELSE 0,
                       ids |-> IF Usable THEN AllIds ELSE <<>>])
    /\ UNCHANGED <<mounts, stamps, leases, telling, revoking, lives>>

RestStopGoesOn ==
    /\ Answered("stop", "undo")
    /\ IF jobs["stop"].ids = <<>> THEN RestEnds
       ELSE Undoes("stop", jobs["stop"]) /\ UNCHANGED <<rest, mounts, stamps, rackVars>>

-----------------------------------------------------------------------------
\* A continuation of the job.
JobStep(j) ==
    \/ j # "stop" /\ (AddGoesOn(j) \/ AddFails(j) \/ UndoGoesOn(j) \/ AddGivenUp(j) \/ AddDone(j))
    \/ j = "invoke" /\ UnmountGoesOn
    \/ j = "stop" /\ RestStopGoesOn

RestHears == RestToldOffer \/ RestToldGone \/ RestOnRevoke

RestNext ==
    \/ \E r \in Resource : MountBegins(r) \/ UnmountBegins(r)
    \/ \E j \in Job : JobStep(j)
    \/ RestHears \/ RestInits \/ RestStarts \/ RestUnloads \/ RestRollsBack
=============================================================================
