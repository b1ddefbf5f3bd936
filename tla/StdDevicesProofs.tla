-------------------------- MODULE StdDevicesProofs --------------------------
(***************************************************************************)
(* Proofs about the standard devices and rack-cli: the safety properties   *)
(* of StdDevices for any bounds, versions, keys and lifetimes.  Each part  *)
(* has an inductive invariant of its own; that of a CRUD request rests on  *)
(* what the paths and routes of CrudRoutes are.  At the end, the ring of   *)
(* std.log implements RecentLog, for every capacity and set of entries.    *)
(***************************************************************************)
EXTENDS StdDevices, SequenceTheorems, FiniteSetTheorems, WellFoundedInduction, TLAPS

USE OneCallAssumption, HttpClientAssumption, RestClientAssumption, TokenCacheAssumption, RingAssumption

\* The devices have their lives side by side.
Lives == life \in [Device -> {"active", "stopping", "stopped", "faulted"}]

-----------------------------------------------------------------------------
(* std.rest-client                                                         *)

RestInv ==
    /\ Lives
    /\ DOMAIN rc = {"up", "lease", "usable", "ask"} /\ rc.usable \in BOOLEAN
    /\ RestFollows

\* The devices that are not std.http-client leave its life alone.
LEMMA OthersLeaveHttp ==
    ASSUME Lives, TokenNext \/ RpcClientNext \/ NetNext \/ LogNext
    PROVE  Lives' /\ life'["http"] = life["http"]
  <1>1. CASE TokenNext
    BY <1>1 DEF Lives, Device, TokenNext, TokenCalled, Invalidates, Ticks, Replies, ReplyFails, Introspects,
       IntrospectEnds, OauthStops, Becomes
  <1>2. CASE RpcClientNext
    BY <1>2 DEF Lives, Device, RpcClientNext, ExchangeBegins, RpcStops, Becomes
  <1>3. CASE NetNext
    BY <1>3 DEF Lives, Device, NetNext, ProbeBegins, ProbeAnswered, ProbeTimesOut, LookupBegins, FamilyAnswers,
       LookupEnds, NetStops, NetStopEnds, Stopping, Stopped, Becomes
  <1>4. CASE LogNext
    BY <1>4 DEF Lives, Device, LogNext, Logs, Appends, LogStops, LogStopEnds, Stopping, Stopped, Becomes
  <1> QED
    BY <1>1, <1>2, <1>3, <1>4

LEMMA RestStep ==
    ASSUME RestInv, HttpNext
    PROVE  RestInv'
  <1>1. ASSUME NEW retries \in 0 .. MaxRetries, RequestBegins("direct", retries), UNCHANGED rcVars
        PROVE  RestInv'
    BY <1>1 DEF RestInv, Lives, RestFollows, RequestBegins, rcVars
  <1>2. CASE (HttpWork \/ HttpNetwork) /\ UNCHANGED <<life, calls, rcVars>>
    BY <1>2 DEF RestInv, Lives, RestFollows, rcVars
  <1>3. CASE HttpStopEnds /\ UNCHANGED rcVars
    BY <1>3 DEF RestInv, Lives, RestFollows, HttpStopEnds, Stopped, Becomes, rcVars, Device
  <1>4. CASE Performs \/ PerformEnds
    BY <1>4 DEF RestInv, Lives, RestFollows, Performs, RequestBegins, PerformEnds
  <1>5. CASE HttpComesBack
    <2>1. Lives' /\ life'["http"] = "active"
      BY <1>5 DEF HttpComesBack, RestInv, Lives, Becomes, Device
    <2>2. CASE ~rc.up
      BY <1>5, <2>1, <2>2 DEF HttpComesBack, RestInv, RestFollows
    <2>3. CASE rc.up /\ AcceptsVersion(HTTP_CLIENT_RANGE, gen'.version)
      BY <1>5, <2>1, <2>3 DEF HttpComesBack, OfferNoted, RestInv, RestFollows
    <2>4. CASE rc.up /\ ~AcceptsVersion(HTTP_CLIENT_RANGE, gen'.version)
      BY <1>5, <2>1, <2>4 DEF HttpComesBack, OfferNoted, RestInv, RestFollows
    <2> QED
      BY <2>2, <2>3, <2>4
  <1>6. CASE HttpRollsBack
    BY <1>6 DEF RestInv, Lives, RestFollows, HttpRollsBack, Stopping, Becomes, Withdrawn, Device
  <1>7. CASE HttpUnloads
    BY <1>7 DEF RestInv, Lives, RestFollows, HttpUnloads, Becomes, Withdrawn, Device
  <1>8. CASE RestClientStops
    BY <1>8 DEF RestInv, Lives, RestFollows, RestClientStops
  <1> QED
    BY <1>1, <1>2, <1>3, <1>4, <1>5, <1>6, <1>7, <1>8 DEF HttpNext, RestClientNext

\* std.rest-client and the registry agree on whether std.http-client can be used,
\* through unloads, rollbacks, versions out of range and leases that were kept.
THEOREM ClientFollows == Spec => []RestFollows
  <1>1. Init => RestInv
    <2> SUFFICES ASSUME Init PROVE RestInv
      OBVIOUS
    <2>1. Lives /\ life["http"] = "active"
      BY DEF Init, InitDevices, Lives, Device
    <2>2. gen.version \in {v \in HttpVersions : AcceptsVersion(HTTP_CLIENT_RANGE, v)}
      BY DEF Init, InitRestClient
    <2>3. rc = [up |-> TRUE, lease |-> 1, usable |-> TRUE, ask |-> NoAsk]
      BY DEF Init, InitRestClient
    <2> QED
      BY <2>1, <2>2, <2>3 DEF RestInv, RestFollows
  <1>2. RestInv /\ [Next]_vars => RestInv'
    <2> SUFFICES ASSUME RestInv, [Next]_vars PROVE RestInv'
      OBVIOUS
    <2>1. CASE HttpNext
      BY <2>1, RestStep
    <2>2. CASE (TokenNext \/ RpcClientNext \/ NetNext \/ LogNext) /\ UNCHANGED rcVars
      BY <2>2, OthersLeaveHttp DEF RestInv, RestFollows, rcVars
    <2>3. CASE UNCHANGED <<life, rcVars>>
      BY <2>3 DEF RestInv, Lives, RestFollows, rcVars
    <2> QED
      BY <2>1, <2>2, <2>3 DEF Next, vars
  <1>3. RestInv => RestFollows
    BY DEF RestInv
  <1> QED
    BY <1>1, <1>2, <1>3, PTL DEF Spec

-----------------------------------------------------------------------------
(* The method crud: what std.rest-client sends is what std.rest-server     *)
(* registers.  The recursive functions of CrudRoutes are over the          *)
(* segments of a path and over the five conventions: each is proved to be  *)
(* the function that is written out.                                       *)

\* A sequence of one, of two and of three is the tuple of its elements.
LEMMA OneIs ==
    ASSUME NEW S, NEW s \in Seq(S), Len(s) = 1
    PROVE  s = <<s[1]>>
  OBVIOUS

LEMMA TwoIs ==
    ASSUME NEW S, NEW s \in Seq(S), Len(s) = 2
    PROVE  s = <<s[1], s[2]>>
  <1>1. PICK t : t = <<s[1], s[2]>>
    OBVIOUS
  <1>2. \A i \in 1 .. Len(s) : s[i] \in S
    BY ElementOfSeq
  <1>3. t \in Seq(S) /\ Len(t) = 2 /\ t[1] = s[1] /\ t[2] = s[2]
    BY <1>1, <1>2
  <1>4. \A i \in 1 .. 2 : i = 1 \/ i = 2
    OBVIOUS
  <1>5. \A i \in 1 .. Len(s) : s[i] = t[i]
    BY <1>3, <1>4
  <1>6. s = t
    BY <1>3, <1>5, SeqEqual
  <1> QED
    BY <1>1, <1>6

LEMMA ThreeIs ==
    ASSUME NEW S, NEW s \in Seq(S), Len(s) = 3
    PROVE  s = <<s[1], s[2], s[3]>>
  <1>1. PICK t : t = <<s[1], s[2], s[3]>>
    OBVIOUS
  <1>2. \A i \in 1 .. Len(s) : s[i] \in S
    BY ElementOfSeq
  <1>3. t \in Seq(S) /\ Len(t) = 3 /\ t[1] = s[1] /\ t[2] = s[2] /\ t[3] = s[3]
    BY <1>1, <1>2
  <1>4. \A i \in 1 .. 3 : i = 1 \/ i = 2 \/ i = 3
    OBVIOUS
  <1>5. \A i \in 1 .. Len(s) : s[i] = t[i]
    BY <1>3, <1>4
  <1>6. s = t
    BY <1>3, <1>5, SeqEqual
  <1> QED
    BY <1>1, <1>6

\* The tuples that the model concatenates and appends to.
LEMMA Joined ==
    ASSUME NEW a, NEW b, NEW c
    PROVE  /\ <<a>> \o <<b>> = <<a, b>> /\ <<a, b>> \o <<>> = <<a, b>> /\ <<a, b>> \o <<c>> = <<a, b, c>>
           /\ Append(<<>>, a) = <<a>> /\ Append(<<a>>, b) = <<a, b>> /\ Append(<<a, b>>, c) = <<a, b, c>>
  <1> DEFINE S == {a, b, c}
  <1>1. /\ <<a>> \in Seq(S) /\ <<b>> \in Seq(S) /\ <<c>> \in Seq(S) /\ <<a, b>> \in Seq(S) /\ <<a, b, c>> \in Seq(S)
        /\ <<>> \in Seq(S) /\ a \in S /\ b \in S /\ c \in S
    OBVIOUS
  <1>2. /\ Len(<<a>>) = 1 /\ Len(<<b>>) = 1 /\ Len(<<c>>) = 1 /\ Len(<<a, b>>) = 2 /\ Len(<<>>) = 0
        /\ <<a>>[1] = a /\ <<b>>[1] = b /\ <<c>>[1] = c
        /\ <<a, b>>[1] = a /\ <<a, b>>[2] = b
    OBVIOUS
  <1>3. PICK s1, s2, s3, s12 : s1 = <<a>> /\ s2 = <<b>> /\ s3 = <<c>> /\ s12 = <<a, b>>
    OBVIOUS
  <1>4. s1 \o s2 \in Seq(S) /\ Len(s1 \o s2) = 2 /\ (s1 \o s2)[1] = a /\ (s1 \o s2)[2] = b
    BY <1>1, <1>2, <1>3, ConcatProperties
  <1>5. s1 \o s2 = <<a, b>>
    BY <1>4, TwoIs
  <1>6. s12 \o s3 \in Seq(S) /\ Len(s12 \o s3) = 3 /\ (s12 \o s3)[1] = a /\ (s12 \o s3)[2] = b /\ (s12 \o s3)[3] = c
    BY <1>1, <1>2, <1>3, ConcatProperties
  <1>7. s12 \o s3 = <<a, b, c>>
    BY <1>6, ThreeIs
  <1>8. s12 \o <<>> = s12
    BY <1>1, <1>3, ConcatEmptySeq
  <1>9. Append(<<>>, a) \in Seq(S) /\ Len(Append(<<>>, a)) = 1 /\ Append(<<>>, a)[1] = a
    BY <1>1, <1>2, AppendProperties
  <1>10. Append(<<>>, a) = <<a>>
    BY <1>9, OneIs
  <1>11. Append(s1, b) \in Seq(S) /\ Len(Append(s1, b)) = 2 /\ Append(s1, b)[1] = a /\ Append(s1, b)[2] = b
    BY <1>1, <1>2, <1>3, AppendProperties
  <1>12. Append(s1, b) = <<a, b>>
    BY <1>11, TwoIs
  <1>13. Append(s12, c) \in Seq(S) /\ Len(Append(s12, c)) = 3
         /\ Append(s12, c)[1] = a /\ Append(s12, c)[2] = b /\ Append(s12, c)[3] = c
    BY <1>1, <1>2, <1>3, AppendProperties
  <1>14. Append(s12, c) = <<a, b, c>>
    BY <1>13, ThreeIs
  <1> QED
    BY <1>3, <1>5, <1>7, <1>8, <1>10, <1>12, <1>14

Convention == 1 .. 5

\* CONVENTIONS, one by one.
LEMMA ConventionsAre ==
    /\ Len(Conventions) = 5
    /\ Conventions[1] = [verb |-> "GET",    slot |-> "list",   id |-> FALSE]
    /\ Conventions[2] = [verb |-> "GET",    slot |-> "get",    id |-> TRUE]
    /\ Conventions[3] = [verb |-> "POST",   slot |-> "create", id |-> FALSE]
    /\ Conventions[4] = [verb |-> "PUT",    slot |-> "update", id |-> TRUE]
    /\ Conventions[5] = [verb |-> "DELETE", slot |-> "remove", id |-> TRUE]
    /\ Slots = {"list", "get", "create", "update", "remove"}
  <1>1. /\ Len(Conventions) = 5
        /\ Conventions[1] = [verb |-> "GET",    slot |-> "list",   id |-> FALSE]
        /\ Conventions[2] = [verb |-> "GET",    slot |-> "get",    id |-> TRUE]
        /\ Conventions[3] = [verb |-> "POST",   slot |-> "create", id |-> FALSE]
        /\ Conventions[4] = [verb |-> "PUT",    slot |-> "update", id |-> TRUE]
        /\ Conventions[5] = [verb |-> "DELETE", slot |-> "remove", id |-> TRUE]
    BY DEF Conventions
  <1>2. DOMAIN Conventions = 1 .. 5
    BY DEF Conventions
  <1>3. Range(Conventions) = {Conventions[i] : i \in 1 .. 5}
    BY <1>2 DEF Range
  <1>4. Range(Conventions) = {Conventions[1], Conventions[2], Conventions[3], Conventions[4], Conventions[5]}
    BY <1>3
  <1>5. Slots = {"list", "get", "create", "update", "remove"}
    BY <1>1, <1>4 DEF Slots
  <1> QED
    BY <1>1, <1>5

\* Resolved of two and of three segments: the recursive function is found by giving it.
LEMMA ResolvedTwo ==
    ASSUME NEW a, NEW b
    PROVE  Resolved(<<a, b>>) = AfterSegment(AfterSegment(<<>>, a), b) \o (IF b \in {".", ".."} THEN <<"">> ELSE <<>>)
  <1> DEFINE F(f) == [n \in 0 .. 2 |-> IF n = 0 THEN <<>> ELSE AfterSegment(f[n - 1], <<a, b>>[n])]
             done == CHOOSE f : f = F(f)
             e1 == AfterSegment(<<>>, a)
             e2 == AfterSegment(e1, b)
             g == [n \in 0 .. 2 |-> IF n = 0 THEN <<>> ELSE IF n = 1 THEN e1 ELSE e2]
  <1>1. g = F(g)
    <2>1. \A n \in 0 .. 2 : g[n] = F(g)[n]
      OBVIOUS
    <2> QED
      BY <2>1
  <1>2. done = F(done)
    BY <1>1
  <1>3. Len(<<a, b>>) = 2 /\ Last(<<a, b>>) = b
    BY DEF Last
  <1>4. Resolved(<<a, b>>) = done[2] \o (IF b \in {".", ".."} THEN <<"">> ELSE <<>>)
    BY <1>3, Zenon DEF Resolved
  <1> HIDE DEF done
  <1>5. done[0] = <<>> /\ done[1] = AfterSegment(done[0], a) /\ done[2] = AfterSegment(done[1], b)
    BY <1>2
  <1> QED
    BY <1>4, <1>5

LEMMA ResolvedThree ==
    ASSUME NEW a, NEW b, NEW c
    PROVE  Resolved(<<a, b, c>>)
           = AfterSegment(AfterSegment(AfterSegment(<<>>, a), b), c) \o (IF c \in {".", ".."} THEN <<"">> ELSE <<>>)
  <1> DEFINE F(f) == [n \in 0 .. 3 |-> IF n = 0 THEN <<>> ELSE AfterSegment(f[n - 1], <<a, b, c>>[n])]
             done == CHOOSE f : f = F(f)
             e1 == AfterSegment(<<>>, a)
             e2 == AfterSegment(e1, b)
             e3 == AfterSegment(e2, c)
             g == [n \in 0 .. 3 |-> IF n = 0 THEN <<>> ELSE IF n = 1 THEN e1 ELSE IF n = 2 THEN e2 ELSE e3]
  <1>1. g = F(g)
    <2>1. \A n \in 0 .. 3 : g[n] = F(g)[n]
      OBVIOUS
    <2> QED
      BY <2>1
  <1>2. done = F(done)
    BY <1>1
  <1>3. Len(<<a, b, c>>) = 3 /\ Last(<<a, b, c>>) = c
    BY DEF Last
  <1>4. Resolved(<<a, b, c>>) = done[3] \o (IF c \in {".", ".."} THEN <<"">> ELSE <<>>)
    BY <1>3, Zenon DEF Resolved
  <1> HIDE DEF done
  <1>5. /\ done[0] = <<>> /\ done[1] = AfterSegment(done[0], a)
        /\ done[2] = AfterSegment(done[1], b) /\ done[3] = AfterSegment(done[2], c)
    BY <1>2
  <1> QED
    BY <1>4, <1>5

LEMMA FrontOfTwo ==
    ASSUME NEW a, NEW b
    PROVE  Front(<<a, b>>) = <<a>>
  <1>1. PICK s : s = <<a, b>>
    OBVIOUS
  <1>2. s \in Seq({a, b}) /\ Len(s) = 2 /\ s[1] = a
    BY <1>1
  <1>3. \A i \in 1 .. 1 : s[i] \in {a, b}
    BY <1>2
  <1>4. /\ SubSeq(s, 1, 1) \in Seq({a, b}) /\ Len(SubSeq(s, 1, 1)) = 1
        /\ SubSeq(s, 1, 1)[1] = a
    BY <1>2, <1>3, SubSeqProperties
  <1>5. Front(s) = SubSeq(s, 1, 1)
    BY <1>2 DEF Front
  <1>6. SubSeq(s, 1, 1) = <<a>>
    BY <1>4, OneIs
  <1> QED
    BY <1>1, <1>5, <1>6

Collection == <<"api", "users">>
\* A dot segment leaves a path that ends in a slash, another id stays.
LEMMA TargetIs ==
    ASSUME NEW ask, ask.id = <<>> \/ \E x : ask.id = <<x>>
    PROVE  LET path == TargetPath(<<"api">>, "users", ask)
           IN  /\ ask.id = <<>> => path = Collection
               /\ \A x : ask.id = <<x>> /\ x \notin {".", ".."} => path = <<"api", "users", x>>
               /\ \A x : ask.id = <<x>> /\ x \in {".", ".."} => Last(path) = ""
  <1> DEFINE path == TargetPath(<<"api">>, "users", ask)
  <1>1. AfterSegment(<<>>, "api") = <<"api">> /\ AfterSegment(<<"api">>, "users") = Collection
    BY Joined DEF AfterSegment, Collection
  <1>2. ASSUME ask.id = <<>>
        PROVE  path = Collection
    <2>1. <<"api">> \o <<"users">> \o ask.id = <<"api", "users">>
      BY <1>2, Joined
    <2>2. path = Resolved(<<"api", "users">>)
      BY <2>1 DEF TargetPath
    <2>3. path = Collection \o <<>>
      BY <1>1, <2>2, ResolvedTwo
    <2> QED
      BY <2>3, Joined DEF Collection
  <1>3. ASSUME NEW x, ask.id = <<x>>
        PROVE  path = AfterSegment(Collection, x) \o (IF x \in {".", ".."} THEN <<"">> ELSE <<>>)
    <2>1. <<"api">> \o <<"users">> = <<"api", "users">> /\ <<"api", "users">> \o <<x>> = <<"api", "users", x>>
      BY Joined
    <2>2. path = Resolved(<<"api", "users", x>>)
      BY <1>3, <2>1 DEF TargetPath
    <2>3. Resolved(<<"api", "users", x>>)
          = AfterSegment(AfterSegment(AfterSegment(<<>>, "api"), "users"), x) \o (IF x \in {".", ".."} THEN <<"">> ELSE <<>>)
      BY ResolvedThree
    <2> QED
      BY <1>1, <2>2, <2>3, Zenon
  <1>4. ASSUME NEW x, ask.id = <<x>>, x \notin {".", ".."}
        PROVE  path = <<"api", "users", x>>
    <2>1. path = Append(Collection, x) \o <<>>
      BY <1>3, <1>4 DEF AfterSegment
    <2> QED
      BY <2>1 DEF Collection
  <1>5. ASSUME NEW x, ask.id = <<x>>, x \in {".", ".."}
        PROVE  Last(path) = ""
    <2>1. Front(Collection) = <<"api">> /\ Collection # <<>>
      BY FrontOfTwo DEF Collection
    <2>2. AfterSegment(Collection, x) = Collection \/ AfterSegment(Collection, x) = <<"api">>
      BY <1>5, <2>1 DEF AfterSegment
    <2>3. <<"api">> \o <<"">> = <<"api", "">> /\ Collection \o <<"">> = <<"api", "users", "">>
      BY Joined DEF Collection
    <2>4. path = <<"api", "users", "">> \/ path = <<"api", "">>
      BY <1>3, <1>5, <2>2, <2>3
    <2>5. Last(<<"api", "users", "">>) = "" /\ Last(<<"api", "">>) = ""
      BY DEF Last
    <2> QED
      BY <2>4, <2>5
  <1> QED
    BY <1>2, <1>4, <1>5

\* The elements of R are those of S.
Lists(R, S) == R \in Seq(S) /\ \A x \in S : \E i \in 1 .. Len(R) : R[i] = x

\* Lists survives an Append and a concatenation.
LEMMA AppendLists ==
    ASSUME NEW R, NEW S, NEW x, Lists(R, S)
    PROVE  Lists(Append(R, x), S \cup {x})
  <1> DEFINE T == S \cup {x}
  <1>1. R \in Seq(T) /\ x \in T /\ Len(R) \in Nat
    <2>1. \A i \in 1 .. Len(R) : R[i] \in S
      BY ElementOfSeq DEF Lists
    <2>2. R \in Seq(S) /\ Len(R) \in Nat /\ R = [i \in 1 .. Len(R) |-> R[i]]
      BY DEF Lists
    <2> QED
      BY <2>1, <2>2
  <1> HIDE DEF T
  <1>2. /\ Append(R, x) \in Seq(T) /\ Len(Append(R, x)) = Len(R) + 1
        /\ \A i \in 1 .. Len(R) : Append(R, x)[i] = R[i]
        /\ Append(R, x)[Len(R) + 1] = x
    BY <1>1, AppendProperties
  <1>3. \A i \in 1 .. Len(R) : i \in 1 .. Len(Append(R, x))
    BY <1>1, <1>2
  <1>4. Len(R) + 1 \in 1 .. Len(Append(R, x))
    BY <1>1, <1>2
  <1>5. \A y \in S : \E i \in 1 .. Len(Append(R, x)) : Append(R, x)[i] = y
    BY <1>2, <1>3 DEF Lists
  <1> QED
    BY <1>2, <1>4, <1>5 DEF Lists, T

LEMMA JoinLists ==
    ASSUME NEW R, NEW S, NEW Q, NEW T, Lists(R, S), Lists(Q, T)
    PROVE  Lists(R \o Q, S \cup T)
  <1> DEFINE U == S \cup T
  <1>1. R \in Seq(U) /\ Len(R) \in Nat
    <2>1. \A i \in 1 .. Len(R) : R[i] \in S
      BY ElementOfSeq DEF Lists
    <2>2. R \in Seq(S) /\ Len(R) \in Nat /\ R = [i \in 1 .. Len(R) |-> R[i]]
      BY DEF Lists
    <2> QED
      BY <2>1, <2>2
  <1>2. Q \in Seq(U) /\ Len(Q) \in Nat
    <2>1. \A i \in 1 .. Len(Q) : Q[i] \in T
      BY ElementOfSeq DEF Lists
    <2>2. Q \in Seq(T) /\ Len(Q) \in Nat /\ Q = [i \in 1 .. Len(Q) |-> Q[i]]
      BY DEF Lists
    <2> QED
      BY <2>1, <2>2
  <1> HIDE DEF U
  <1>3. /\ R \o Q \in Seq(U) /\ Len(R \o Q) = Len(R) + Len(Q)
        /\ \A i \in 1 .. Len(R) + Len(Q) : (R \o Q)[i] = IF i <= Len(R) THEN R[i] ELSE Q[i - Len(R)]
    BY <1>1, <1>2, ConcatProperties
  <1>4. \A i \in 1 .. Len(R) : i \in 1 .. Len(R \o Q) /\ (R \o Q)[i] = R[i]
    BY <1>1, <1>2, <1>3
  <1>5. ASSUME NEW i \in 1 .. Len(Q)
        PROVE  Len(R) + i \in 1 .. Len(R \o Q) /\ (R \o Q)[Len(R) + i] = Q[i]
    <2>1. /\ Len(R) + i \in 1 .. Len(R) + Len(Q) /\ ~(Len(R) + i <= Len(R))
          /\ (Len(R) + i) - Len(R) = i
      BY <1>1, <1>2
    <2> QED
      BY <1>3, <2>1
  <1>6. \A y \in S : \E i \in 1 .. Len(R \o Q) : (R \o Q)[i] = y
    BY <1>4 DEF Lists
  <1>7. \A y \in T : \E i \in 1 .. Len(R \o Q) : (R \o Q)[i] = y
    BY <1>5 DEF Lists
  <1> QED
    BY <1>3, <1>6, <1>7 DEF Lists, U

\* The routes of the first n conventions.
Made(prefix, named, n) ==
    {RouteOf(prefix, Conventions[k]) : k \in {c \in 1 .. n : Conventions[c].slot \in named}}
With(prefix, named, n, R) ==
    IF Conventions[n].slot \in named THEN Append(R, RouteOf(prefix, Conventions[n])) ELSE R

LEMMA WithLists ==
    ASSUME NEW prefix, NEW named, NEW n \in Convention, NEW R, Lists(R, Made(prefix, named, n - 1))
    PROVE  Lists(With(prefix, named, n, R), Made(prefix, named, n))
  <1>1. \A c : c \in 1 .. n <=> (c \in 1 .. n - 1 \/ c = n)
    BY DEF Convention
  <1>2. CASE Conventions[n].slot \in named
    <2>1. Made(prefix, named, n) = Made(prefix, named, n - 1) \cup {RouteOf(prefix, Conventions[n])}
      BY <1>1, <1>2 DEF Made
    <2> QED
      BY <1>2, <2>1, AppendLists DEF With
  <1>3. CASE Conventions[n].slot \notin named
    <2>1. Made(prefix, named, n) = Made(prefix, named, n - 1)
      BY <1>1, <1>3 DEF Made
    <2> QED
      BY <1>3, <2>1 DEF With
  <1> QED
    BY <1>2, <1>3

\* The routes of a declaration are those of the conventions whose slots it names.
LEMMA RoutesAre ==
    ASSUME NEW prefix, NEW named
    PROVE  Lists(RoutesOf(prefix, named), Made(prefix, named, 5))
  <1> DEFINE F(f) ==
               [n \in 0 .. 5 |-> IF n = 0 THEN <<>>
                                 ELSE IF Conventions[n].slot \in named
                                      THEN Append(f[n - 1], RouteOf(prefix, Conventions[n])) ELSE f[n - 1]]
             upTo == CHOOSE f : f = F(f)
             W(n, R) == With(prefix, named, n, R)
             e1 == W(1, <<>>)
             e2 == W(2, e1)
             e3 == W(3, e2)
             e4 == W(4, e3)
             e5 == W(5, e4)
             g == [n \in 0 .. 5 |-> IF n = 0 THEN <<>> ELSE IF n = 1 THEN e1 ELSE IF n = 2 THEN e2
                                    ELSE IF n = 3 THEN e3 ELSE IF n = 4 THEN e4 ELSE e5]
  <1>1. g = F(g)
    <2>1. /\ g[0] = <<>> /\ g[1] = W(1, g[0]) /\ g[2] = W(2, g[1])
          /\ g[3] = W(3, g[2]) /\ g[4] = W(4, g[3]) /\ g[5] = W(5, g[4])
      <3> HIDE DEF W
      <3> QED
        OBVIOUS
    <2> HIDE DEF g
    <2>2. \A n \in 1 .. 5 : n = 1 \/ n = 2 \/ n = 3 \/ n = 4 \/ n = 5
      OBVIOUS
    <2>3. \A n \in 1 .. 5 : g[n] = W(n, g[n - 1])
      <3> HIDE DEF W
      <3> QED
        BY <2>1, <2>2
    <2>4. \A n \in 0 .. 5 : g[n] = F(g)[n]
      BY <2>1, <2>3 DEF With
    <2> QED
      BY <2>4 DEF g
  <1>2. upTo = F(upTo)
    BY <1>1
  <1>3. RoutesOf(prefix, named) = upTo[5]
    BY ConventionsAre, Zenon DEF RoutesOf
  <1> HIDE DEF upTo
  <1>4. upTo[0] = <<>> /\ \A n \in Convention : upTo[n] = W(n, upTo[n - 1])
    <2>1. \A n \in 0 .. 5 : upTo[n] = F(upTo)[n]
      BY <1>2
    <2>2. upTo[0] = <<>>
      BY <2>1
    <2>3. ASSUME NEW n \in Convention
          PROVE  upTo[n] = W(n, upTo[n - 1])
      <3>1. n \in 0 .. 5 /\ n # 0
        BY DEF Convention
      <3> QED
        BY <2>1, <3>1 DEF With
    <2> QED
      BY <2>2, <2>3
  <1>5. Made(prefix, named, 0) = {} /\ Lists(<<>>, {})
    BY DEF Made, Lists
  <1> HIDE DEF F
  <1>6. \A n \in Convention : Lists(upTo[n - 1], Made(prefix, named, n - 1)) => Lists(upTo[n], Made(prefix, named, n))
    BY <1>4, WithLists
  <1> HIDE DEF W
  <1>7. Lists(upTo[0], Made(prefix, named, 0))
    BY <1>4, <1>5
  <1>8. Lists(upTo[1], Made(prefix, named, 1))
    BY <1>6, <1>7 DEF Convention
  <1>9. Lists(upTo[2], Made(prefix, named, 2))
    BY <1>6, <1>8 DEF Convention
  <1>10. Lists(upTo[3], Made(prefix, named, 3))
    BY <1>6, <1>9 DEF Convention
  <1>11. Lists(upTo[4], Made(prefix, named, 4))
    BY <1>6, <1>10 DEF Convention
  <1>12. Lists(upTo[5], Made(prefix, named, 5))
    BY <1>6, <1>11 DEF Convention
  <1> QED
    BY <1>3, <1>12

Items == <<"api", "items">>
\* The routes of users with some methods and those of items with all of them.
Mounted(some) == Made(Collection, some, 5) \cup Made(Items, Slots, 5)

\* What the client sends for the convention c and the id x.
Sent(c, x) == IF Conventions[c].id THEN <<"api", "users", x>> ELSE Collection

\* SetToSeq of at most one element.
LEMMA OneListed ==
    ASSUME NEW x
    PROVE  SetToSeq({}) = <<>> /\ SetToSeq({x}) = <<x>>
  <1>1. Cardinality({}) = 0 /\ Cardinality({x}) = 1
    BY FS_EmptySet, FS_Singleton
  <1>2. SetToSeq({}) = <<>>
    <2>1. \A f \in [1 .. 0 -> {}] : f = <<>>
      OBVIOUS
    <2>2. <<>> \in [1 .. 0 -> {}] /\ IsInjective(<<>>)
      BY DEF IsInjective
    <2>3. SetToSeq({}) \in [1 .. 0 -> {}]
      BY <1>1, <2>2 DEF SetToSeq
    <2> QED
      BY <2>1, <2>3
  <1>3. SetToSeq({x}) = <<x>>
    <2>1. \A f \in [1 .. 1 -> {x}] : f = <<x>>
      OBVIOUS
    <2>2. [i \in 1 .. 1 |-> x] \in [1 .. 1 -> {x}] /\ IsInjective([i \in 1 .. 1 |-> x])
      BY DEF IsInjective
    <2>3. SetToSeq({x}) \in [1 .. 1 -> {x}]
      BY <1>1, <2>2 DEF SetToSeq
    <2> QED
      BY <2>1, <2>3
  <1> QED
    BY <1>2, <1>3

LEMMA ConventionNumbers ==
    \A n \in Convention : n = 1 \/ n = 2 \/ n = 3 \/ n = 4 \/ n = 5
  BY DEF Convention

LEMMA ConventionIds ==
    \A n \in Convention : Conventions[n].id \in BOOLEAN
  <1>1. Conventions[1].id \in BOOLEAN /\ Conventions[2].id \in BOOLEAN /\ Conventions[3].id \in BOOLEAN
    BY ConventionsAre
  <1>2. Conventions[4].id \in BOOLEAN /\ Conventions[5].id \in BOOLEAN
    BY ConventionsAre
  <1> QED
    BY <1>1, <1>2, ConventionNumbers

\* No two conventions share a verb and the want of an id.
LEMMA ConventionsDiffer ==
    ASSUME NEW k \in Convention, NEW c \in Convention, Conventions[k].verb = Conventions[c].verb,
           Conventions[k].id = Conventions[c].id
    PROVE  k = c
  BY ConventionNumbers, ConventionsAre

LEMMA RouteIs ==
    ASSUME NEW prefix \in {Collection, Items}, NEW c \in Convention
    PROVE  LET route == RouteOf(prefix, Conventions[c])
           IN  /\ route.path = IF Conventions[c].id THEN <<"api", prefix[2], ":id">> ELSE <<"api", prefix[2]>>
               /\ route.verb = Conventions[c].verb /\ route.slot = Conventions[c].slot /\ route.prefix = prefix
               /\ prefix[2] = (IF prefix = Collection THEN "users" ELSE "items")
  <1>1. Collection[2] = "users" /\ Items[2] = "items" /\ Items # Collection
    BY DEF Collection, Items
  <1>2. Append(<<"api", "users">>, ":id") = <<"api", "users", ":id">> /\ Append(<<"api", "items">>, ":id") = <<"api", "items", ":id">>
    BY Joined
  <1>3. prefix = <<"api", prefix[2]>>
    BY <1>1 DEF Collection, Items
  <1>4. Append(prefix, ":id") = <<"api", prefix[2], ":id">>
    BY <1>1, <1>2 DEF Collection, Items
  <1> QED
    BY <1>1, <1>3, <1>4 DEF RouteOf, ConventionPath, IdParam

LEMMA TupleIs ==
    ASSUME NEW a, NEW b, NEW c
    PROVE  /\ Len(<<a, b, c>>) = 3 /\ DOMAIN <<a, b, c>> = 1 .. 3 /\ <<a, b, c>> # <<>>
           /\ <<a, b, c>>[1] = a /\ <<a, b, c>>[2] = b /\ <<a, b, c>>[3] = c
           /\ Len(<<a, b>>) = 2 /\ DOMAIN <<a, b>> = 1 .. 2 /\ <<a, b>> # <<>>
           /\ <<a, b>>[1] = a /\ <<a, b>>[2] = b
  OBVIOUS

LEMMA TripleIs ==
    ASSUME NEW q, NEW a, NEW b, NEW c, q = <<a, b, c>>
    PROVE  Len(q) = 3 /\ q[1] = a /\ q[2] = b /\ q[3] = c /\ DOMAIN q = 1 .. 3 /\ q # <<>>
  BY TupleIs

LEMMA SmallNumbers ==
    (\A i : i \in 1 .. 2 <=> i = 1 \/ i = 2) /\ (\A i : i \in 1 .. 3 <=> i = 1 \/ i = 2 \/ i = 3)
  OBVIOUS

NonEmpty(x) == x # ""

\* A pattern of three segments, and of two.
LEMMA ThreeMatch ==
    ASSUME NEW s \in {"users", "items"}, NEW x, NonEmpty(x), NEW route, route.path = <<"api", s, ":id">>
    PROVE  MatchSegments(route, <<"api", "users", x>>) <=> s = "users"
  <1>1. PICK p, q : p = <<"api", s, ":id">> /\ q = <<"api", "users", x>>
    OBVIOUS
  <1>2. Len(p) = 3 /\ p[1] = "api" /\ p[2] = s /\ p[3] = ":id"
    BY <1>1, TupleIs
  <1>3. Len(q) = 3 /\ q[1] = "api" /\ q[2] = "users" /\ q[3] = x /\ DOMAIN q = 1 .. 3 /\ q # <<>>
    BY <1>1, TripleIs
  <1>4. (\A i \in 1 .. 3 : p[i] = ":id" \/ p[i] = q[i])
          <=> (p[1] = ":id" \/ p[1] = q[1]) /\ (p[2] = ":id" \/ p[2] = q[2]) /\ (p[3] = ":id" \/ p[3] = q[3])
    BY SmallNumbers
  <1>5. (\A i \in 1 .. 3 : p[i] = ":id" \/ p[i] = q[i]) <=> s = "users"
    BY <1>2, <1>3, <1>4
  <1>6. Last(q) # ""
    BY <1>3, Zenon DEF Last, NonEmpty
  <1>7. MatchSegments(route, q) <=> Len(q) = Len(p) /\ \A i \in DOMAIN q : p[i] = ":id" \/ p[i] = q[i]
    BY <1>1, <1>3, <1>6 DEF MatchSegments, IdParam
  <1> QED
    BY <1>1, <1>2, <1>3, <1>5, <1>7

LEMMA TwoMatch ==
    ASSUME NEW s \in {"users", "items"}, NEW route, route.path = <<"api", s>>
    PROVE  MatchSegments(route, <<"api", "users">>) <=> s = "users"
  <1>1. PICK p, q : p = <<"api", s>> /\ q = <<"api", "users">>
    OBVIOUS
  <1>2. Len(p) = 2 /\ p[1] = "api" /\ p[2] = s
    BY <1>1, TupleIs
  <1>3. Len(q) = 2 /\ q[1] = "api" /\ q[2] = "users" /\ DOMAIN q = 1 .. 2 /\ q # <<>>
    BY <1>1, TupleIs
  <1>4. (\A i \in 1 .. 2 : p[i] = ":id" \/ p[i] = q[i])
          <=> (p[1] = ":id" \/ p[1] = q[1]) /\ (p[2] = ":id" \/ p[2] = q[2])
    BY SmallNumbers
  <1>5. (\A i \in 1 .. 2 : p[i] = ":id" \/ p[i] = q[i]) <=> s = "users"
    BY <1>2, <1>3, <1>4
  <1>6. Last(q) # ""
    BY <1>3 DEF Last
  <1>7. MatchSegments(route, q) <=> Len(q) = Len(p) /\ \A i \in DOMAIN q : p[i] = ":id" \/ p[i] = q[i]
    BY <1>1, <1>3, <1>6 DEF MatchSegments, IdParam
  <1> QED
    BY <1>1, <1>2, <1>3, <1>5, <1>7

LEMMA OtherLength ==
    ASSUME NEW a, NEW b, NEW c, NEW d, NEW e, NEW route
    PROVE  /\ route.path = <<a, b, c>> => ~MatchSegments(route, <<d, e>>)
           /\ route.path = <<a, b>> => ~MatchSegments(route, <<c, d, e>>)
  <1>1. Len(<<a, b, c>>) = 3 /\ Len(<<d, e>>) = 2 /\ Len(<<a, b>>) = 2 /\ Len(<<c, d, e>>) = 3
    BY TupleIs
  <1>2. ASSUME route.path = <<a, b, c>>
        PROVE  ~MatchSegments(route, <<d, e>>)
    <2>1. Len(<<d, e>>) # Len(route.path)
      BY <1>1, <1>2
    <2> QED
      BY <2>1, Zenon DEF MatchSegments
  <1>3. ASSUME route.path = <<a, b>>
        PROVE  ~MatchSegments(route, <<c, d, e>>)
    <2>1. Len(<<c, d, e>>) # Len(route.path)
      BY <1>1, <1>3
    <2> QED
      BY <2>1, Zenon DEF MatchSegments
  <1> QED
    BY <1>2, <1>3

LEMMA MatchIs ==
    ASSUME NEW prefix \in {Collection, Items}, NEW k \in Convention, NEW c \in Convention, NEW x, NonEmpty(x)
    PROVE  MatchSegments(RouteOf(prefix, Conventions[k]), Sent(c, x))
             <=> prefix = Collection /\ Conventions[k].id = Conventions[c].id
  <1>1. PICK route, s : route = RouteOf(prefix, Conventions[k]) /\ s = prefix[2]
    OBVIOUS
  <1>2. /\ route.path = IF Conventions[k].id THEN <<"api", s, ":id">> ELSE <<"api", s>>
        /\ s \in {"users", "items"} /\ (s = "users" <=> prefix = Collection)
    BY <1>1, RouteIs
  <1>3. Sent(c, x) = IF Conventions[c].id THEN <<"api", "users", x>> ELSE <<"api", "users">>
    BY DEF Sent, Collection
  <1>4. Conventions[k].id \in BOOLEAN /\ Conventions[c].id \in BOOLEAN
    BY ConventionIds
  <1>5. CASE Conventions[k].id /\ Conventions[c].id
    BY <1>1, <1>2, <1>3, <1>5, ThreeMatch
  <1>6. CASE ~Conventions[k].id /\ ~Conventions[c].id
    BY <1>1, <1>2, <1>3, <1>4, <1>6, TwoMatch
  <1>7. CASE Conventions[k].id /\ ~Conventions[c].id
    BY <1>1, <1>2, <1>3, <1>7, OtherLength
  <1>8. CASE ~Conventions[k].id /\ Conventions[c].id
    BY <1>1, <1>2, <1>3, <1>8, OtherLength
  <1> QED
    BY <1>4, <1>5, <1>6, <1>7, <1>8

LEMMA LessIsWellFounded == IsWellFoundedOn(OpToRel(<, Nat), Nat)
  BY NatLessThanWellFounded

\* The least number of a set of numbers is one of them.
LEMMA FirstIs ==
    ASSUME NEW hits, hits \subseteq Nat, hits # {}
    PROVE  LET first == CHOOSE i \in hits : \A j \in hits : i <= j IN first \in hits
  <1>1. \E i \in hits : \A j \in hits : ~(<<j, i>> \in OpToRel(<, Nat))
    BY LessIsWellFounded, WFMin
  <1>2. PICK i \in hits : \A j \in hits : ~(<<j, i>> \in OpToRel(<, Nat))
    BY <1>1
  <1>3. \A j \in hits : ~(j < i)
    BY <1>2 DEF OpToRel
  <1>4. \A j \in hits : i <= j
    BY <1>3
  <1> QED
    BY <1>4

LEMMA ListedIs ==
    ASSUME NEW R, NEW S, Lists(R, S)
    PROVE  /\ DOMAIN R = 1 .. Len(R) /\ Len(R) \in Nat /\ \A i \in 1 .. Len(R) : R[i] \in S
           /\ \A x \in S : \E i \in 1 .. Len(R) : R[i] = x
  BY LenProperties, ElementOfSeq DEF Lists

LEMMA UsersRoute ==
    ASSUME NEW c \in Convention, NEW route, route = RouteOf(Collection, Conventions[c])
    PROVE  /\ route.path = IF Conventions[c].id THEN <<"api", "users", ":id">> ELSE <<"api", "users">>
           /\ route.verb = Conventions[c].verb /\ route.slot = Conventions[c].slot /\ route.prefix = Collection
  <1>1. Collection[2] = "users"
    BY DEF Collection
  <1> QED
    BY <1>1, RouteIs

LEMMA WhatMatches ==
    ASSUME NEW k \in Convention, NEW c \in Convention, NEW x, NonEmpty(x)
    PROVE  /\ MatchSegments(RouteOf(Collection, Conventions[k]), Sent(c, x)) <=> Conventions[k].id = Conventions[c].id
           /\ ~MatchSegments(RouteOf(Items, Conventions[k]), Sent(c, x))
  <1>1. Items # Collection
    BY DEF Items, Collection
  <1> QED
    BY <1>1, MatchIs

\* The parameters of the route for c.
LEMMA ParametersAre ==
    ASSUME NEW c \in Convention, NEW x, NEW route, route = RouteOf(Collection, Conventions[c])
    PROVE  LET path == Sent(c, x)
           IN  SetToSeq({path[i] : i \in {j \in DOMAIN path : route.path[j] = IdParam}})
               = IF Conventions[c].id THEN <<x>> ELSE <<>>
  <1>1. PICK p, q : p = route.path /\ q = Sent(c, x)
    OBVIOUS
  <1>2. PICK K : K = {q[i] : i \in {j \in DOMAIN q : p[j] = ":id"}}
    OBVIOUS
  <1>3. SetToSeq(K) = SetToSeq({Sent(c, x)[i] : i \in {j \in DOMAIN Sent(c, x) : route.path[j] = IdParam}})
    BY <1>1, <1>2 DEF IdParam
  <1>4. CASE Conventions[c].id
    <2>1. p = <<"api", "users", ":id">> /\ q = <<"api", "users", x>>
      BY <1>1, <1>4, UsersRoute DEF Sent
    <2>2. p[1] = "api" /\ p[2] = "users" /\ p[3] = ":id"
      BY <2>1, TripleIs
    <2>3. q[3] = x /\ DOMAIN q = 1 .. 3
      BY <2>1, TripleIs
    <2>4. {j \in DOMAIN q : p[j] = ":id"} = {3}
      BY <2>2, <2>3, SmallNumbers
    <2>5. K = {x}
      BY <1>2, <2>3, <2>4
    <2> QED
      BY <1>3, <1>4, <2>5, OneListed
  <1>5. CASE ~Conventions[c].id
    <2>1. p = <<"api", "users">> /\ q = <<"api", "users">>
      BY <1>1, <1>5, UsersRoute DEF Sent, Collection
    <2>2. p[1] = "api" /\ p[2] = "users" /\ DOMAIN q = 1 .. 2
      BY <2>1, TupleIs
    <2>3. {j \in DOMAIN q : p[j] = ":id"} = {}
      BY <2>2, SmallNumbers
    <2>4. K = {}
      BY <1>2, <2>3
    <2> QED
      BY <1>3, <1>5, <2>4, OneListed
  <1> QED
    BY <1>4, <1>5

\* The request for the convention c gets to its route if it is mounted, and to no other.
LEMMA LookupIs ==
    ASSUME NEW some, NEW routes, Lists(routes, Mounted(some)), NEW c \in Convention, NEW x, NonEmpty(x)
    PROVE  LookupRoute(routes, Sent(c, x), Conventions[c].verb)
           = IF Conventions[c].slot \in some
             THEN << [prefix |-> Collection, slot |-> Conventions[c].slot,
                      id |-> IF Conventions[c].id THEN <<x>> ELSE <<>>] >>
             ELSE <<>>
  <1> DEFINE path == Sent(c, x)
             verb == Conventions[c].verb
             hits == {i \in DOMAIN routes : MatchSegments(routes[i], path) /\ routes[i].verb = verb}
             first == CHOOSE i \in hits : \A j \in hits : i <= j
  <1>1. LookupRoute(routes, path, verb)
        = IF hits = {} THEN <<>>
          ELSE << [prefix |-> routes[first].prefix, slot |-> routes[first].slot,
                   id |-> SetToSeq({path[i] : i \in {j \in DOMAIN path : routes[first].path[j] = IdParam}})] >>
    BY DEF LookupRoute
  <1>2. \A i : i \in hits <=> i \in DOMAIN routes /\ MatchSegments(routes[i], path) /\ routes[i].verb = verb
    OBVIOUS
  <1>3. DOMAIN routes = 1 .. Len(routes) /\ Len(routes) \in Nat /\ \A i \in 1 .. Len(routes) : routes[i] \in Mounted(some)
    BY ListedIs
  <1>6. hits \subseteq Nat
    BY <1>2, <1>3
  <1>7. hits # {} => first \in hits
    BY <1>6, FirstIs
  <1> HIDE DEF hits, first
  <1>4. ASSUME NEW i \in hits
        PROVE  routes[i] = RouteOf(Collection, Conventions[c]) /\ Conventions[c].slot \in some
    <2>1. routes[i] \in Mounted(some) /\ MatchSegments(routes[i], path) /\ routes[i].verb = verb
      BY <1>2, <1>3
    <2>2. CASE routes[i] \in Made(Collection, some, 5)
      <3>1. PICK k \in Convention : routes[i] = RouteOf(Collection, Conventions[k]) /\ Conventions[k].slot \in some
        BY <2>2 DEF Made, Convention
      <3>2. Conventions[k].verb = Conventions[c].verb
        BY <2>1, <3>1, UsersRoute
      <3>3. Conventions[k].id = Conventions[c].id
        BY <2>1, <3>1, WhatMatches
      <3>4. k = c
        BY <3>2, <3>3, ConventionsDiffer
      <3> QED
        BY <3>1, <3>4
    <2>3. CASE routes[i] \in Made(Items, Slots, 5)
      <3>1. PICK k \in Convention : routes[i] = RouteOf(Items, Conventions[k])
        BY <2>3 DEF Made, Convention
      <3> QED
        BY <2>1, <3>1, WhatMatches
    <2> QED
      BY <2>1, <2>2, <2>3 DEF Mounted
  <1>5. ASSUME Conventions[c].slot \in some
        PROVE  hits # {}
    <2>1. RouteOf(Collection, Conventions[c]) \in Mounted(some)
      BY <1>5 DEF Mounted, Made, Convention
    <2>2. PICK i \in 1 .. Len(routes) : routes[i] = RouteOf(Collection, Conventions[c])
      BY <2>1, ListedIs
    <2>3. MatchSegments(routes[i], path) /\ routes[i].verb = verb
      BY <2>2, WhatMatches, UsersRoute
    <2> QED
      BY <1>2, <1>3, <2>2, <2>3
  <1>9. CASE hits = {}
    BY <1>1, <1>5, <1>9
  <1>10. CASE hits # {}
    <2>1. routes[first] = RouteOf(Collection, Conventions[c]) /\ Conventions[c].slot \in some
      BY <1>4, <1>7, <1>10
    <2>2. routes[first].prefix = Collection /\ routes[first].slot = Conventions[c].slot
      BY <2>1, UsersRoute
    <2>3. SetToSeq({path[i] : i \in {j \in DOMAIN path : routes[first].path[j] = IdParam}})
          = IF Conventions[c].id THEN <<x>> ELSE <<>>
      BY <2>1, ParametersAre
    <2> QED
      BY <1>1, <1>10, <2>1, <2>2, <2>3
  <1> QED
    BY <1>9, <1>10

\* A path that ends in a slash gets to none.
LEMMA SlashFindsNone ==
    ASSUME NEW routes, NEW path, NEW verb, Last(path) = ""
    PROVE  LookupRoute(routes, path, verb) = <<>>
  <1>1. \A i \in DOMAIN routes : ~MatchSegments(routes[i], path)
    BY DEF MatchSegments
  <1> QED
    BY <1>1 DEF LookupRoute

\* What a client that is busy with a CRUD request was asked, and what it sends.
Asked == {NoAsk, Plain} \cup {x \in Ask(Id) : WellFormed(x)}
AskInv == DOMAIN rc = {"up", "lease", "usable", "ask"} /\ rc.ask \in Asked

\* No step makes what the client executes something the parser refuses.
LEMMA AskStep ==
    ASSUME AskInv, HttpNext
    PROVE  AskInv'
  <1>1. \A up, lease, usable :
          /\ [rc EXCEPT !.usable = usable].ask = rc.ask /\ DOMAIN [rc EXCEPT !.usable = usable] = DOMAIN rc
          /\ [rc EXCEPT !.usable = usable, !.lease = lease].ask = rc.ask
          /\ DOMAIN [rc EXCEPT !.usable = usable, !.lease = lease] = DOMAIN rc
          /\ [rc EXCEPT !.up = up, !.usable = usable, !.lease = lease].ask = rc.ask
          /\ DOMAIN [rc EXCEPT !.up = up, !.usable = usable, !.lease = lease] = DOMAIN rc
    BY DEF AskInv
  <1>2. ASSUME UNCHANGED rcVars
        PROVE  AskInv'
    BY <1>2 DEF rcVars, AskInv
  <1>3. ASSUME DOMAIN rc' = DOMAIN rc, rc'.ask = rc.ask
        PROVE  AskInv'
    BY <1>3 DEF AskInv
  <1>4. ASSUME Performs
        PROVE  AskInv'
    BY <1>4 DEF Performs, AskInv, Asked
  <1>5. ASSUME PerformEnds
        PROVE  AskInv'
    BY <1>5 DEF PerformEnds, AskInv, Asked
  <1>6. ASSUME HttpComesBack
        PROVE  AskInv'
    <2>1. rc' = IF rc.up THEN OfferNoted(gen'.version) ELSE rc
      BY <1>6 DEF HttpComesBack
    <2>2. \A v : OfferNoted(v).ask = rc.ask /\ DOMAIN OfferNoted(v) = DOMAIN rc
      BY <1>1 DEF OfferNoted
    <2> QED
      BY <1>3, <2>1, <2>2
  <1>7. ASSUME HttpRollsBack
        PROVE  AskInv'
    BY <1>1, <1>3, <1>7 DEF HttpRollsBack, Withdrawn
  <1>8. ASSUME HttpUnloads
        PROVE  AskInv'
    <2>1. PICK lease : rc' = [Withdrawn EXCEPT !.lease = lease]
      BY <1>8 DEF HttpUnloads
    <2>2. rc'.ask = rc.ask /\ DOMAIN rc' = DOMAIN rc
      BY <2>1 DEF Withdrawn, AskInv
    <2> QED
      BY <1>3, <2>2
  <1>9. ASSUME RestClientStops
        PROVE  AskInv'
    BY <1>1, <1>3, <1>9 DEF RestClientStops
  <1>10. ASSUME NEW retries \in 0 .. MaxRetries, RequestBegins("direct", retries) /\ UNCHANGED rcVars
         PROVE  AskInv'
    BY <1>2, <1>10
  <1> QED
    BY <1>2, <1>4, <1>5, <1>6, <1>7, <1>8, <1>9, <1>10 DEF HttpNext, RestClientNext

LEMMA AskHolds == Spec => []AskInv
  <1>1. Init => AskInv
    BY DEF Init, InitRestClient, AskInv, Asked
  <1>2. AskInv /\ [Next]_vars => AskInv'
    <2> SUFFICES ASSUME AskInv, [Next]_vars PROVE AskInv'
      OBVIOUS
    <2>1. CASE HttpNext
      BY <2>1, AskStep
    <2>2. CASE UNCHANGED rcVars
      BY <2>2 DEF AskInv, rcVars
    <2> QED
      BY <2>1, <2>2 DEF Next, vars
  <1> QED
    BY <1>1, <1>2, PTL DEF Spec

\* CRUD_VERBS and CRUD_RULES, one by one.
LEMMA CrudIs ==
    /\ DOMAIN Crud = {"list", "get", "create", "update", "remove"}
    /\ Crud["list"].verb = "GET" /\ Crud["list"].id = FALSE /\ Crud["list"].item = FALSE
    /\ Crud["get"].verb = "GET" /\ Crud["get"].id = TRUE /\ Crud["get"].item = FALSE
    /\ Crud["create"].verb = "POST" /\ Crud["create"].id = FALSE /\ Crud["create"].item = TRUE
    /\ Crud["update"].verb = "PUT" /\ Crud["update"].id = TRUE /\ Crud["update"].item = TRUE
    /\ Crud["remove"].verb = "DELETE" /\ Crud["remove"].id = TRUE /\ Crud["remove"].item = FALSE
  BY DEF Crud

\* The convention c is that of an operation with this verb, these fields and this slot.
IsOf(c, verb, id, slot) ==
    Conventions[c].verb = verb /\ Conventions[c].id = id /\ Conventions[c].slot = slot

LEMMA ConventionOf ==
    /\ 1 \in Convention /\ IsOf(1, "GET", FALSE, "list")
    /\ 2 \in Convention /\ IsOf(2, "GET", TRUE, "get")
    /\ 3 \in Convention /\ IsOf(3, "POST", FALSE, "create")
    /\ 4 \in Convention /\ IsOf(4, "PUT", TRUE, "update")
    /\ 5 \in Convention /\ IsOf(5, "DELETE", TRUE, "remove")
    /\ Slots = {"list", "get", "create", "update", "remove"}
  BY ConventionsAre DEF IsOf, Convention

\* What the slot says of what was asked.
SlotFits(slot, ask) ==
    /\ slot \in {"create", "update"} <=> ask.item
    /\ slot \in {"get", "update", "remove"} <=> HasId(ask)
    /\ slot = "remove" <=> ask.verb = "DELETE"

\* An operation that the parser lets through is that of one convention.
LEMMA AskIsOne ==
    ASSUME NEW ask \in Ask(Id), WellFormed(ask)
    PROVE  \E c \in Convention :
             /\ Crud[CrudOp(ask)].verb = Conventions[c].verb /\ Conventions[c].id = HasId(ask)
             /\ Conventions[c].slot \in Slots /\ SlotFits(Conventions[c].slot, ask)
  <1>1. PICK op : op = CrudOp(ask)
    OBVIOUS
  <1>2. op \in DOMAIN Crud /\ Crud[op].id = HasId(ask) /\ Crud[op].item = ask.item
    BY <1>1 DEF WellFormed, FieldsFit
  <1>3. op \in {"list", "get", "create", "update", "remove"}
    BY <1>2, CrudIs
  <1>4. op = "remove" <=> ask.verb = "DELETE"
    BY <1>1, <1>3 DEF CrudOp
  <1>5. HasId(ask) \in BOOLEAN /\ ask.item \in BOOLEAN
    BY DEF HasId, Ask
  <1>6. SlotFits(op, ask) /\ op \in Slots
    <2>1. (op \in {"create", "update"} <=> Crud[op].item) /\ (op \in {"get", "update", "remove"} <=> Crud[op].id)
      BY <1>3, CrudIs
    <2> QED
      BY <1>2, <1>3, <1>4, <2>1, ConventionOf DEF SlotFits
  <1>7. \E c \in Convention : IsOf(c, Crud[op].verb, Crud[op].id, op)
    <2>1. CASE op = "list"
      BY <2>1, CrudIs, ConventionOf, Zenon
    <2>2. CASE op = "get"
      BY <2>2, CrudIs, ConventionOf, Zenon
    <2>3. CASE op = "create"
      BY <2>3, CrudIs, ConventionOf, Zenon
    <2>4. CASE op = "update"
      BY <2>4, CrudIs, ConventionOf, Zenon
    <2>5. CASE op = "remove"
      BY <2>5, CrudIs, ConventionOf, Zenon
    <2> QED
      BY <1>3, <2>1, <2>2, <2>3, <2>4, <2>5
  <1>8. PICK c \in Convention : IsOf(c, Crud[op].verb, Crud[op].id, op)
    BY <1>7
  <1>9. Conventions[c].verb = Crud[op].verb /\ Conventions[c].id = HasId(ask) /\ Conventions[c].slot = op
    BY <1>2, <1>8, Zenon DEF IsOf
  <1> QED
    BY <1>1, <1>6, <1>9, Zenon

\* The elements of no result, and of one.
LEMMA RangeIs ==
    ASSUME NEW m
    PROVE  Range(<<>>) = {} /\ Range(<<m>>) = {m} /\ <<m>> # <<>>
  BY DEF Range

\* What the lookup of a request may find: CrudReachesItsMethod of one request.
Reached(ask, some, reached) ==
    /\ some = Slots /\ Range(ask.id) \cap {".", ".."} = {} => reached # <<>>
    /\ \A m \in Range(reached) :
         /\ m.prefix = <<"api", "users">> /\ m.slot \in some /\ m.id = ask.id
         /\ m.slot \in {"create", "update"} <=> ask.item
         /\ m.slot \in {"get", "update", "remove"} <=> HasId(ask)
         /\ m.slot = "remove" <=> ask.verb = "DELETE"

\* An id is absent or one value, which is not empty.
LEMMA IdIs ==
    ASSUME NEW ask \in Ask(Id)
    PROVE  ask.id = <<>> \/ \E x : ask.id = <<x>> /\ NonEmpty(x)
  <1>1. ask.id = <<>> \/ \E x \in Id : ask.id = <<x>>
    BY DEF Ask
  <1>2. \A x \in Id : NonEmpty(x)
    BY IdAssumption, Zenon DEF NonEmpty
  <1> QED
    BY <1>1, <1>2, Zenon

\* The path that is sent is the one of the convention, unless the id is a dot segment.
LEMMA PathIs ==
    ASSUME NEW ask \in Ask(Id), NEW c \in Convention, Conventions[c].id = HasId(ask)
    PROVE  LET path == TargetPath(<<"api">>, "users", ask)
           IN  \/ \E x : NonEmpty(x) /\ path = Sent(c, x) /\ ask.id = IF Conventions[c].id THEN <<x>> ELSE <<>>
               \/ Last(path) = "" /\ Range(ask.id) \cap {".", ".."} # {}
  <1> DEFINE path == TargetPath(<<"api">>, "users", ask)
  <1>1. CASE ask.id = <<>>
    <2>1. path = Collection
      BY <1>1, TargetIs, Zenon
    <2>2. ~Conventions[c].id
      BY <1>1, Zenon DEF HasId
    <2>3. NonEmpty("x")
      BY DEF NonEmpty
    <2>4. path = Sent(c, "x") /\ ask.id = IF Conventions[c].id THEN <<"x">> ELSE <<>>
      BY <1>1, <2>1, <2>2, Zenon DEF Sent
    <2> QED
      BY <2>3, <2>4, Zenon
  <1>2. ASSUME NEW x, ask.id = <<x>>, NonEmpty(x)
        PROVE  \/ path = Sent(c, x) /\ ask.id = IF Conventions[c].id THEN <<x>> ELSE <<>>
               \/ Last(path) = "" /\ Range(ask.id) \cap {".", ".."} # {}
    <2>1. <<x>> # <<>> /\ Range(ask.id) = {x}
      BY <1>2, RangeIs, Zenon
    <2>2. Conventions[c].id
      BY <1>2, <2>1, Zenon DEF HasId
    <2>3. CASE x \in {".", ".."}
      <3>1. Last(path) = ""
        BY <1>2, <2>3, TargetIs, Zenon
      <3>2. x \in Range(ask.id) \cap {".", ".."}
        BY <2>1, <2>3
      <3> QED
        BY <3>1, <3>2, Zenon
    <2>4. CASE x \notin {".", ".."}
      <3>1. path = <<"api", "users", x>>
        BY <1>2, <2>4, TargetIs, Zenon
      <3> QED
        BY <1>2, <2>2, <3>1, Zenon DEF Sent
    <2> QED
      BY <2>3, <2>4, Zenon
  <1> QED
    BY <1>1, <1>2, IdIs, Zenon

\* CrudReachesItsMethod, of any request that was let through and any list of those routes.
LEMMA CrudReaches ==
    ASSUME NEW ask \in Ask(Id), WellFormed(ask), NEW some \in SUBSET Slots,
           NEW routes, Lists(routes, Mounted(some))
    PROVE  Reached(ask, some, LookupRoute(routes, TargetPath(<<"api">>, "users", ask), Crud[CrudOp(ask)].verb))
  <1> DEFINE path == TargetPath(<<"api">>, "users", ask)
             verb == Crud[CrudOp(ask)].verb
  <1>1. PICK c \in Convention :
          /\ verb = Conventions[c].verb /\ Conventions[c].id = HasId(ask)
          /\ Conventions[c].slot \in Slots /\ SlotFits(Conventions[c].slot, ask)
    BY AskIsOne
  <1>2. CASE Last(path) = "" /\ Range(ask.id) \cap {".", ".."} # {}
    <2>1. LookupRoute(routes, path, verb) = <<>>
      BY <1>2, SlashFindsNone, Zenon
    <2>2. Range(<<>>) = {}
      BY RangeIs
    <2>3. Reached(ask, some, <<>>)
      BY <1>2, <2>2 DEF Reached
    <2> QED
      BY <2>1, <2>3, Zenon
  <1>3. ASSUME NEW x, NonEmpty(x), path = Sent(c, x), ask.id = IF Conventions[c].id THEN <<x>> ELSE <<>>
        PROVE  Reached(ask, some, LookupRoute(routes, path, verb))
    <2> DEFINE m == [prefix |-> Collection, slot |-> Conventions[c].slot, id |-> ask.id]
    <2>1. LookupRoute(routes, path, verb) = IF Conventions[c].slot \in some THEN <<m>> ELSE <<>>
      <3>1. LookupRoute(routes, Sent(c, x), Conventions[c].verb)
            = IF Conventions[c].slot \in some
              THEN << [prefix |-> Collection, slot |-> Conventions[c].slot,
                       id |-> IF Conventions[c].id THEN <<x>> ELSE <<>>] >>
              ELSE <<>>
        BY <1>1, <1>3, LookupIs
      <3> HIDE DEF path, verb
      <3> QED
        BY <1>1, <1>3, <3>1, Zenon
    <2>2. Range(<<>>) = {} /\ Range(<<m>>) = {m} /\ <<m>> # <<>>
      BY RangeIs
    <2>3. m.prefix = <<"api", "users">> /\ m.slot = Conventions[c].slot /\ m.id = ask.id
      BY DEF Collection
    <2>4. CASE Conventions[c].slot \in some
      <3> HIDE DEF m
      <3>1. Reached(ask, some, <<m>>)
        BY <1>1, <2>2, <2>3, <2>4, Zenon DEF Reached, SlotFits
      <3> QED
        BY <2>1, <2>4, <3>1, Zenon
    <2>5. CASE Conventions[c].slot \notin some
      <3>1. some # Slots
        BY <1>1, <2>5
      <3>2. Reached(ask, some, <<>>)
        BY <2>2, <3>1, Zenon DEF Reached
      <3> QED
        BY <2>1, <2>5, <3>2, Zenon
    <2> QED
      BY <2>4, <2>5
  <1> QED
    BY <1>1, <1>2, <1>3, PathIs, Zenon

\* The routes of users may stand before or after those of items.
LEMMA MountedIs ==
    ASSUME NEW some
    PROVE  /\ Lists(RoutesOf(Collection, some) \o RoutesOf(Items, Slots), Mounted(some))
           /\ Lists(RoutesOf(Items, Slots) \o RoutesOf(Collection, some), Mounted(some))
  <1>1. Lists(RoutesOf(Collection, some), Made(Collection, some, 5))
    BY RoutesAre
  <1>2. Lists(RoutesOf(Items, Slots), Made(Items, Slots, 5))
    BY RoutesAre
  <1>3. Made(Items, Slots, 5) \cup Made(Collection, some, 5) = Mounted(some)
    BY DEF Mounted
  <1> QED
    BY <1>1, <1>2, <1>3, JoinLists DEF Mounted

\* A CRUD request reaches the method mounted for what was asked, with the id that was
\* given, or none, whatever methods the resource has and on which side of it another
\* one under the same prefix is mounted: what the client builds its path from and what the server registers
\* agree for every id, and a dot segment reaches none.
THEOREM CrudGetsThere == Spec => []CrudReachesItsMethod
  <1>1. AskInv => CrudReachesItsMethod
    <2> SUFFICES ASSUME AskInv, rc.ask \notin {NoAsk, Plain},
                        NEW some \in SUBSET Slots,
                        NEW routes \in {RoutesOf(<<"api", "users">>, some) \o RoutesOf(<<"api", "items">>, Slots),
                                        RoutesOf(<<"api", "items">>, Slots) \o RoutesOf(<<"api", "users">>, some)}
                 PROVE  Reached(rc.ask, some, LookupRoute(routes, TargetPath(<<"api">>, "users", rc.ask),
                                                          Crud[CrudOp(rc.ask)].verb))
      BY Zenon DEF CrudReachesItsMethod, Reached
    <2>1. rc.ask \in Ask(Id) /\ WellFormed(rc.ask)
      BY DEF AskInv, Asked
    <2>2. Lists(routes, Mounted(some))
      BY MountedIs DEF Collection, Items
    <2> QED
      BY <2>1, <2>2, CrudReaches, Zenon
  <1> QED
    BY <1>1, AskHolds, PTL

-----------------------------------------------------------------------------
(* rack-cli                                                                *)

CliTypes ==
    /\ cli \in [pc : {"parse", "make", "boot", "op", "serving", "call", "return", "down", "undo", "end", "killed", "over"},
                command : Command \cup {"none"}, ok : BOOLEAN, code : Int]
    /\ rack \in [state : {"none", "new", "up", "half", "down"}, ready : BOOLEAN, busy : BOOLEAN]

\* What is settled at each point of an invocation.
CliPoints ==
    /\ cli.pc \in {"parse", "make"} => rack.state = "none" /\ cli.ok
    /\ cli.pc = "boot" => rack.state = "new" /\ cli.ok
    /\ cli.pc \in {"op", "serving", "call"} => rack.state = "up" /\ cli.ok
    /\ cli.pc \in {"return", "down", "killed"} => rack.state = "up"
    /\ cli.pc = "undo" => rack.state = "half"
    /\ cli.pc \in {"end", "over"} => shutdowns = (IF rack.state = "none" THEN 0 ELSE 1)
    /\ cli.pc \notin {"end", "over"} => shutdowns = 0
    /\ cli.pc \in {"end", "over"} /\ rack.state = "up" => warned
    /\ leased <=> cli.pc \in {"call", "return"}
    /\ cli.pc # "over" => cli.code = NoCode
    /\ cli.pc = "over" => \/ cli.code = 2 /\ rack.state = "none"
                          \/ cli.code \in {0, 1} /\ (cli.code = 0 <=> cli.ok)

CliInv == CliTypes /\ CliPoints

\* What Goes, Fails and Exits do to the fields of cli.
LEMMA Moves ==
    ASSUME CliTypes
    PROVE  /\ \A pc : Goes(pc) => cli'.pc = pc /\ cli'.ok = cli.ok /\ cli'.code = cli.code
           /\ \A pc : Fails(pc) => cli'.pc = pc /\ cli'.ok = FALSE /\ cli'.code = cli.code
           /\ \A c \in Int : Exits(c) => cli'.pc = "over" /\ cli'.ok = cli.ok /\ cli'.code = c
  BY DEF CliTypes, Goes, Fails, Exits

LEMMA ExitsTypes ==
    ASSUME CliTypes, NEW c \in Int, Exits(c), UNCHANGED rack
    PROVE  CliTypes'
  BY DEF CliTypes, Exits

LEMMA CliTypesStep ==
    ASSUME CliTypes, CliNext
    PROVE  CliTypes'
  <1>1. ASSUME NEW c \in Int, Exits(c), UNCHANGED rack PROVE CliTypes'
    BY <1>1, ExitsTypes
  <1>2. CASE Parses
    <2>1. ASSUME NEW c \in Command,
                 cli' = [cli EXCEPT !.pc = IF c = "version" THEN "end" ELSE "make", !.command = c]
          PROVE  CliTypes'
      BY <1>2, <2>1 DEF Parses, CliTypes
    <2>2. ASSUME Exits(2) PROVE CliTypes'
      <3>1. UNCHANGED <<rack, leased, shutdowns, warned>>
        BY <1>2, Zenon DEF Parses
      <3>2. rack' = rack
        BY <3>1
      <3>3. 2 \in Int
        OBVIOUS
      <3> QED
        BY <1>1, <2>2, <3>2, <3>3
    <2>3. Exits(2) \/ \E c \in Command :
                          cli' = [cli EXCEPT !.pc = IF c = "version" THEN "end" ELSE "make", !.command = c]
      BY <1>2, Zenon DEF Parses
    <2> QED
      BY <2>1, <2>2, <2>3, Zenon
  <1>3. CASE Ends
    <2>1. (IF cli.ok THEN 0 ELSE 1) \in Int
      OBVIOUS
    <2> QED
      BY <1>1, <1>3, <2>1 DEF Ends
  <1> USE DEF CliTypes, At, Goes, Fails, Finally
  <1>4. CASE Makes \/ Boots
    BY <1>4 DEF Makes, Boots
  <1>5. CASE PluginActs
    BY <1>5 DEF PluginActs
  <1>6. CASE Reads \/ Operates
    BY <1>6 DEF Reads, Operates
  <1>7. CASE StartsCaller
    BY <1>7 DEF StartsCaller
  <1>8. CASE Borrows \/ CallEnds \/ Returns
    BY <1>8 DEF Borrows, CallEnds, Returns
  <1>9. CASE Signalled \/ Killed
    BY <1>9 DEF Signalled, Killed
  <1>10. CASE ShutsDown
    BY <1>10 DEF ShutsDown
  <1> QED
    BY <1>2, <1>3, <1>4, <1>5, <1>6, <1>7, <1>8, <1>9, <1>10 DEF CliNext

\* Where an action leads is said first, then what that settles.
LEMMA CliPointsStep ==
    ASSUME CliTypes, CliPoints, CliNext
    PROVE  CliPoints'
  <1>1. CASE Parses
    <2>1. CASE Exits(2)
      <3>1. cli'.pc = "over" /\ cli'.ok = cli.ok /\ cli'.code = 2
        BY <2>1, Moves
      <3>2. UNCHANGED <<rack, leased, shutdowns, warned>> /\ cli.pc = "parse"
        BY <1>1 DEF Parses, At
      <3> QED
        BY <3>1, <3>2 DEF CliPoints
    <2>2. ASSUME NEW c \in Command,
                 cli' = [cli EXCEPT !.pc = IF c = "version" THEN "end" ELSE "make", !.command = c]
          PROVE  CliPoints'
      <3>1. cli'.pc \in {"end", "make"} /\ cli'.ok = cli.ok /\ cli'.code = cli.code
        BY <2>2 DEF CliTypes
      <3>2. UNCHANGED <<rack, leased, shutdowns, warned>> /\ cli.pc = "parse"
        BY <1>1 DEF Parses, At
      <3> QED
        BY <3>1, <3>2 DEF CliPoints
    <2> QED
      BY <1>1, <2>1, <2>2 DEF Parses
  <1>2. CASE Makes
    <2>1. /\ cli.pc = "make" /\ cli'.code = cli.code
          /\ \/ cli'.pc = "boot" /\ cli'.ok = cli.ok /\ rack'.state = "new"
             \/ cli'.pc = "end" /\ rack' = rack
          /\ UNCHANGED <<leased, shutdowns, warned>>
      BY <1>2 DEF Makes, At, Goes, Fails, CliTypes
    <2> QED
      BY <2>1 DEF CliPoints
  <1>3. CASE Boots
    <2>1. /\ cli.pc = "boot" /\ cli'.code = cli.code
          /\ \/ cli'.pc \in {"op", "serving"} /\ cli'.ok = cli.ok /\ rack'.state = "up"
             \/ cli'.pc = "undo" /\ rack'.state = "half"
          /\ UNCHANGED <<leased, shutdowns, warned>>
      BY <1>3 DEF Boots, At, Goes, Fails, CliTypes
    <2> QED
      BY <2>1 DEF CliPoints
  <1>4. CASE PluginActs
    <2>1. rack'.state = rack.state /\ UNCHANGED <<cli, leased, shutdowns, warned>>
      BY <1>4 DEF PluginActs, CliTypes
    <2> QED
      BY <2>1 DEF CliPoints
  <1>5. CASE Reads \/ Operates
    <2>1. cli.pc = "op" /\ cli'.pc = "down" /\ cli'.code = cli.code
      BY <1>5, Moves DEF Reads, Operates, At, Finally
    <2>2. UNCHANGED <<rack, leased, shutdowns, warned>>
      BY <1>5 DEF Reads, Operates
    <2> QED
      BY <2>1, <2>2 DEF CliPoints
  <1>6. CASE StartsCaller
    <2>1. /\ cli.pc = "op" /\ cli'.code = cli.code /\ rack'.state = rack.state
          /\ cli' = cli \/ cli'.pc = "down"
          /\ UNCHANGED <<leased, shutdowns, warned>>
      BY <1>6, Moves DEF StartsCaller, At, Finally, CliTypes
    <2> QED
      BY <2>1 DEF CliPoints
  <1>7. CASE Borrows
    <2>1. /\ cli.pc = "op" /\ cli'.code = cli.code
          /\ \/ cli'.pc = "call" /\ cli'.ok = cli.ok /\ leased'
             \/ cli'.pc = "down" /\ leased' = leased
      BY <1>7, Moves DEF Borrows, At, Finally
    <2>2. UNCHANGED <<rack, shutdowns, warned>>
      BY <1>7 DEF Borrows
    <2> QED
      BY <2>1, <2>2 DEF CliPoints
  <1>8. CASE CallEnds
    <2>1. cli.pc = "call" /\ cli'.pc = "return" /\ cli'.code = cli.code
      BY <1>8, Moves DEF CallEnds, At
    <2>2. UNCHANGED <<rack, leased, shutdowns, warned>>
      BY <1>8 DEF CallEnds
    <2> QED
      BY <2>1, <2>2 DEF CliPoints
  <1>9. CASE Returns
    <2>1. cli.pc = "return" /\ cli'.pc = "down" /\ cli'.code = cli.code /\ ~leased'
      BY <1>9, Moves DEF Returns, At, Finally
    <2>2. UNCHANGED <<rack, shutdowns, warned>>
      BY <1>9 DEF Returns
    <2> QED
      BY <2>1, <2>2 DEF CliPoints
  <1>10. CASE Signalled \/ Killed
    <2>1. /\ cli'.code = cli.code
          /\ \/ cli.pc = "serving" /\ cli'.pc = "down"
             \/ cli.pc = "down" /\ cli'.pc = "killed"
      BY <1>10, Moves DEF Signalled, Killed, At
    <2>2. UNCHANGED <<rack, leased, shutdowns, warned>>
      BY <1>10 DEF Signalled, Killed
    <2> QED
      BY <2>1, <2>2 DEF CliPoints
  <1>11. CASE ShutsDown
    <2>1. /\ cli.pc \in {"down", "undo"} /\ cli'.pc = "end" /\ cli'.code = cli.code
          /\ leased' = leased /\ shutdowns' = shutdowns + 1
      BY <1>11, Moves DEF ShutsDown, At
    <2>2. \/ rack' = rack /\ (warned' <=> cli.pc = "down")
          \/ rack'.state = "down"
      BY <1>11 DEF ShutsDown, At, CliTypes
    <2>3. cli.code = NoCode /\ shutdowns = 0 /\ ~leased /\ rack.state \in {"up", "half"}
      BY <2>1 DEF CliPoints
    <2>4. ~leased' /\ shutdowns' = 1
      BY <2>1, <2>3
    <2>5. rack'.state # "none" /\ (rack'.state = "up" => warned')
      BY <2>1, <2>2 DEF CliPoints
    <2> QED
      BY <2>1, <2>3, <2>4, <2>5 DEF CliPoints, NoCode
  <1>12. CASE Ends
    <2>1. (IF cli.ok THEN 0 ELSE 1) \in Int
      OBVIOUS
    <2>2. /\ cli.pc = "end" /\ cli'.pc = "over" /\ cli'.ok = cli.ok
          /\ cli'.code = (IF cli.ok THEN 0 ELSE 1)
      BY <1>12, <2>1, Moves DEF Ends, At
    <2>3. UNCHANGED <<rack, leased, shutdowns, warned>>
      BY <1>12 DEF Ends
    <2> QED
      BY <2>2, <2>3 DEF CliPoints
  <1> QED
    BY <1>1, <1>2, <1>3, <1>4, <1>5, <1>6, <1>7, <1>8, <1>9, <1>10, <1>11, <1>12 DEF CliNext

\* On every path through rack-cli the lease goes back before the rack is shut down,
\* the rack is shut down once, and the exit code tells how it went.
THEOREM CliIsTidy == Spec => []CliTidiesUp
  <1>1. Init => CliInv
    <2> SUFFICES ASSUME InitCli PROVE CliInv
      BY DEF Init
    <2>1. CliTypes
      BY DEF InitCli, CliTypes, NoCode
    <2>2. CliPoints
      BY DEF InitCli, CliPoints
    <2> QED
      BY <2>1, <2>2 DEF CliInv
  <1>2. CliInv /\ [Next]_vars => CliInv'
    <2>1. CliInv /\ UNCHANGED cliVars => CliInv'
      BY DEF CliInv, CliTypes, CliPoints, cliVars
    <2> QED
      BY <2>1, CliTypesStep, CliPointsStep DEF CliInv, Next, vars
  <1>3. CliInv => CliTidiesUp
    BY DEF CliInv, CliPoints, CliTidiesUp, NoCode
  <1> QED
    BY <1>1, <1>2, <1>3, PTL DEF Spec

-----------------------------------------------------------------------------
(* std.log                                                                 *)

\* Line by line: the file counts up from 1, and as long as no append failed the
\* chain goes on where the file ends.  stop() is what disables the file otherwise.
LogInv ==
    /\ Lives
    /\ accepted \in Nat /\ chain \in Seq(Nat) /\ file \in Seq(Nat)
    /\ Len(file) <= accepted /\ \A i \in 1 .. Len(file) : file[i] = i
    /\ ~failed => /\ Len(file) + Len(chain) = accepted
                  /\ \A i \in 1 .. Len(chain) : chain[i] = Len(file) + i
    /\ enabled => ~failed
    /\ ~enabled /\ ~failed => life["log"] = "stopped"
    /\ life["log"] = "stopped" => chain = <<>>

LEMMA OthersLeaveLog ==
    ASSUME Lives, HttpNext \/ TokenNext \/ RpcClientNext \/ NetNext
    PROVE  Lives' /\ life'["log"] = life["log"]
  <1>1. CASE TokenNext
    BY <1>1 DEF Lives, Device, TokenNext, TokenCalled, Invalidates, Ticks, Replies, ReplyFails, Introspects,
       IntrospectEnds, OauthStops, Becomes
  <1>2. CASE RpcClientNext
    BY <1>2 DEF Lives, Device, RpcClientNext, ExchangeBegins, RpcStops, Becomes
  <1>3. CASE NetNext
    BY <1>3 DEF Lives, Device, NetNext, ProbeBegins, ProbeAnswered, ProbeTimesOut, LookupBegins, FamilyAnswers,
       LookupEnds, NetStops, NetStopEnds, Stopping, Stopped, Becomes
  <1>4. CASE HttpNext
    <2>1. ASSUME NEW retries \in 0 .. MaxRetries, RequestBegins("direct", retries)
          PROVE  life' = life
      BY <2>1 DEF RequestBegins
    <2>2. CASE UNCHANGED <<life, calls, rcVars>>
      BY <2>2 DEF Lives
    <2>3. CASE RestClientNext
      BY <2>3 DEF Lives, Device, RestClientNext, RequestBegins, Performs, PerformEnds, HttpComesBack,
         HttpRollsBack, HttpUnloads, RestClientStops, Stopping, Becomes
    <2>4. CASE HttpStopEnds
      BY <2>4 DEF Lives, Device, HttpStopEnds, Stopped, Becomes
    <2>5. CASE life' = life
      BY <2>5 DEF Lives
    <2> QED
      BY <1>4, <2>1, <2>2, <2>3, <2>4, <2>5 DEF HttpNext
  <1> QED
    BY <1>1, <1>2, <1>3, <1>4

\* Taking from the chain, and adding to a sequence, by index.
LEMMA Links ==
    ASSUME NEW s \in Seq(Nat), NEW n \in Nat
    PROVE  /\ Append(s, n) \in Seq(Nat) /\ Len(Append(s, n)) = Len(s) + 1
           /\ \A i \in 1 .. Len(s) : Append(s, n)[i] = s[i]
           /\ Append(s, n)[Len(s) + 1] = n
           /\ s # <<>> => /\ Tail(s) \in Seq(Nat) /\ Len(Tail(s)) = Len(s) - 1 /\ Len(s) > 0
                          /\ \A i \in 1 .. Len(s) - 1 : Tail(s)[i] = s[i + 1]
                          /\ Head(s) = s[1]
  OBVIOUS

LEMMA LogStep ==
    ASSUME LogInv, LogNext
    PROVE  LogInv'
  <1>1. CASE Logs
    <2>1. Lives' /\ life' = life /\ accepted' = accepted + 1 /\ UNCHANGED <<file, enabled, failed>>
      BY <1>1 DEF Logs, LogInv, Lives
    <2>2. life["log"] = "active" /\ (enabled <=> ~failed)
      BY <1>1 DEF Logs, Invoked, LogInv
    <2>3. CASE enabled
      <3>1. chain' = Append(chain, accepted + 1)
        BY <1>1, <2>3 DEF Logs
      <3>2. chain' \in Seq(Nat) /\ Len(chain') = Len(chain) + 1
        BY <3>1, Links DEF LogInv
      <3>3. ASSUME NEW i \in 1 .. Len(chain') PROVE chain'[i] = Len(file) + i
        <4>1. Len(chain) \in Nat /\ Len(file) \in Nat
          BY DEF LogInv
        <4>2. CASE i = Len(chain) + 1
          <5>1. chain'[Len(chain) + 1] = accepted + 1
            BY <3>1, Links DEF LogInv
          <5>2. Len(file) + Len(chain) = accepted
            BY <2>2, <2>3 DEF LogInv
          <5> QED
            BY <4>1, <4>2, <5>1, <5>2
        <4>3. CASE i \in 1 .. Len(chain)
          <5>1. chain'[i] = chain[i]
            BY <3>1, <4>3, Links DEF LogInv
          <5> QED
            BY <2>2, <2>3, <4>3, <5>1 DEF LogInv
        <4> QED
          BY <3>2, <4>1, <4>2, <4>3
      <3> QED
        BY <2>1, <2>2, <2>3, <3>2, <3>3 DEF LogInv
    <2>4. CASE ~enabled
      <3>1. chain' = chain
        BY <1>1, <2>4 DEF Logs
      <3> QED
        BY <2>1, <2>2, <2>4, <3>1 DEF LogInv
    <2> QED
      BY <2>3, <2>4
  <1>2. CASE Appends
    <2>1. chain # <<>> /\ chain' = Tail(chain) /\ UNCHANGED <<accepted, life>> /\ Lives'
      BY <1>2 DEF Appends, LogInv, Lives
    <2>2. /\ chain' \in Seq(Nat) /\ Len(chain') = Len(chain) - 1 /\ Len(chain) > 0
          /\ \A i \in 1 .. Len(chain) - 1 : chain'[i] = chain[i + 1]
          /\ Head(chain) = chain[1]
      BY <2>1, Links DEF LogInv
    <2>3. life["log"] # "stopped"
      BY <2>1 DEF LogInv
    <2>4. CASE enabled /\ file' = Append(file, Head(chain)) /\ UNCHANGED <<enabled, failed>>
      <3>1. Head(chain) = Len(file) + 1 /\ ~failed /\ Len(file) \in Nat
        BY <2>2, <2>4 DEF LogInv
      <3>2. /\ file' \in Seq(Nat) /\ Len(file') = Len(file) + 1
            /\ \A i \in 1 .. Len(file) : file'[i] = file[i]
            /\ file'[Len(file) + 1] = Len(file) + 1
        <4>1. file \in Seq(Nat) /\ Len(file) + 1 \in Nat /\ file' = Append(file, Len(file) + 1)
          BY <2>4, <3>1 DEF LogInv
        <4> QED
          BY <4>1, Links
      <3>3. \A i \in 1 .. Len(file') : file'[i] = i
        <4>1. \A i \in 1 .. Len(file) : file[i] = i
          BY DEF LogInv
        <4> QED
          BY <3>1, <3>2, <4>1
      <3>4. \A i \in 1 .. Len(chain') : chain'[i] = Len(file') + i
        <4>1. Len(chain) \in Nat /\ \A i \in 1 .. Len(chain) : chain[i] = Len(file) + i
          BY <3>1 DEF LogInv
        <4> QED
          BY <2>2, <3>1, <3>2, <4>1
      <3>5. Len(file') + Len(chain') = accepted' /\ Len(file') <= accepted'
        <4>1. Len(chain) \in Nat /\ Len(file) + Len(chain) = accepted
          BY <3>1 DEF LogInv
        <4> QED
          BY <2>1, <2>2, <3>1, <3>2, <4>1
      <3> QED
        BY <2>1, <2>2, <2>3, <2>4, <3>1, <3>2, <3>3, <3>4, <3>5 DEF LogInv
    <2>5. CASE failed' /\ ~enabled' /\ UNCHANGED file
      BY <2>1, <2>2, <2>3, <2>5 DEF LogInv
    <2>6. CASE ~enabled /\ UNCHANGED <<file, enabled, failed>>
      BY <2>1, <2>2, <2>3, <2>6 DEF LogInv
    <2> QED
      BY <1>2, <2>4, <2>5, <2>6 DEF Appends, Disabled
  <1>3. CASE LogStops
    BY <1>3 DEF LogStops, Stopping, Becomes, LogInv, Lives, Device, logVars, fileVars
  <1>4. CASE LogStopEnds
    <2>1. chain = <<>> /\ ~enabled' /\ UNCHANGED <<accepted, chain, file, failed>>
      BY <1>4 DEF LogStopEnds
    <2>2. Lives' /\ life'["log"] = "stopped"
      BY <1>4 DEF LogStopEnds, Stopped, Becomes, LogInv, Lives, Device
    <2> QED
      BY <2>1, <2>2 DEF LogInv
  <1> QED
    BY <1>1, <1>2, <1>3, <1>4 DEF LogNext

\* The file has the accepted lines in order and without a gap, and none is on its way
\* when stop() has returned.
THEOREM LinesStay == Spec => []LinesKept
  <1>1. Init => LogInv
    <2> SUFFICES ASSUME Init PROVE LogInv
      OBVIOUS
    <2>1. Lives /\ life["log"] = "active"
      BY DEF Init, InitDevices, Lives, Device
    <2>2. PICK withFile \in BOOLEAN : InitLog(withFile)
      BY DEF Init
    <2>3. accepted = 0 /\ chain = <<>> /\ file = <<>> /\ (enabled <=> ~failed)
      BY <2>2 DEF InitLog
    <2> QED
      BY <2>1, <2>3 DEF LogInv
  <1>2. LogInv /\ [Next]_vars => LogInv'
    <2> SUFFICES ASSUME LogInv, [Next]_vars PROVE LogInv'
      OBVIOUS
    <2>1. CASE LogNext
      BY <2>1, LogStep
    <2>2. CASE (HttpNext \/ TokenNext \/ RpcClientNext \/ NetNext) /\ UNCHANGED logVars
      BY <2>2, OthersLeaveLog DEF LogInv, logVars, fileVars
    <2>3. CASE UNCHANGED <<life, logVars>>
      BY <2>3 DEF LogInv, Lives, logVars, fileVars
    <2> QED
      BY <2>1, <2>2, <2>3 DEF Next, vars
  <1>3. LogInv => LinesKept
    <2> SUFFICES ASSUME LogInv PROVE LinesKept
      OBVIOUS
    <2> DEFINE lines == [i \in 1 .. accepted |-> i]
    <2>1. lines \in Seq(Nat) /\ Len(lines) = accepted /\ \A i \in 1 .. accepted : lines[i] = i
      BY DEF LogInv
    <2> HIDE DEF lines
    <2>2. IsPrefix(file, lines)
      <3>1. Len(file) \in 0 .. Len(lines)
        BY <2>1 DEF LogInv
      <3>2. SubSeq(file, 1, Len(file)) = SubSeq(lines, 1, Len(file))
        BY <2>1, <3>1 DEF LogInv
      <3> QED
        BY <3>1, <3>2 DEF IsPrefix
    <2>3. ASSUME ~failed PROVE file \o chain = lines
      <3>1. file \o chain \in Seq(Nat) /\ Len(file \o chain) = Len(lines)
        BY <2>1, <2>3 DEF LogInv
      <3>2. ASSUME NEW i \in 1 .. Len(lines) PROVE (file \o chain)[i] = lines[i]
        <4>1. /\ file \in Seq(Nat) /\ chain \in Seq(Nat) /\ accepted = Len(file) + Len(chain)
              /\ \A j \in 1 .. Len(file) : file[j] = j
              /\ \A j \in 1 .. Len(chain) : chain[j] = Len(file) + j
          BY <2>3 DEF LogInv
        <4>2. CASE i <= Len(file)
          BY <2>1, <4>1, <4>2
        <4>3. CASE i > Len(file)
          <5>1. i - Len(file) \in 1 .. Len(chain) /\ (file \o chain)[i] = chain[i - Len(file)]
            BY <2>1, <4>1, <4>3
          <5> QED
            BY <2>1, <4>1, <5>1
        <4>4. i \in Nat /\ Len(file) \in Nat
          BY <2>1, <4>1
        <4>5. i <= Len(file) \/ i > Len(file)
          BY <4>4
        <4> QED
          BY <4>2, <4>3, <4>5, Zenon
      <3> QED
        BY <2>1, <3>1, <3>2, SeqEqual
    <2> QED
      BY <2>2, <2>3 DEF LinesKept, LogInv, lines
  <1> QED
    BY <1>1, <1>2, <1>3, PTL DEF Spec

-----------------------------------------------------------------------------
(* What the callers of std.http-client and std.rpc are told                *)

HttpTypes ==
    http \in [pc : {"idle", "fetch", "response", "body", "threw", "retry", "backoff", "resume", "said"},
              attempt : Nat, budget : Nat, by : {"nobody", "direct", "rest"}, aborted : BOOLEAN,
              status : {"none", "ok", "client", "server"},
              said : {"nothing", "ok", "client", "server", "limit", "failed", "stopped"}]

\* Between two attempts one is left; a 5xx whose body is read was not to be retried.
HttpPoints ==
    /\ http.attempt <= http.budget
    /\ http.pc \in {"retry", "backoff", "resume"} => http.attempt < http.budget
    /\ http.pc \in {"response", "body"} => http.status # "none"
    /\ http.pc = "body" /\ http.status = "server" => http.attempt = http.budget \/ Closed
    /\ http.pc = "said" =>
           \/ http.said \in {"ok", "client", "limit"}
           \/ http.said \in {"server", "failed"} /\ (http.attempt = http.budget \/ Closed)
           \/ http.said = "stopped" /\ Closed

LEMMA Attempts ==
    ASSUME Lives, HttpTypes, HttpPoints, HttpWork \/ HttpNetwork, UNCHANGED life
    PROVE  HttpTypes' /\ HttpPoints'
  <1> USE DEF HttpTypes, HttpPoints, Closed
  <1>1. CASE TimesOut
    BY <1>1 DEF TimesOut
  <1>2. CASE AbortHits \/ NetworkFails
    BY <1>2 DEF AbortHits, NetworkFails, Steps
  <1>3. CASE ResponseSeen
    <2> DEFINE retryable == ~Closed /\ AttemptLeft /\ http.status = "server"
    <2>1. CASE retryable
      <3>1. http' = [http EXCEPT !.pc = "retry", !.aborted = FALSE] /\ http.attempt < http.budget
        BY <1>3, <2>1 DEF ResponseSeen, AttemptLeft
      <3> QED
        BY <3>1
    <2>2. CASE ~retryable
      <3>1. http' = [http EXCEPT !.pc = "body", !.aborted = @] /\ http.pc = "response"
        BY <1>3, <2>2 DEF ResponseSeen
      <3>2. http.status = "server" => Closed \/ http.attempt = http.budget
        BY <2>2 DEF AttemptLeft
      <3> QED
        BY <3>1, <3>2
    <2> QED
      BY <2>1, <2>2
  <1>4. CASE ThrownSeen
    <2>1. CASE Closed /\ Says("stopped")
      BY <2>1 DEF Says
    <2>2. CASE AttemptLeft /\ http' = [http EXCEPT !.pc = "backoff", !.aborted = FALSE]
      BY <2>2 DEF AttemptLeft
    <2>3. CASE ~AttemptLeft /\ Says("failed")
      <3>1. http.attempt = http.budget
        BY <2>3 DEF AttemptLeft
      <3> QED
        BY <2>3, <3>1 DEF Says
    <2> QED
      BY <1>4, <2>1, <2>2, <2>3 DEF ThrownSeen
  <1>5. CASE RetrySeen \/ BackoffEnds
    BY <1>5 DEF RetrySeen, BackoffEnds, Steps
  <1>9. CASE Resumes
    <2>1. http.attempt < http.budget /\ http.attempt + 1 \in Nat /\ http.attempt + 1 <= http.budget
      BY <1>9 DEF Resumes
    <2>2. /\ http'.pc = "fetch" /\ http'.attempt = http.attempt + 1 /\ http'.budget = http.budget
          /\ HttpTypes'
      BY <1>9, <2>1 DEF Resumes
    <2> QED
      BY <2>1, <2>2
  <1>6. CASE RequestEnds
    BY <1>6 DEF RequestEnds, Fresh
  <1>7. CASE BodyEnds \/ BodyTooLong
    BY <1>7 DEF BodyEnds, BodyTooLong, Says
  <1>8. ASSUME NEW status \in {"ok", "client", "server"}, FetchAnswers(status)
        PROVE  HttpTypes' /\ HttpPoints'
    BY <1>8 DEF FetchAnswers
  <1> QED
    BY <1>1, <1>2, <1>3, <1>4, <1>5, <1>6, <1>7, <1>8, <1>9 DEF HttpWork, HttpNetwork

\* Once stop() was called it stays called, until the device is registered anew.
LEMMA LivesOfHttp ==
    ASSUME Lives, HttpTypes, HttpPoints, HttpNext
    PROVE  HttpTypes' /\ HttpPoints' /\ Lives'
  <1>1. ASSUME NEW retries \in Nat, NEW by \in {"direct", "rest"}, RequestBegins(by, retries)
        PROVE  HttpTypes' /\ HttpPoints' /\ Lives'
    <2>1. http' = [pc |-> "fetch", attempt |-> 1, budget |-> 1 + retries, by |-> by,
                   aborted |-> FALSE, status |-> "none", said |-> "nothing"]
      BY <1>1 DEF RequestBegins, Fresh
    <2>2. HttpTypes'
      BY <2>1 DEF HttpTypes
    <2>3. HttpPoints'
      BY <2>1 DEF HttpPoints
    <2>4. Lives'
      BY <1>1 DEF RequestBegins, Lives
    <2> QED
      BY <2>2, <2>3, <2>4
  <1>2. CASE UNCHANGED <<life, http>>
    BY <1>2 DEF HttpTypes, HttpPoints, Closed, Lives
  <1>3. CASE (HttpWork \/ HttpNetwork) /\ UNCHANGED <<life, calls, rcVars>>
    BY <1>3, Attempts DEF Lives
  <1>4. CASE HttpStopEnds
    BY <1>4 DEF HttpStopEnds, Stopped, Becomes, HttpTypes, HttpPoints, Closed, Lives, Device
  <1>5. CASE HttpComesBack
    BY <1>5 DEF HttpComesBack, Fresh, Becomes, HttpTypes, HttpPoints, Lives, Device
  <1>6. CASE HttpRollsBack
    <2>1. Lives' /\ life["http"] = "active" /\ life'["http"] = "stopping"
      BY <1>6 DEF HttpRollsBack, Stopping, Becomes, Lives, Device
    <2> QED
      BY <1>6, <2>1 DEF HttpRollsBack, HttpStops, HttpTypes, HttpPoints, Closed, Timed
  <1>7. CASE HttpUnloads
    <2>1. Lives' /\ life["http"] = "active" /\ http' = http
      BY <1>7 DEF HttpUnloads, Becomes, Lives, Device
    <2> QED
      BY <2>1 DEF HttpTypes, HttpPoints, Closed
  <1>8. CASE Performs
    BY <1>1, <1>8 DEF Performs
  <1>9. CASE PerformEnds \/ RestClientStops
    BY <1>2, <1>9 DEF PerformEnds, RestClientStops
  <1>10. CASE \E retries \in 0 .. MaxRetries : RequestBegins("direct", retries) /\ UNCHANGED rcVars
    BY <1>1, <1>10
  <1> QED
    BY <1>3, <1>4, <1>5, <1>6, <1>7, <1>8, <1>9, <1>10 DEF HttpNext, RestClientNext

RpcTypes ==
    rpcc \in [pc : {"idle", "fetch", "text", "said"}, timer : BOOLEAN, aborted : BOOLEAN,
              answer : Answer \cup {NoAnswer}, said : Status \cup {Fine, "nothing"}]

RpcPoints ==
    rpcc.pc = "said" =>
        /\ rpcc.said = Fine => rpcc.answer.wrap # "refused" /\ rpcc.answer.holds = "result"
        /\ rpcc.said \notin {Fine, "failed"} =>
               /\ rpcc.said = rpcc.answer.status
               /\ rpcc.answer.wrap = "refused" \/ rpcc.answer.holds = "error"

\* unwrapSingleResponse() makes a result of a result, and a status of the status that
\* was sent, or of none.
LEMMA UnwrapsWhatWasSent ==
    ASSUME NEW answer \in Answer
    PROVE  /\ Unwrapped(answer) \in Status \cup {Fine}
           /\ Unwrapped(answer) = Fine => answer.wrap # "refused" /\ answer.holds = "result"
           /\ Unwrapped(answer) \notin {Fine, "failed"} =>
                  /\ Unwrapped(answer) = answer.status
                  /\ answer.wrap = "refused" \/ answer.holds = "error"
  <1>1. CodeToStatus(StatusToCode(answer.status)) \in {answer.status, "failed"} \cap Status
    <2>1. answer.status \in Status
      BY DEF Answer
    <2>2. CASE answer.status = "not_found"
      <3>1. StatusToCode(answer.status) = -32601
        BY <2>2 DEF StatusToCode
      <3> QED
        BY <2>2, <3>1 DEF CodeToStatus, Status
    <2>3. CASE answer.status = "invalid_argument"
      <3>1. StatusToCode(answer.status) = -32602
        BY <2>3 DEF StatusToCode
      <3>2. CodeToStatus(-32602) = "invalid_argument"
        BY DEF CodeToStatus
      <3> QED
        BY <2>3, <3>1, <3>2 DEF Status
    <2>4. CASE answer.status \in {"busy", "failed"}
      <3>1. StatusToCode(answer.status) = -32603
        BY <2>4 DEF StatusToCode
      <3>2. CodeToStatus(-32603) = "failed"
        BY DEF CodeToStatus
      <3> QED
        BY <3>1, <3>2 DEF Status
    <2> QED
      BY <2>1, <2>2, <2>3, <2>4 DEF Status
  <1> QED
    BY <1>1 DEF Unwrapped, Answer, Status, Fine

LEMMA RpcStep ==
    ASSUME RpcTypes, RpcPoints, RpcClientNext
    PROVE  RpcTypes' /\ RpcPoints'
  <1>1. CASE ExchangeBegins
    BY <1>1 DEF ExchangeBegins, Quiet, RpcTypes, RpcPoints
  <1>2. CASE HeadersCome
    BY <1>2 DEF HeadersCome, RpcTypes, RpcPoints
  <1>6. CASE RpcStops
    <2> DEFINE runs == rpcc.pc \in {"fetch", "text"}
    <2>1. rpcc' = [rpcc EXCEPT !.aborted = runs]
      BY <1>6 DEF RpcStops
    <2>2. runs \in BOOLEAN
      OBVIOUS
    <2> HIDE DEF runs
    <2>3. /\ rpcc'.pc = rpcc.pc /\ rpcc'.answer = rpcc.answer /\ rpcc'.said = rpcc.said
          /\ RpcTypes'
      BY <2>1, <2>2 DEF RpcTypes
    <2> QED
      BY <2>3 DEF RpcPoints
  <1>3. CASE ExchangeTimesOut \/ ExchangeFails
    <2>1. rpcc' = [pc |-> "said", timer |-> FALSE, aborted |-> FALSE, answer |-> NoAnswer, said |-> "failed"]
      BY <1>3 DEF ExchangeTimesOut, ExchangeFails, Throws, RpcSays, Quiet
    <2>2. "failed" \in Status \cup {Fine, "nothing"} /\ "failed" # Fine
      BY DEF Status, Fine
    <2> QED
      BY <2>1, <2>2 DEF RpcTypes, RpcPoints
  <1>4. CASE BodyComes
    <2>1. PICK answer \in Answer : RpcSays(Unwrapped(answer), answer)
      BY <1>4 DEF BodyComes
    <2>2. rpcc' = [pc |-> "said", timer |-> FALSE, aborted |-> FALSE, answer |-> answer, said |-> Unwrapped(answer)]
      BY <2>1 DEF RpcSays, Quiet
    <2> QED
      BY <2>2, UnwrapsWhatWasSent DEF RpcTypes, RpcPoints
  <1>5. CASE ExchangeEnds
    BY <1>5 DEF ExchangeEnds, Quiet, RpcTypes, RpcPoints
  <1> QED
    BY <1>1, <1>2, <1>3, <1>4, <1>5, <1>6 DEF RpcClientNext

AnswersInv == Lives /\ HttpTypes /\ HttpPoints /\ RpcTypes /\ RpcPoints

\* What the callers are told is what happened, whatever the network does, with any
\* number of retries and through any stop().
THEOREM AnswersStayTrue == Spec => []AnswersAreTrue
  <1>1. Init => AnswersInv
    <2> SUFFICES ASSUME Init PROVE AnswersInv
      OBVIOUS
    <2>1. Lives
      BY DEF Init, InitDevices, Lives
    <2>2. HttpTypes /\ HttpPoints
      BY DEF Init, InitHttpClient, Fresh, HttpTypes, HttpPoints
    <2>3. RpcTypes /\ RpcPoints
      BY DEF Init, InitRpcClient, Quiet, RpcTypes, RpcPoints
    <2> QED
      BY <2>1, <2>2, <2>3 DEF AnswersInv
  <1>2. AnswersInv /\ [Next]_vars => AnswersInv'
    <2> SUFFICES ASSUME AnswersInv, [Next]_vars PROVE AnswersInv'
      OBVIOUS
    <2>1. ASSUME UNCHANGED <<life, http>> PROVE Lives' /\ HttpTypes' /\ HttpPoints'
      BY <2>1 DEF AnswersInv, Lives, HttpTypes, HttpPoints, Closed
    <2>2. ASSUME UNCHANGED rpcc PROVE RpcTypes' /\ RpcPoints'
      BY <2>2 DEF AnswersInv, RpcTypes, RpcPoints
    <2>3. ASSUME TokenNext \/ RpcClientNext \/ NetNext \/ LogNext, UNCHANGED http
          PROVE  Lives' /\ HttpTypes' /\ HttpPoints'
      <3>1. Lives' /\ life'["http"] = life["http"]
        BY <2>3, OthersLeaveHttp DEF AnswersInv
      <3> QED
        BY <2>3, <3>1 DEF AnswersInv, HttpTypes, HttpPoints, Closed
    <2>4. CASE HttpNext /\ UNCHANGED rpcc
      BY <2>2, <2>4, LivesOfHttp DEF AnswersInv
    <2>5. CASE RpcClientNext /\ UNCHANGED http
      BY <2>3, <2>5, RpcStep DEF AnswersInv
    <2>6. CASE (TokenNext \/ NetNext \/ LogNext) /\ UNCHANGED <<http, rpcc>>
      BY <2>2, <2>3, <2>6 DEF AnswersInv
    <2>7. CASE UNCHANGED <<life, http, rpcc>>
      BY <2>1, <2>2, <2>7 DEF AnswersInv
    <2> QED
      BY <2>4, <2>5, <2>6, <2>7 DEF Next, vars
  <1>3. AnswersInv => AnswersAreTrue
    BY DEF AnswersInv, HttpPoints, RpcPoints, AnswersAreTrue
  <1> QED
    BY <1>1, <1>2, <1>3, PTL DEF Spec

-----------------------------------------------------------------------------
(* std.oauth                                                               *)

TokenEntry == [at : Nat, ends : Nat, slow : BOOLEAN, refresh : Nat]

TokTypes ==
    /\ now \in Nat /\ minted \in Nat /\ burnt \subseteq 1 .. minted
    /\ cache \in [Key -> TokenEntry]

\* What an entry says of the server holds, up to the margin, unless the reply was slow.
Truthful(entry) == entry.slow \/ entry.ends >= entry.at - Margin

\* A refresh token is in one entry, or with the request that is made with it and in
\* no entry but that request's; the server handed it out and no refresh failed with it.
TokPoints ==
    /\ \A k \in Key : Truthful(cache[k]) /\ cache[k].refresh <= minted /\ cache[k].refresh \notin burnt
    /\ \A k, l \in Key : k # l /\ cache[k].refresh # 0 => cache[k].refresh # cache[l].refresh
    /\ tok.pc \in {"refresh", "grant"} => tok.key \in Key /\ tok.since \in Nat
    /\ tok.pc = "grant" => tok.old = 0
    /\ tok.pc = "refresh" => /\ tok.old \in (1 .. minted) \ burnt
                             /\ \A k \in Key \ {tok.key} : cache[k].refresh # tok.old

TokInv == TokTypes /\ TokPoints /\ TokensAreGood

\* A reply's entry: its times, and a refresh token of its own.
LEMMA RepliesAreTruthful ==
    ASSUME TokTypes, NEW since \in Nat, NEW issued \in since .. now, NEW lasts \in LifeTimes, NEW refresh \in Nat
    PROVE  LET e == Reply(issued, lasts, refresh) IN e \in TokenEntry /\ Truthful(e) /\ e.refresh = refresh
  <1>1. now \in Nat /\ issued \in Nat /\ lasts \in Nat
    BY DEF TokTypes
  <1>2. (now - issued > Margin) \in BOOLEAN
    OBVIOUS
  <1>3. Reply(issued, lasts, refresh) \in TokenEntry
    BY <1>1, <1>2 DEF Reply, TokenEntry
  <1>4. now - issued > Margin \/ issued + lasts >= now + lasts - Margin
    BY <1>1
  <1>5. CASE now - issued > Margin
    BY <1>3, <1>5 DEF Reply, Truthful
  <1>6. CASE ~(now - issued > Margin)
    <2>1. issued + lasts >= now + lasts - Margin
      BY <1>4, <1>6
    <2> DEFINE e == Reply(issued, lasts, refresh)
    <2>2. e.at = now + lasts /\ e.ends = issued + lasts /\ e.refresh = refresh
      BY DEF Reply
    <2>3. e \in TokenEntry
      BY <1>3
    <2> HIDE DEF e
    <2>4. Truthful(e)
      BY <1>1, <2>1, <2>2 DEF Truthful
    <2> QED
      BY <2>2, <2>3, <2>4 DEF e
  <1> QED
    BY <1>5, <1>6

LEMMA TokenCalledStep ==
    ASSUME TokInv, NEW k \in Key, TokenCalled(k)
    PROVE  TokInv'
  <1> USE DEF TokInv, TokTypes, TokPoints, TokensAreGood
  <1>1. UNCHANGED <<now, minted, burnt>> /\ cache[k] \in TokenEntry
    BY DEF TokenCalled
  <1>2. CASE Good(cache[k]) /\ served' = [entry |-> cache[k], when |-> now] /\ UNCHANGED <<cache, tok>>
    <2>1. cache[k].slow \/ cache[k].ends > now
      BY <1>1, <1>2 DEF Good, Truthful, TokenEntry
    <2> QED
      BY <1>1, <1>2, <2>1 DEF Truthful
  <1>3. CASE /\ cache[k].refresh # 0
             /\ tok' = [pc |-> "refresh", key |-> k, since |-> now, old |-> cache[k].refresh]
             /\ UNCHANGED <<cache, served>>
    <2>1. cache[k].refresh \in (1 .. minted) \ burnt
      BY <1>1, <1>3 DEF TokenEntry
    <2>2. \A l \in Key \ {k} : cache[l].refresh # cache[k].refresh
      BY <1>3
    <2> QED
      BY <1>1, <1>3, <2>1, <2>2 DEF Truthful
  <1>4. CASE /\ tok' = [pc |-> "grant", key |-> k, since |-> now, old |-> 0]
             /\ cache' = [cache EXCEPT ![k] = NoEntry] /\ UNCHANGED served
    BY <1>1, <1>4 DEF NoEntry, TokenEntry, Truthful
  <1> QED
    BY <1>2, <1>3, <1>4 DEF TokenCalled

LEMMA RepliesStep ==
    ASSUME TokInv, Replies
    PROVE  TokInv'
  <1> USE DEF TokInv, TokTypes, TokPoints
  <1>1. PICK issued \in tok.since .. now, lasts \in LifeTimes, rotates \in BOOLEAN :
          /\ minted' = IF rotates THEN minted + 1 ELSE minted
          /\ cache' = IF tok.pc = "refresh" \/ lasts > 0
                      THEN [cache EXCEPT ![tok.key] = Reply(issued, lasts, IF rotates THEN minted + 1 ELSE tok.old)]
                      ELSE cache
    BY DEF Replies
  <1> DEFINE refresh == IF rotates THEN minted + 1 ELSE tok.old
             e == Reply(issued, lasts, refresh)
  <1>2. UNCHANGED <<now, burnt, served>> /\ tok'.pc = "idle" /\ tok.pc \in {"refresh", "grant"}
    BY DEF Replies, NoToken
  <1>3. /\ tok.key \in Key /\ tok.since \in Nat /\ refresh \in Nat /\ refresh <= minted' /\ refresh \notin burnt
        /\ minted' \in Nat /\ minted <= minted'
        /\ \A k \in Key \ {tok.key} : refresh # 0 => cache[k].refresh # refresh
    BY <1>1, <1>2 DEF TokenEntry
  <1>4. e \in TokenEntry /\ Truthful(e) /\ e.refresh = refresh
    BY <1>1, <1>3, RepliesAreTruthful
  <1>5. TokensAreGood'
    BY <1>2 DEF TokensAreGood
  <1>6. burnt' \subseteq 1 .. minted'
    BY <1>2, <1>3
  <1>7. cache' = [cache EXCEPT ![tok.key] = e] \/ cache' = cache
    BY <1>1
  <1> HIDE DEF refresh, e
  <1>8. CASE cache' = cache
    BY <1>2, <1>3, <1>5, <1>6, <1>8 DEF TokenEntry, Truthful
  <1>9. CASE cache' = [cache EXCEPT ![tok.key] = e]
    <2>1. cache' \in [Key -> TokenEntry] /\ cache'[tok.key] = e
      BY <1>3, <1>4, <1>9
    <2>2. \A k \in Key \ {tok.key} : cache'[k] = cache[k]
      BY <1>3, <1>9
    <2>3. \A k \in Key : Truthful(cache'[k]) /\ cache'[k].refresh <= minted' /\ cache'[k].refresh \notin burnt
      BY <1>3, <1>4, <2>1, <2>2 DEF TokenEntry
    <2>4. \A k, l \in Key : k # l /\ cache'[k].refresh # 0 => cache'[k].refresh # cache'[l].refresh
      BY <1>3, <1>4, <2>1, <2>2
    <2> QED
      BY <1>2, <1>3, <1>5, <1>6, <2>1, <2>3, <2>4 DEF Truthful
  <1> QED
    BY <1>7, <1>8, <1>9

LEMMA ReplyFailsStep ==
    ASSUME TokInv, ReplyFails
    PROVE  TokInv'
  <1> USE DEF TokInv, TokTypes, TokPoints
  <1>1. UNCHANGED <<now, minted, served>> /\ tok'.pc = "idle" /\ TokensAreGood'
    BY DEF ReplyFails, NoToken, TokensAreGood
  <1>2. CASE tok.pc = "refresh"
    <2>1. cache' = [cache EXCEPT ![tok.key] = NoEntry] /\ burnt' = burnt \cup {tok.old}
      BY <1>2 DEF ReplyFails, Cleared
    <2>2. cache' \in [Key -> TokenEntry] /\ burnt' \subseteq 1 .. minted
      BY <1>2, <2>1 DEF NoEntry, TokenEntry
    <2>3. /\ cache'[tok.key] = NoEntry /\ tok.key \in Key
          /\ \A k \in Key \ {tok.key} : cache'[k] = cache[k]
      BY <1>2, <2>1
    <2>4. \A k \in Key : Truthful(cache'[k]) /\ cache'[k].refresh <= minted /\ cache'[k].refresh \notin burnt'
      BY <1>2, <2>1, <2>2, <2>3 DEF NoEntry, Truthful
    <2>5. \A k, l \in Key : k # l /\ cache'[k].refresh # 0 => cache'[k].refresh # cache'[l].refresh
      BY <2>3 DEF NoEntry
    <2> QED
      BY <1>1, <2>2, <2>4, <2>5 DEF Truthful
  <1>3. CASE tok.pc # "refresh"
    BY <1>1, <1>3 DEF ReplyFails, Truthful
  <1> QED
    BY <1>2, <1>3

\* Entries that are forgotten take nothing with them.
LEMMA TokenStep ==
    ASSUME TokInv, TokenNext
    PROVE  TokInv'
  <1> USE DEF TokInv, TokTypes, TokPoints, TokensAreGood
  <1>1. ASSUME NEW k \in Key, Invalidates(k) PROVE TokInv'
    BY <1>1 DEF Invalidates, NoEntry, TokenEntry, Truthful
  <1>2. CASE Ticks
    BY <1>2 DEF Ticks, Truthful
  <1>3. CASE Introspects \/ IntrospectEnds
    BY <1>3 DEF Introspects, IntrospectEnds, NoToken, Truthful
  <1>4. CASE OauthStops
    BY <1>4 DEF OauthStops, NoEntry, TokenEntry, Truthful
  <1> QED
    BY <1>1, <1>2, <1>3, <1>4, TokenCalledStep, RepliesStep, ReplyFailsStep DEF TokenNext

\* The cache serves what the server still takes, and no refresh token is sent again
\* with which a refresh failed, for any keys, lifetimes and margin.
THEOREM TokensStayGood == Spec => []TokensAreGood
  <1>1. Init => TokInv
    BY DEF Init, InitTokens, NoEntry, NoToken, TokenEntry, Truthful, TokInv, TokTypes, TokPoints, TokensAreGood
  <1>2. TokInv /\ [Next]_vars => TokInv'
    <2>1. TokInv /\ UNCHANGED tokVars => TokInv'
      BY DEF TokInv, TokTypes, TokPoints, TokensAreGood, Truthful, tokVars
    <2> QED
      BY <2>1, TokenStep DEF Next, vars
  <1>3. TokInv => TokensAreGood
    BY DEF TokInv
  <1> QED
    BY <1>1, <1>2, <1>3, PTL DEF Spec

-----------------------------------------------------------------------------
(* The ring of std.log                                                     *)

\* The slot k places behind the slot h.
Behind(h, k) == (h + k) % Capacity

\* What the index arithmetic comes to: it wraps at most once.
LEMMA Wraps ==
    ASSUME NEW h \in Slot, NEW k \in 0 .. Capacity
    PROVE  /\ Behind(h, k) = IF h + k < Capacity THEN h + k ELSE h + k - Capacity
           /\ Behind(h, k) \in Slot
  <1>1. CASE h + k < Capacity
    BY <1>1 DEF Slot, Behind
  <1>2. CASE h + k >= Capacity
    <2>1. h + k - Capacity \in 0 .. Capacity - 1
      BY <1>2 DEF Slot
    <2>2. h + k = (h + k - Capacity) + Capacity * 1
      BY <1>2 DEF Slot
    <2> QED
      BY <1>2, <2>1, <2>2 DEF Slot, Behind
  <1> QED
    BY <1>1, <1>2 DEF Slot

\* What entries() returns is a sequence of entries, read from behind the head.
LEMMA EntriesAre ==
    ASSUME RingInv
    PROVE  /\ Entries \in Seq(Entry) /\ Len(Entries) = count /\ count \in 0 .. Capacity
           /\ \A i \in 1 .. count : Entries[i] = slots[Behind(head, i - 1)]
  <1>1. count \in Nat /\ count \in 0 .. Capacity /\ head \in Slot
    BY DEF RingInv
  <1>2. Entries \in [1 .. count -> Entry]
    BY DEF RingInv, Entries
  <1>3. \A i \in 1 .. count : head + i - 1 = head + (i - 1)
    BY <1>1 DEF Slot
  <1>4. \A i \in 1 .. count : Entries[i] = slots[Behind(head, i - 1)]
    BY <1>1, <1>3 DEF Entries, Behind
  <1> QED
    BY <1>1, <1>2, <1>4

\* What it returns next, and what the ring has to satisfy for it.
LEMMA EntriesNext ==
    ASSUME count' \in 0 .. Capacity, head' \in Slot, slots' \in [Slot -> Entry \cup {Empty}],
           \A i \in 1 .. count' : slots'[Behind(head', i - 1)] \in Entry
    PROVE  /\ RingInv' /\ Entries' \in Seq(Entry) /\ Len(Entries') = count'
           /\ \A i \in 1 .. count' : Entries'[i] = slots'[Behind(head', i - 1)]
  <1>1. \A i \in 1 .. count' : head' + i - 1 = head' + (i - 1)
    BY DEF Slot
  <1>2. \A i \in 1 .. count' : Entries'[i] = slots'[Behind(head', i - 1)]
    BY <1>1 DEF Entries, Behind
  <1>3. Entries' \in [1 .. count' -> Entry] /\ count' \in Nat
    BY <1>2 DEF Entries
  <1>4. RingInv'
    BY <1>2 DEF RingInv
  <1> QED
    BY <1>2, <1>3, <1>4

-----------------------------------------------------------------------------
(* push() and clear() of the ring                                          *)

\* With room left, the entry comes after the others.
LEMMA PushAppends ==
    ASSUME RingInv, NEW entry \in Entry, Push(entry), count # Capacity
    PROVE  RingInv' /\ Entries' = Append(Entries, entry)
  <1> DEFINE at == Behind(head, count)
  <1>1. count \in 0 .. Capacity - 1 /\ head \in Slot /\ at \in Slot
    <2>1. count \in 0 .. Capacity - 1 /\ count \in 0 .. Capacity /\ head \in Slot
      BY DEF RingInv
    <2> QED
      BY <2>1, Wraps
  <1>2. head' = head /\ count' = count + 1 /\ slots' = [slots EXCEPT ![at] = entry]
    BY DEF Push, Behind
  <1> HIDE DEF at
  <1>3. slots' \in [Slot -> Entry \cup {Empty}] /\ slots'[at] = entry
    BY <1>1, <1>2 DEF RingInv
  <1>4. ASSUME NEW i \in 1 .. count
        PROVE  slots'[Behind(head', i - 1)] = Entries[i]
    <2>1. i - 1 \in 0 .. Capacity /\ count \in 0 .. Capacity /\ i - 1 < count
      BY <1>1
    <2>2. at = IF head + count < Capacity THEN head + count ELSE head + count - Capacity
      BY <1>1, <2>1, Wraps DEF at
    <2>3. /\ Behind(head, i - 1) = IF head + (i - 1) < Capacity THEN head + (i - 1) ELSE head + (i - 1) - Capacity
          /\ Behind(head, i - 1) \in Slot
      BY <1>1, <2>1, Wraps
    <2>4. Behind(head, i - 1) # at
      BY <1>1, <2>1, <2>2, <2>3 DEF Slot
    <2> QED
      BY <1>1, <1>2, <2>3, <2>4, EntriesAre DEF RingInv
  <1>5. slots'[Behind(head', count' - 1)] = entry
    BY <1>1, <1>2, <1>3 DEF at
  <1>6. \A i \in 1 .. count' : i \in 1 .. count \/ i = count'
    BY <1>1, <1>2
  <1>7. \A i \in 1 .. count' : slots'[Behind(head', i - 1)] \in Entry
    BY <1>1, <1>4, <1>5, <1>6, EntriesAre
  <1>8. /\ RingInv' /\ Entries' \in Seq(Entry) /\ Len(Entries') = count'
        /\ \A i \in 1 .. count' : Entries'[i] = slots'[Behind(head', i - 1)]
    BY <1>1, <1>2, <1>3, <1>7, EntriesNext
  <1>9. /\ Append(Entries, entry) \in Seq(Entry) /\ Len(Append(Entries, entry)) = count'
        /\ \A i \in 1 .. count : Append(Entries, entry)[i] = Entries[i]
        /\ Append(Entries, entry)[count'] = entry
    BY <1>1, <1>2, EntriesAre
  <1>10. \A i \in 1 .. count' : Entries'[i] = Append(Entries, entry)[i]
    BY <1>4, <1>5, <1>6, <1>8, <1>9
  <1> QED
    BY <1>8, <1>9, <1>10, SeqEqual

\* In a full ring it takes the place of the oldest.
LEMMA PushReplaces ==
    ASSUME RingInv, NEW entry \in Entry, Push(entry), count = Capacity
    PROVE  RingInv' /\ Entries' = Append(Tail(Entries), entry)
  <1>1. head \in Slot /\ Behind(head, Capacity) = head
    BY Wraps DEF RingInv, Slot
  <1>2. head' = Behind(head, 1) /\ count' = Capacity /\ slots' = [slots EXCEPT ![head] = entry]
    BY <1>1 DEF Push, HeadMoves, Behind
  <1>3. head' \in Slot /\ head' = IF head + 1 < Capacity THEN head + 1 ELSE 0
    <2>1. 1 \in 0 .. Capacity
      OBVIOUS
    <2>2. Behind(head, 1) = IF head + 1 < Capacity THEN head + 1 ELSE head + 1 - Capacity
      BY <1>1, <2>1, Wraps
    <2> QED
      BY <1>1, <1>2, <2>2 DEF Slot
  <1>4. slots' \in [Slot -> Entry \cup {Empty}] /\ slots'[head] = entry
    BY <1>1, <1>2 DEF RingInv
  <1>5. ASSUME NEW i \in 1 .. Capacity - 1
        PROVE  slots'[Behind(head', i - 1)] = Entries[i + 1]
    <2>1. i - 1 \in 0 .. Capacity /\ i \in 0 .. Capacity /\ i + 1 \in 1 .. count /\ (i + 1) - 1 = i
      OBVIOUS
    <2>2. Behind(head', i - 1) = IF head' + (i - 1) < Capacity THEN head' + (i - 1) ELSE head' + (i - 1) - Capacity
      BY <1>3, <2>1, Wraps
    <2>3. /\ Behind(head, i) = IF head + i < Capacity THEN head + i ELSE head + i - Capacity
          /\ Behind(head, i) \in Slot
      BY <1>1, <2>1, Wraps
    <2>4. Behind(head', i - 1) = Behind(head, i) /\ Behind(head, i) # head
      BY <1>1, <1>3, <2>2, <2>3 DEF Slot
    <2>5. Entries[i + 1] = slots[Behind(head, i)]
      BY <2>1, EntriesAre
    <2> QED
      BY <1>1, <1>2, <2>3, <2>4, <2>5 DEF RingInv
  <1>6. slots'[Behind(head', count' - 1)] = entry
    <2>1. Capacity - 1 \in 0 .. Capacity
      OBVIOUS
    <2>2. Behind(head', Capacity - 1) =
              IF head' + (Capacity - 1) < Capacity THEN head' + (Capacity - 1) ELSE head' + (Capacity - 1) - Capacity
      BY <1>3, <2>1, Wraps
    <2>3. Behind(head', Capacity - 1) = head
      BY <1>1, <1>3, <2>2 DEF Slot
    <2> QED
      BY <1>2, <1>4, <2>3
  <1>7. \A i \in 1 .. count' : i \in 1 .. Capacity - 1 \/ i = count'
    BY <1>2
  <1>8. \A i \in 1 .. Capacity - 1 : Entries[i + 1] \in Entry
    BY EntriesAre
  <1>9. \A i \in 1 .. count' : slots'[Behind(head', i - 1)] \in Entry
    BY <1>5, <1>6, <1>7, <1>8
  <1>10. /\ RingInv' /\ Entries' \in Seq(Entry) /\ Len(Entries') = count'
         /\ \A i \in 1 .. count' : Entries'[i] = slots'[Behind(head', i - 1)]
    BY <1>2, <1>3, <1>4, <1>9, EntriesNext
  <1>11. /\ Tail(Entries) \in Seq(Entry) /\ Len(Tail(Entries)) = Capacity - 1
         /\ \A i \in 1 .. Capacity - 1 : Tail(Entries)[i] = Entries[i + 1]
    <2>1. Entries \in Seq(Entry) /\ Len(Entries) = Capacity /\ Entries # <<>>
      BY EntriesAre
    <2> QED
      BY <2>1, HeadTailProperties
  <1>12. /\ Append(Tail(Entries), entry) \in Seq(Entry) /\ Len(Append(Tail(Entries), entry)) = count'
         /\ \A i \in 1 .. Capacity - 1 : Append(Tail(Entries), entry)[i] = Entries[i + 1]
         /\ Append(Tail(Entries), entry)[count'] = entry
    BY <1>2, <1>11
  <1>13. \A i \in 1 .. count' : Entries'[i] = Append(Tail(Entries), entry)[i]
    BY <1>5, <1>6, <1>7, <1>10, <1>12
  <1> QED
    BY <1>10, <1>12, <1>13, SeqEqual

LEMMA EmptyRing ==
    ASSUME NEW s, s = [i \in Slot |-> Empty]
    PROVE  s \in [Slot -> Entry \cup {Empty}] /\ 0 \in Slot /\ 0 \in 0 .. Capacity
  BY DEF Slot

LEMMA RingStarts == RingInit => RingInv /\ Entries = <<>>
  BY EmptyRing DEF RingInit, RingInv, Entries

\* A step of the ring is one of the buffer, or leaves it alone.
LEMMA RingSteps ==
    ASSUME RingInv, [RingNext]_ringVars
    PROVE  RingInv' /\ [Recent!Next]_Entries
  <1>1. ASSUME NEW entry \in Entry, Push(entry)
        PROVE  RingInv' /\ Recent!Accepts(entry)
    <2>1. Len(Entries) = count /\ count \in 0 .. Capacity
      BY EntriesAre
    <2>2. CASE count # Capacity
      BY <1>1, <2>1, <2>2, PushAppends DEF Recent!Accepts
    <2>3. CASE count = Capacity
      BY <1>1, <2>1, <2>3, PushReplaces DEF Recent!Accepts
    <2> QED
      BY <2>2, <2>3
  <1>2. ASSUME Clear
        PROVE  RingInv' /\ Entries' = <<>>
    BY <1>2, EmptyRing DEF Clear, RingInv, Entries
  <1>3. CASE UNCHANGED ringVars
    BY <1>3 DEF ringVars, RingInv, Entries
  <1> QED
    BY <1>1, <1>2, <1>3 DEF RingNext, Recent!Next

\* The slots that entries() reads hold entries, wherever the head is.
THEOREM RingIsSound == RingSpec => []RingInv
  <1>1. RingInit => RingInv
    BY RingStarts
  <1>2. RingInv /\ [RingNext]_ringVars => RingInv'
    BY RingSteps
  <1> QED
    BY <1>1, <1>2, PTL DEF RingSpec

\* The ring implements the buffer: however often the head wraps and the ring is
\* cleared, entries() is the newest entries, oldest first, at most Capacity of them.
THEOREM RingImplementsRecentLog == RingSpec => RingIsRecentLog
  <1>1. RingInit => Recent!Init
    BY RingStarts DEF Recent!Init
  <1>2. RingInv /\ [RingNext]_ringVars => [Recent!Next]_Entries
    BY RingSteps
  <1>3. RingSpec => []RingInv
    BY RingIsSound
  <1> QED
    BY <1>1, <1>2, <1>3, PTL DEF RingSpec, RingIsRecentLog, Recent!Spec
=============================================================================
