----------------------------- MODULE TokenCache -----------------------------
(***************************************************************************)
(* std.oauth, ts/src/plugins/oauth/index.ts: the method token, its cache   *)
(* and refresh, token.invalidate, introspect and stop().  Time is a small  *)
(* clock; the authorization server issues a token some time before its     *)
(* reply is read.                                                          *)
(***************************************************************************)
EXTENDS OneCall

CONSTANTS
    Key,        \* the cache keys
    LifeTimes,  \* the values of expires_in, 0 for none or nonsense
    Margin,     \* EXPIRY_MARGIN_MS
    MaxTime     \* bound on the clock

ASSUME TokenCacheAssumption == LifeTimes \subseteq Nat /\ Margin \in Nat /\ MaxTime \in Nat

VARIABLES
    now,        \* the clock
    cache,      \* by key: [at, ends, slow, refresh] or NoEntry; at is expiresAt, ends
                \* when the server has it expire, slow if the reply took longer than
                \* the margin, refresh the refresh token, 0 for none
    tok,        \* the request under way: [pc, key, since, old]
    minted,     \* refresh tokens are numbered as the server hands them out
    burnt,      \* the refresh tokens a refresh with which failed
    served      \* the entry the cache served last, and when

tokVars == <<now, cache, tok, minted, burnt, served>>

NoEntry == [at |-> 0, ends |-> 0, slow |-> FALSE, refresh |-> 0]
NoToken == [pc |-> "idle", key |-> "none", since |-> 0, old |-> 0]

InitTokens ==
    /\ now = 0 /\ cache = [k \in Key |-> NoEntry] /\ tok = NoToken
    /\ minted = 0 /\ burnt = {} /\ served = [entry |-> NoEntry, when |-> 0]

Ticks == now < MaxTime /\ now' = now + 1 /\ UNCHANGED <<cache, tok, minted, burnt, served, life, calls>>

\* (mutant: an entry is good until it expires)
GoodToTheEnd(entry) == entry.at > now
Good(entry) == entry.at - Margin > now

\* token() up to its request: the cache, a refresh, or a grant once the entry is gone.
TokenCalled(k) ==
    /\ tok.pc = "idle" /\ Invoked("oauth")
    /\ LET entry == cache[k]
       IN  \/ /\ Good(entry)
              /\ served' = [entry |-> entry, when |-> now] /\ UNCHANGED <<cache, tok>>
           \/ /\ ~Good(entry) /\ entry.refresh # 0
              /\ tok' = [pc |-> "refresh", key |-> k, since |-> now, old |-> entry.refresh]
              /\ UNCHANGED <<cache, served>>
           \/ /\ ~Good(entry) /\ entry.refresh = 0
              /\ tok' = [pc |-> "grant", key |-> k, since |-> now, old |-> 0]
              /\ cache' = [cache EXCEPT ![k] = NoEntry] /\ UNCHANGED served
    /\ UNCHANGED <<now, minted, burnt, life>>

\* postForm() and parseTokenReply(): issued at some time since the request.  A reply
\* without a refresh token keeps the one a refresh was made with.
Reply(issued, lasts, refresh) ==
    [at |-> now + lasts, ends |-> issued + lasts, slow |-> now - issued > Margin, refresh |-> refresh]

\* After stop() too, if a rollback did not wait for the call.
Replies ==
    /\ tok.pc \in {"refresh", "grant"} /\ tok' = NoToken
    /\ \E issued \in tok.since .. now, lasts \in LifeTimes, rotates \in BOOLEAN :
         /\ minted' = IF rotates THEN minted + 1 ELSE minted
         /\ cache' = IF tok.pc = "refresh" \/ lasts > 0
                     THEN [cache EXCEPT ![tok.key] = Reply(issued, lasts, IF rotates THEN minted + 1 ELSE tok.old)]
                     ELSE cache
    /\ UNCHANGED <<now, burnt, served, life, calls>>

\* A refusal, no answer, or an answer that is no token: a refresh loses its entry.
Cleared(k) == [cache EXCEPT ![k] = NoEntry]

ReplyFails ==
    /\ tok.pc \in {"refresh", "grant"} /\ tok' = NoToken
    /\ cache' = IF tok.pc = "refresh" THEN Cleared(tok.key) ELSE cache
    /\ burnt' = IF tok.pc = "refresh" THEN burnt \cup {tok.old} ELSE burnt
    /\ UNCHANGED <<now, minted, served, life, calls>>

\* token.invalidate
Invalidates(k) ==
    /\ tok.pc = "idle" /\ Invoked("oauth")
    /\ cache' = [cache EXCEPT ![k] = NoEntry]
    /\ UNCHANGED <<now, tok, minted, burnt, served, life>>

\* introspect: asks the server about a token, without a limit of time and without
\* the cache.
Introspects ==
    /\ tok.pc = "idle" /\ Invoked("oauth")
    /\ tok' = [NoToken EXCEPT !.pc = "introspect"]
    /\ UNCHANGED <<now, cache, minted, burnt, served, life>>

IntrospectEnds ==
    /\ tok.pc = "introspect" /\ tok' = NoToken
    /\ UNCHANGED <<now, cache, minted, burnt, served, life, calls>>

OauthStops ==
    /\ life["oauth"] = "active" /\ Becomes("oauth", "stopped")
    /\ cache' = [k \in Key |-> NoEntry]
    /\ UNCHANGED <<now, tok, minted, burnt, served, calls>>

TokenNext ==
    \/ \E k \in Key : TokenCalled(k) \/ Invalidates(k)
    \/ Ticks \/ Replies \/ ReplyFails \/ Introspects \/ IntrospectEnds \/ OauthStops
=============================================================================
