------------------------------- MODULE Media -------------------------------
(* Signed media URLs: the server's MediaKeyStore and its media handlers    *)
(* (kanade-adapter-ws/src/server.rs), the keys a node's connection gets    *)
(* and rotates (run_node_mode), the sessions of clients (run_ui_mode), and *)
(* the node's MediaProxy (kanade-node/src/proxy.rs, main.rs) under the     *)
(* requests of its MPD.                                                    *)
(*                                                                         *)
(* Time is in units of five minutes. What is due within a unit happens     *)
(* before the clock goes on: timers fire, a pushed key is received, and a  *)
(* request of the proxy, whose waits are seconds, ends.  A key is a number *)
(* and a signature is that number: only its holders can make it.           *)
EXTENDS Integers, Sequences, FiniteSets, Functions

CONSTANTS
    Sessions,           \* client connections
    Fetchers,           \* MPD's concurrent requests to the proxy
    Paths,              \* what clients ask to be signed, [route, item]
    Files,              \* file of a library item, [length, art, picture]
    Ranges,             \* range headers that are sent
    RotateEvery,        \* NODE_MEDIA_KEY_BROADCAST_INTERVAL_SECS
    Overlap,            \* NODE_MEDIA_KEY_OVERLAP_SECS
    UrlTtl,             \* MEDIA_URL_TTL_SECS
    CleanupEvery,       \* how often the server drops old keys
    MaxKeyAge,          \* and how old those are
    RefreshCapacity,    \* of the channel of the proxy's requests
    Instances           \* bound: [ticks, conns, faults, fetches, opens, signs, gets]

ASSUME MediaConstants ==
    /\ {RotateEvery, Overlap, UrlTtl, CleanupEvery, MaxKeyAge, RefreshCapacity} \subseteq Nat \ {0}
    /\ Overlap <= RotateEvery /\ RotateEvery + Overlap <= MaxKeyAge /\ Overlap <= UrlTtl

RangeHeaders == [kind : {"none", "bad"}] \cup [kind : {"suffix"}, n : Nat]
                  \cup [kind : {"from"}, first : Nat] \cup [kind : {"to"}, first : Nat, last : Nat]

ASSUME RequestConstants ==
    /\ Ranges \subseteq RangeHeaders
    /\ Files \in [DOMAIN Files -> [length : Nat, art : Nat, picture : Nat]]

VARIABLES
    now, issued,    \* the clock; the number of keys generated
    store,          \* MediaKeyStore.keys: the time each key was made
    cleaned,        \* when cleanup_expired ran last
    conns,          \* the server's node connections, in the order they were made
    doomed,         \* tasks that revoke a rotated key when its overlap is over
    link,           \* the connection of the node's session, 0 without one
    proxy,          \* ProxyState: key and generation
    refresh,        \* messages in the refresh channel
    fetch,          \* MPD's requests to the proxy
    ui,             \* client sessions: their state and key
    urls,           \* URLs that clients hold
    reply,          \* what the last request of a client was answered
    left            \* budget of every bounded kind of event

nodeVars   == <<conns, doomed, link, proxy, refresh, fetch>>
clientVars == <<ui, urls, reply>>
vars       == <<now, issued, store, cleaned, nodeVars, clientVars, left>>

NoKey == 0

Spend(kind) == left[kind] > 0 /\ left' = [left EXCEPT ![kind] = @ - 1]

-----------------------------------------------------------------------------
(* MediaKeyStore *)

Generated(s) == [k \in DOMAIN s \cup {issued + 1} |-> IF k = issued + 1 THEN now ELSE s[k]]
Revoked(s, keys) == Restrict(s, DOMAIN s \ keys)

\* Mutant: the age of a key is compared with the lifetime of a URL.
CleanupAfterTtl ==
    /\ now - cleaned >= CleanupEvery
    /\ cleaned' = now
    /\ store' = Restrict(store, {k \in DOMAIN store : now - store[k] <= UrlTtl})
    /\ UNCHANGED <<now, issued, nodeVars, clientVars, left>>

Cleanup ==
    /\ now - cleaned >= CleanupEvery
    /\ cleaned' = now
    /\ store' = Restrict(store, {k \in DOMAIN store : now - store[k] <= MaxKeyAge})
    /\ UNCHANGED <<now, issued, nodeVars, clientVars, left>>

\* verify_media_auth: the URL's key is there and the URL has not expired.
Accepted(url) == url.key \in DOMAIN store /\ now <= url.exp

-----------------------------------------------------------------------------
(* run_node_mode *)

Registers ==
    /\ link = 0
    /\ Spend("conns")
    /\ issued' = issued + 1
    /\ store' = Generated(store)
    /\ conns' = Append(conns, [open |-> TRUE, active |-> issued + 1, keys |-> {issued + 1},
                               next |-> NoKey, rotated |-> now, acks |-> <<issued + 1>>])
    /\ link' = Len(conns) + 1
    /\ UNCHANGED <<now, cleaned, doomed, proxy, refresh, fetch, clientVars>>

\* The rotation timer: the next key is accepted before the node has it.
Rotate(i) ==
    /\ conns[i].open /\ conns[i].next = NoKey
    /\ now - conns[i].rotated >= RotateEvery
    /\ issued' = issued + 1
    /\ store' = Generated(store)
    /\ conns' = [conns EXCEPT ![i].next = issued + 1]
    /\ UNCHANGED <<now, cleaned, doomed, link, proxy, refresh, fetch, clientVars, left>>

\* Mutant: the old key is revoked as soon as the new one is sent.
RotatedNow(i) ==
    /\ conns[i].open /\ conns[i].next # NoKey
    /\ conns' = [conns EXCEPT ![i].active = conns[i].next, ![i].keys = @ \cup {conns[i].next},
                              ![i].next = NoKey, ![i].rotated = now,
                              ![i].acks = Append(@, conns[i].next)]
    /\ store' = Revoked(store, {conns[i].active})
    /\ UNCHANGED <<now, issued, cleaned, doomed, link, proxy, refresh, fetch, clientVars, left>>

\* Mutant: the rotated key is not remembered for the end of the connection.
RotatedForgotten(i) ==
    /\ conns[i].open /\ conns[i].next # NoKey
    /\ conns' = [conns EXCEPT ![i].active = conns[i].next,
                              ![i].next = NoKey, ![i].rotated = now,
                              ![i].acks = Append(@, conns[i].next)]
    /\ doomed' = doomed \cup {[key |-> conns[i].active, at |-> now + Overlap]}
    /\ UNCHANGED <<now, issued, store, cleaned, link, proxy, refresh, fetch, clientVars, left>>

\* The ack was sent: a task of its own revokes the old key after the overlap.
Rotated(i) ==
    /\ conns[i].open /\ conns[i].next # NoKey
    /\ conns' = [conns EXCEPT ![i].active = conns[i].next, ![i].keys = @ \cup {conns[i].next},
                              ![i].next = NoKey, ![i].rotated = now,
                              ![i].acks = Append(@, conns[i].next)]
    /\ doomed' = doomed \cup {[key |-> conns[i].active, at |-> now + Overlap]}
    /\ UNCHANGED <<now, issued, store, cleaned, link, proxy, refresh, fetch, clientVars, left>>

OverlapEnds ==
    \E d \in doomed :
       /\ d.at <= now
       /\ doomed' = doomed \ {d}
       /\ store' = Revoked(store, {d.key})
       /\ UNCHANGED <<now, issued, cleaned, conns, link, proxy, refresh, fetch, clientVars, left>>

\* The loop of a connection ends: every key it announced is revoked, and one that it
\* could not send. The node's end is gone, or the network fails.
ConnectionEnds(i) ==
    /\ conns[i].open
    /\ IF link = i THEN Spend("faults") ELSE UNCHANGED left
    /\ conns' = [conns EXCEPT ![i].open = FALSE, ![i].next = NoKey, ![i].acks = <<>>]
    /\ store' = Revoked(store, conns[i].keys \cup {conns[i].next})
    /\ UNCHANGED <<now, issued, cleaned, doomed, link, proxy, refresh, fetch, clientVars>>

-----------------------------------------------------------------------------
(* The node's session *)

\* Mutant: only the ack of the handshake is applied.
ReceiveFirstAck ==
    /\ link # 0 /\ conns[link].acks # <<>>
    /\ LET key == Head(conns[link].acks) IN
       proxy' = IF \A k \in conns[link].keys : key <= k
                THEN [key |-> key, gen |-> proxy.gen + 1] ELSE proxy
    /\ conns' = [conns EXCEPT ![link].acks = Tail(@)]
    /\ UNCHANGED <<now, issued, store, cleaned, doomed, link, refresh, fetch, clientVars, left>>

\* The ack of the handshake, or a pushed key: MediaProxy::update.
ReceiveAck ==
    /\ link # 0 /\ conns[link].acks # <<>>
    /\ proxy' = [key |-> Head(conns[link].acks), gen |-> proxy.gen + 1]
    /\ conns' = [conns EXCEPT ![link].acks = Tail(@)]
    /\ UNCHANGED <<now, issued, store, cleaned, doomed, link, refresh, fetch, clientVars, left>>

\* run_session returns: the server is gone, or the network fails.
SessionEnds ==
    /\ link # 0
    /\ IF conns[link].open THEN Spend("faults") ELSE UNCHANGED left
    /\ link' = 0
    /\ UNCHANGED <<now, issued, store, cleaned, conns, doomed, proxy, refresh, fetch, clientVars>>

\* Or, after the handshake, the proxy has asked for new credentials: one message of its
\* channel ends one session.
RefreshRequested ==
    /\ link # 0 /\ proxy.key \in conns[link].keys
    /\ refresh > 0 /\ refresh' = refresh - 1
    /\ link' = 0
    /\ UNCHANGED <<now, issued, store, cleaned, conns, doomed, proxy, fetch, clientVars, left>>

-----------------------------------------------------------------------------
(* MediaProxy: handle_request *)

NoFetch == [pc |-> "idle", key |-> NoKey, exp |-> 0, gen |-> 0, at |-> 0]

Target == [pc |-> "probe", key |-> proxy.key, exp |-> now + UrlTtl, gen |-> proxy.gen, at |-> now]

\* Without credentials yet the answer is 503; otherwise build_redirect_target.
Fetch(f) ==
    /\ fetch[f].pc \in {"idle", "redirected"}
    /\ Spend("fetches")
    /\ fetch' = [fetch EXCEPT ![f] = IF proxy.gen = 0 THEN NoFetch ELSE Target]
    /\ UNCHANGED <<now, issued, store, cleaned, conns, doomed, link, proxy, refresh, clientVars>>

\* Mutant: the refresh channel holds any number of messages.
ProbeUnbounded(f) ==
    /\ fetch[f].pc = "probe"
    /\ IF Accepted(fetch[f])
       THEN fetch' = [fetch EXCEPT ![f].pc = "redirected"] /\ UNCHANGED refresh
       ELSE fetch' = [fetch EXCEPT ![f].pc = "wait"] /\ refresh' = refresh + 1
    /\ UNCHANGED <<now, issued, store, cleaned, conns, doomed, link, proxy, clientVars, left>>

\* is_forbidden: the server is asked with a HEAD request; when it does not answer, the
\* URL counts as good.
Probe(f) ==
    /\ fetch[f].pc = "probe"
    /\ IF Accepted(fetch[f])
       THEN fetch' = [fetch EXCEPT ![f].pc = "redirected"] /\ UNCHANGED refresh
       ELSE \* a full channel drops the message
            /\ refresh' = IF refresh < RefreshCapacity THEN refresh + 1 ELSE refresh
            /\ fetch' = [fetch EXCEPT ![f].pc = "wait"]
    /\ UNCHANGED <<now, issued, store, cleaned, conns, doomed, link, proxy, clientVars, left>>

ProbeUnanswered(f) ==
    /\ fetch[f].pc \in {"probe", "again"}
    /\ Spend("faults")
    /\ fetch' = [fetch EXCEPT ![f].pc = "redirected"]
    /\ UNCHANGED <<now, issued, store, cleaned, conns, doomed, link, proxy, refresh, clientVars>>

\* wait_for_new_generation, for five seconds at most.
Renewed(f) ==
    /\ fetch[f].pc = "wait"
    /\ proxy.gen > fetch[f].gen
    /\ fetch' = [fetch EXCEPT ![f] = [Target EXCEPT !.pc = "again"]]
    /\ UNCHANGED <<now, issued, store, cleaned, conns, doomed, link, proxy, refresh, clientVars, left>>

WaitTimeout(f) ==
    /\ fetch[f].pc = "wait"
    /\ fetch' = [fetch EXCEPT ![f].pc = "again"]
    /\ UNCHANGED <<now, issued, store, cleaned, conns, doomed, link, proxy, refresh, clientVars, left>>

\* The second probe decides between the redirect and 503.
ProbeAgain(f) ==
    /\ fetch[f].pc = "again"
    /\ fetch' = [fetch EXCEPT ![f] = IF Accepted(@) THEN [@ EXCEPT !.pc = "redirected"] ELSE NoFetch]
    /\ UNCHANGED <<now, issued, store, cleaned, conns, doomed, link, proxy, refresh, clientVars, left>>

-----------------------------------------------------------------------------
(* Client sessions: run_ui_mode and the request sign_urls *)

NoSession == [state |-> "none", key |-> NoKey]

\* The key is generated before the first two messages are sent; when one of them fails
\* it is revoked and the session is over.
OpenSession(u) ==
    /\ ui[u].state = "none"
    /\ Spend("opens")
    /\ issued' = issued + 1
    /\ \/ store' = Generated(store) /\ ui' = [ui EXCEPT ![u] = [state |-> "open", key |-> issued + 1]]
       \/ UNCHANGED store /\ ui' = [ui EXCEPT ![u] = [state |-> "over", key |-> issued + 1]]
    /\ UNCHANGED <<now, cleaned, nodeVars, urls, reply>>

\* The end of the loop: local_session_disconnect only.
CloseSession(u) ==
    /\ ui[u].state = "open"
    /\ ui' = [ui EXCEPT ![u].state = "over"]
    /\ UNCHANGED <<now, issued, store, cleaned, nodeVars, urls, reply, left>>

\* is_signable_media_path: a known track or album, or a file that is a known track's.
Signable(path) ==
    /\ path.item \in DOMAIN Files
    /\ path.route \in {"tracks", "art", "hls", "file"}

\* Those of the paths that are signable are signed, if the session's key is still there.
SignUrls(u) ==
    /\ ui[u].state = "open"
    /\ Spend("signs")
    /\ urls' = urls \cup (IF ui[u].key \notin DOMAIN store THEN {}
                          ELSE {[path |-> p, key |-> ui[u].key, exp |-> now + UrlTtl,
                            age |-> now - store[ui[u].key]] : p \in {q \in Paths : Signable(q)}})
    /\ UNCHANGED <<now, issued, store, cleaned, nodeVars, ui, reply>>

-----------------------------------------------------------------------------
(* The handlers *)

NoReply     == [status |-> 0, from |-> 0, to |-> -1, len |-> 0, range |-> [kind |-> "none"]]
Empty(code) == [NoReply EXCEPT !.status = code]

\* Mutant: the suffix of a file ends before its last byte.
ShortSuffix(range, len) ==
    IF range.kind = "bad" \/ len = 0 THEN <<>>
    ELSE IF range.kind = "suffix"
         THEN IF range.n = 0 THEN <<>>
              ELSE <<IF range.n > len THEN 0 ELSE len - range.n - 1, len - 1>>
    ELSE LET last == IF range.kind = "from" \/ range.last >= len THEN len - 1 ELSE range.last
         IN  IF range.first >= len \/ range.first > last THEN <<>> ELSE <<range.first, last>>

\* parse_range: first and last byte, <<>> for its error. A range is "n bytes from the
\* end", "from first on", "first to last", or something else.
ParseRange(range, len) ==
    IF range.kind = "bad" \/ len = 0 THEN <<>>
    ELSE IF range.kind = "suffix"
         THEN IF range.n = 0 THEN <<>> ELSE <<IF range.n > len THEN 0 ELSE len - range.n, len - 1>>
    ELSE LET last == IF range.kind = "from" \/ range.last >= len THEN len - 1 ELSE range.last
         IN  IF range.first >= len \/ range.first > last THEN <<>> ELSE <<range.first, last>>

\* serve_path_with_range.
ServeFile(len, range) ==
    IF range.kind = "none" THEN [status |-> 200, from |-> 0, to |-> len - 1, len |-> len, range |-> range]
    ELSE LET r == ParseRange(range, len) IN
         IF r = <<>> THEN [status |-> 416, from |-> 0, to |-> -1, len |-> len, range |-> range]
         ELSE [status |-> 206, from |-> r[1], to |-> r[2], len |-> len, range |-> range]

\* media_art_handler: the file of the album's artwork, else the picture embedded in
\* its first track; no ranges.
ServeArt(file) ==
    IF file.art # 0 THEN ServeFile(file.art, [kind |-> "none"])
    ELSE IF file.picture # 0 THEN ServeFile(file.picture, [kind |-> "none"])
    ELSE Empty(404)

\* The handlers of the four routes; that of hls, without ranges too, asks the HLS cache.
Answer(url, range) ==
    IF ~Accepted(url) THEN Empty(403)
    ELSE IF url.path.item \notin DOMAIN Files THEN Empty(404)
    ELSE LET file == Files[url.path.item] IN
         CASE url.path.route = "art" -> ServeArt(file)
           [] url.path.route = "hls" -> ServeFile(file.length, [kind |-> "none"])
           [] OTHER                  -> ServeFile(file.length, range)

Get(url, range) ==
    /\ Spend("gets")
    /\ reply' = Answer(url, range)
    /\ UNCHANGED <<now, issued, store, cleaned, nodeVars, ui, urls>>

-----------------------------------------------------------------------------
Due == \/ now - cleaned >= CleanupEvery
       \/ \E d \in doomed : d.at <= now
       \/ \E i \in DOMAIN conns : conns[i].open /\ (\/ conns[i].next # NoKey
                                                    \/ now - conns[i].rotated >= RotateEvery
                                                    \/ link # i)
       \/ link # 0 /\ (conns[link].acks # <<>> \/ ~conns[link].open)
       \/ \E f \in Fetchers : fetch[f].pc \notin {"idle", "redirected"}

Tick ==
    /\ ~Due
    /\ Spend("ticks")
    /\ now' = now + 1
    /\ UNCHANGED <<issued, store, cleaned, nodeVars, clientVars>>

Init ==
    /\ now = 0 /\ issued = 0 /\ cleaned = 0
    /\ store = [k \in {} |-> 0]
    /\ conns = <<>> /\ doomed = {} /\ link = 0 /\ refresh = 0
    /\ proxy = [key |-> NoKey, gen |-> 0]
    /\ fetch = [f \in Fetchers |-> NoFetch]
    /\ ui = [u \in Sessions |-> NoSession]
    /\ urls = {} /\ reply = NoReply
    /\ left \in Instances

Server == \/ Cleanup \/ OverlapEnds
          \/ \E i \in DOMAIN conns : Rotate(i) \/ Rotated(i) \/ ConnectionEnds(i)

Node == Registers \/ ReceiveAck \/ SessionEnds \/ RefreshRequested

Proxy(f) == Probe(f) \/ Renewed(f) \/ WaitTimeout(f) \/ ProbeAgain(f)

Client == \/ \E u \in Sessions : OpenSession(u) \/ CloseSession(u) \/ SignUrls(u)
          \/ \E url \in urls, range \in Ranges : Get(url, range)

Next == \/ Server \/ Node \/ Client \/ Tick
        \/ \E f \in Fetchers : Proxy(f) \/ Fetch(f) \/ ProbeUnanswered(f)

\* Timers fire and time goes on, the node reconnects for ever and reads its socket, and
\* requests of the proxy have deadlines. A loop whose peer is gone ends by its heartbeat.
Fairness ==
    /\ WF_vars(Tick) /\ WF_vars(Cleanup) /\ WF_vars(OverlapEnds)
    /\ WF_vars(\E i \in DOMAIN conns : Rotate(i) \/ Rotated(i) \/ (link # i /\ ConnectionEnds(i)))
    /\ WF_vars(Registers) /\ WF_vars(ReceiveAck)
    /\ WF_vars(link # 0 /\ ~conns[link].open /\ SessionEnds)
    /\ WF_vars(RefreshRequested)
    /\ \A f \in Fetchers : WF_vars(Proxy(f))

Spec     == Init /\ [][Next]_vars
FairSpec == Spec /\ Fairness

-----------------------------------------------------------------------------
(* Properties *)

Keys == 0..issued

\* Every variable keeps its type.
TypeOK ==
    /\ now \in Nat /\ issued \in Nat /\ cleaned \in 0..now
    /\ DOMAIN store \subseteq 1..issued /\ \A k \in DOMAIN store : store[k] \in 0..now
    /\ \A i \in DOMAIN conns : conns[i] \in [open : BOOLEAN, active : Keys, keys : SUBSET Keys,
                                             next : Keys, rotated : 0..now, acks : Seq(Keys)]
    /\ doomed \subseteq [key : Keys, at : Nat]
    /\ link \in 0..Len(conns) /\ refresh \in 0..RefreshCapacity
    /\ proxy \in [key : Keys, gen : Nat]
    /\ fetch \in [Fetchers -> [pc : {"idle", "probe", "wait", "again", "redirected"}, key : Keys,
                               exp : Nat, gen : Nat, at : 0..now]]
    /\ ui \in [Sessions -> [state : {"none", "open", "over"}, key : Keys]]

OpenConns == {i \in DOMAIN conns : conns[i].open}

\* A redirect that MPD was given with a key of a connection that is still open is accepted
\* by the server for the length of the overlap: also when the key was rotated right after.
RedirectsLast ==
    \A f \in Fetchers :
       /\ fetch[f].pc = "redirected" /\ now < fetch[f].at + Overlap
       /\ \E i \in OpenConns : fetch[f].key \in conns[i].keys
       => Accepted(fetch[f])

\* No node key outlives the connection it was announced on, however it ends.
NodeKeysEndWithTheirConnection ==
    DOMAIN store \subseteq {ui[u].key : u \in Sessions}
                              \cup UNION {conns[i].keys \cup {conns[i].next} : i \in OpenConns}

\* While the session of its key is open, a client's URL is accepted until it expires, if
\* the key was younger than what the age limit exceeds the lifetime of a URL by when the
\* URL was signed. (What becomes of the URLs of a closed session is left open: the code
\* keeps accepting them, the docs say that the key is revoked.)
FreshUrlsLast ==
    \A url \in urls, u \in Sessions :
        /\ ui[u] = [state |-> "open", key |-> url.key]
        /\ url.age <= MaxKeyAge - UrlTtl /\ now <= url.exp
        => Accepted(url)

\* Everything that is asked for and that the file has is sent, and nothing else.
RangesAreExact ==
    LET r     == reply.range
        file  == 0..(reply.len - 1)
        asked == CASE r.kind = "from"   -> {b \in file : b >= r.first}
                   [] r.kind = "to"     -> {b \in file : r.first <= b /\ b <= r.last}
                   [] r.kind = "suffix" -> {b \in file : b >= reply.len - r.n}
                   [] r.kind = "none"   -> file
                   [] OTHER             -> {}
    IN  /\ reply.status \in {200, 206} => reply.from..reply.to = asked
        /\ reply.status = 416 => asked = {}

\* When faults and requests have stopped, the proxy comes to hold credentials that the
\* server accepts, whatever refresh requests are left over, and keeps such.
ProxySettles == <>[](proxy.gen > 0 => proxy.key \in DOMAIN store)
=============================================================================
