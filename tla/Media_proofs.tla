---------------------------- MODULE Media_proofs ----------------------------
(***************************************************************************)
(* Theorems about Media, for any intervals that satisfy the assumptions,   *)
(* any sessions, paths, files and ranges, and any number of connections.   *)
(***************************************************************************)
EXTENDS Media, SequenceTheorems, TLAPS

ConnOf(K, T) == [open : BOOLEAN, active : K, keys : SUBSET K, next : K, rotated : T, acks : Seq(K)]

Typed == TypeOK /\ conns \in Seq(ConnOf(Nat, Nat))

-----------------------------------------------------------------------------
(* What the steps do to the connections *)

\* A connection after a step of its own: registered, with a next key, switched to it,
\* ended, and after the node has received its oldest message.
Registered  == [open |-> TRUE, active |-> issued + 1, keys |-> {issued + 1}, next |-> NoKey,
                rotated |-> now, acks |-> <<issued + 1>>]
Offered(c)  == [c EXCEPT !.next = issued + 1]
Switched(c) == [c EXCEPT !.active = c.next, !.keys = @ \cup {c.next}, !.next = NoKey,
                         !.rotated = now, !.acks = Append(@, c.next)]
Ended(c)    == [c EXCEPT !.open = FALSE, !.next = NoKey, !.acks = <<>>]
Received(c) == [c EXCEPT !.acks = Tail(@)]

LEMMA RegistersConns ==
  ASSUME Typed, Registers
  PROVE  /\ conns' \in Seq(ConnOf(Nat, Nat))
         /\ Len(conns') = Len(conns) + 1
         /\ \A j \in DOMAIN conns : conns'[j] = conns[j]
         /\ DOMAIN conns' = DOMAIN conns \cup {Len(conns) + 1}
         /\ conns'[Len(conns) + 1] = Registered
<1>1. now \in Nat /\ issued \in Nat /\ conns \in Seq(ConnOf(Nat, Nat))
  BY DEF Typed, TypeOK
<1>2. Registered \in ConnOf(Nat, Nat)
  BY <1>1 DEF ConnOf, NoKey, Registered
<1>3. conns' = Append(conns, Registered)
  BY DEF Registers, Registered
<1>4. /\ conns' \in Seq(ConnOf(Nat, Nat)) /\ Len(conns') = Len(conns) + 1
      /\ \A j \in 1..Len(conns) : conns'[j] = conns[j]
      /\ conns'[Len(conns) + 1] = Registered
  BY <1>1, <1>2, <1>3
<1>5. DOMAIN conns = 1..Len(conns) /\ DOMAIN conns' = 1..Len(conns')
  BY <1>1, <1>4
<1> QED
  BY <1>1, <1>4, <1>5

LEMMA ChangedConns ==
  ASSUME Typed, NEW i \in DOMAIN conns, NEW c \in ConnOf(Nat, Nat),
         conns' = [conns EXCEPT ![i] = c]
  PROVE  /\ conns' \in Seq(ConnOf(Nat, Nat))
         /\ Len(conns') = Len(conns) /\ DOMAIN conns' = DOMAIN conns
         /\ \A j \in DOMAIN conns : conns'[j] = IF j = i THEN c ELSE conns[j]
<1>1. conns \in Seq(ConnOf(Nat, Nat))
  BY DEF Typed
<1> QED
  BY <1>1

LEMMA RotateConns ==
  ASSUME Typed, NEW i \in DOMAIN conns, Rotate(i)
  PROVE  /\ conns' \in Seq(ConnOf(Nat, Nat))
         /\ Len(conns') = Len(conns) /\ DOMAIN conns' = DOMAIN conns
         /\ \A j \in DOMAIN conns :
               conns'[j] = IF j = i THEN Offered(conns[i]) ELSE conns[j]
<1>1. issued \in Nat /\ conns[i] \in ConnOf(Nat, Nat)
  BY DEF Typed, TypeOK
<1>2. Offered(conns[i]) \in ConnOf(Nat, Nat)
  BY <1>1 DEF ConnOf, Offered
<1>3. conns' = [conns EXCEPT ![i] = Offered(conns[i])]
  BY DEF Rotate, Offered
<1>4. QED
  BY <1>2, <1>3, ChangedConns

LEMMA RotatedConns ==
  ASSUME Typed, NEW i \in DOMAIN conns, Rotated(i)
  PROVE  /\ conns' \in Seq(ConnOf(Nat, Nat))
         /\ Len(conns') = Len(conns) /\ DOMAIN conns' = DOMAIN conns
         /\ \A j \in DOMAIN conns : conns'[j] = IF j = i THEN Switched(conns[i]) ELSE conns[j]
<1>1. now \in Nat /\ conns[i] \in ConnOf(Nat, Nat)
  BY DEF Typed, TypeOK
<1>a. /\ conns[i].next \in Nat /\ NoKey \in Nat /\ conns[i].keys \cup {conns[i].next} \in SUBSET Nat
      /\ conns[i].acks \in Seq(Nat)
  BY <1>1 DEF ConnOf, NoKey
<1>b. Append(conns[i].acks, conns[i].next) \in Seq(Nat)
  BY <1>a
<1>2. Switched(conns[i]) \in ConnOf(Nat, Nat)
  BY <1>1, <1>a, <1>b DEF ConnOf, Switched
<1>3. conns' = [conns EXCEPT ![i] = Switched(conns[i])]
  BY <1>1 DEF Rotated, Switched, Typed, ConnOf
<1>4. QED
  BY <1>2, <1>3, ChangedConns

LEMMA EndedConns ==
  ASSUME Typed, NEW i \in DOMAIN conns, ConnectionEnds(i)
  PROVE  /\ conns' \in Seq(ConnOf(Nat, Nat))
         /\ Len(conns') = Len(conns) /\ DOMAIN conns' = DOMAIN conns
         /\ \A j \in DOMAIN conns :
               conns'[j] = IF j = i THEN Ended(conns[i]) ELSE conns[j]
<1>1. conns[i] \in ConnOf(Nat, Nat)
  BY DEF Typed, TypeOK
<1>a. NoKey \in Nat /\ <<>> \in Seq(Nat)
  BY DEF NoKey
<1>2. Ended(conns[i]) \in ConnOf(Nat, Nat)
  BY <1>1, <1>a DEF ConnOf, Ended
<1>3. conns' = [conns EXCEPT ![i] = Ended(conns[i])]
  BY <1>1 DEF ConnectionEnds, Typed, ConnOf, Ended
<1>4. QED
  BY <1>2, <1>3, ChangedConns

LEMMA ReceivedConns ==
  ASSUME Typed, ReceiveAck
  PROVE  /\ conns' \in Seq(ConnOf(Nat, Nat))
         /\ Len(conns') = Len(conns) /\ DOMAIN conns' = DOMAIN conns
         /\ link \in DOMAIN conns
         /\ \A j \in DOMAIN conns :
               conns'[j] = IF j = link THEN Received(conns[link]) ELSE conns[j]
<1>0. link \in DOMAIN conns
  BY DEF Typed, TypeOK, ReceiveAck
<1>1. conns[link] \in ConnOf(Nat, Nat) /\ conns[link].acks # <<>>
  BY <1>0 DEF Typed, TypeOK, ReceiveAck
<1>a. conns[link].acks \in Seq(Nat)
  BY <1>1 DEF ConnOf
<1>b. Tail(conns[link].acks) \in Seq(Nat)
  BY <1>a, <1>1
<1>2. Received(conns[link]) \in ConnOf(Nat, Nat)
  BY <1>1, <1>b DEF ConnOf, Received
<1>3. conns' = [conns EXCEPT ![link] = Received(conns[link])]
  BY <1>0, <1>1 DEF ReceiveAck, Typed, ConnOf, Received
<1>4. QED
  BY <1>0, <1>2, <1>3, ChangedConns

-----------------------------------------------------------------------------
(* Types. Keys and times only grow, so that what no step touches keeps its *)
(* type; each variable has a lemma of its own.                             *)

LEMMA SeqSubset ==
  ASSUME NEW S, NEW T, S \subseteq T
  PROVE  Seq(S) \subseteq Seq(T)
OBVIOUS

LEMMA TimesGrow ==
  ASSUME Typed, [Next]_vars
  PROVE  /\ now' \in Nat /\ now' \in {now, now + 1}
         /\ issued' \in Nat /\ issued' \in {issued, issued + 1}
         /\ cleaned' \in 0..now'
         /\ Keys \subseteq Keys' /\ 0..now \subseteq 0..now'
<1>1. now' \in {now, now + 1}
  BY DEF Next, vars, Server, Node, Client, Cleanup, OverlapEnds, Rotate, Rotated, ConnectionEnds,
         Registers, ReceiveAck, SessionEnds, RefreshRequested, Fetch, Proxy, Probe, ProbeUnanswered,
         Renewed, WaitTimeout, ProbeAgain, OpenSession, CloseSession, SignUrls, Get, Tick
<1>2. issued' \in {issued, issued + 1}
  BY DEF Next, vars, Server, Node, Client, Cleanup, OverlapEnds, Rotate, Rotated, ConnectionEnds,
         Registers, ReceiveAck, SessionEnds, RefreshRequested, Fetch, Proxy, Probe, ProbeUnanswered,
         Renewed, WaitTimeout, ProbeAgain, OpenSession, CloseSession, SignUrls, Get, Tick
<1>3. cleaned' = cleaned \/ (cleaned' = now /\ now' = now)
  BY DEF Next, vars, Server, Node, Client, Cleanup, OverlapEnds, Rotate, Rotated, ConnectionEnds,
         Registers, ReceiveAck, SessionEnds, RefreshRequested, Fetch, Proxy, Probe, ProbeUnanswered,
         Renewed, WaitTimeout, ProbeAgain, OpenSession, CloseSession, SignUrls, Get, Tick
<1>4. now \in Nat /\ issued \in Nat /\ cleaned \in 0..now
  BY DEF Typed, TypeOK
<1> QED
  BY <1>1, <1>2, <1>3, <1>4 DEF Keys

\* What a step does to the keys that the server accepts.
Forgets  == DOMAIN store' \subseteq DOMAIN store /\ \A k \in DOMAIN store' : store'[k] = store[k]
Accepts1 == /\ issued' = issued + 1 /\ now' = now
            /\ DOMAIN store' = DOMAIN store \cup {issued + 1} /\ store'[issued + 1] = now
            /\ \A k \in DOMAIN store : k # issued + 1 => store'[k] = store[k]

LEMMA StoreSteps ==
  ASSUME Typed, [Next]_vars
  PROVE  Forgets \/ Accepts1
<1>1. ASSUME NEW S, store' = Restrict(store, S), S \subseteq DOMAIN store
      PROVE  Forgets
  BY <1>1 DEF Restrict, Forgets
<1>2. ASSUME store' = Generated(store), issued' = issued + 1, now' = now
      PROVE  Accepts1
  BY <1>2 DEF Generated, Accepts1
<1>3. store' = store => Forgets
  BY DEF Forgets
<1>4. CASE Cleanup
  <2> DEFINE S == {k \in DOMAIN store : now - store[k] <= MaxKeyAge}
  <2>1. store' = Restrict(store, S) /\ S \subseteq DOMAIN store
    BY <1>4 DEF Cleanup
  <2> QED
    BY <2>1, <1>1
<1>5. CASE OverlapEnds
  <2>1. PICK d \in doomed : store' = Revoked(store, {d.key})
    BY <1>5 DEF OverlapEnds
  <2>2. store' = Restrict(store, DOMAIN store \ {d.key})
    BY <2>1 DEF Revoked
  <2> QED
    BY <2>2, <1>1
<1>6. ASSUME NEW i \in DOMAIN conns, ConnectionEnds(i)
      PROVE  Forgets
  <2>1. store' = Restrict(store, DOMAIN store \ (conns[i].keys \cup {conns[i].next}))
    BY <1>6 DEF ConnectionEnds, Revoked
  <2> QED
    BY <2>1, <1>1
<1>7. \/ Cleanup \/ OverlapEnds \/ \E i \in DOMAIN conns : ConnectionEnds(i)
      \/ store' = Generated(store) /\ issued' = issued + 1 /\ now' = now
      \/ store' = store
  BY DEF Next, vars, Server, Node, Client, Rotate, Rotated,
         Registers, ReceiveAck, SessionEnds, RefreshRequested, Fetch, Proxy, Probe, ProbeUnanswered,
         Renewed, WaitTimeout, ProbeAgain, OpenSession, CloseSession, SignUrls, Get, Tick
<1> QED
  BY <1>2, <1>3, <1>4, <1>5, <1>6, <1>7

LEMMA StoreTyped ==
  ASSUME Typed, [Next]_vars
  PROVE  /\ DOMAIN store' \subseteq 1..issued'
         /\ \A k \in DOMAIN store' : store'[k] \in 0..now'
<1>1. /\ DOMAIN store \subseteq 1..issued /\ \A k \in DOMAIN store : store[k] \in 0..now
      /\ issued \in Nat /\ now \in Nat
  BY DEF Typed, TypeOK
<1>2. /\ issued' \in {issued, issued + 1} /\ now' \in {now, now + 1}
  BY TimesGrow
<1>3. CASE Forgets
  BY <1>1, <1>2, <1>3 DEF Forgets
<1>4. CASE Accepts1
  BY <1>1, <1>4 DEF Accepts1
<1> QED
  BY <1>3, <1>4, StoreSteps

\* The steps that change a connection.
ConnSteps == \/ Registers \/ ReceiveAck
             \/ \E i \in DOMAIN conns : Rotate(i) \/ Rotated(i) \/ ConnectionEnds(i)

LEMMA ConnsChangeOnlyThen ==
  ASSUME [Next]_vars
  PROVE  conns' = conns \/ ConnSteps
BY DEF Next, vars, Server, Node, Client, Cleanup, OverlapEnds, nodeVars, ConnSteps,
       SessionEnds, RefreshRequested, Fetch, Proxy, Probe, ProbeUnanswered,
       Renewed, WaitTimeout, ProbeAgain, OpenSession, CloseSession, SignUrls, Get, Tick

LEMMA ConnsTyped ==
  ASSUME Typed, [Next]_vars
  PROVE  /\ conns' \in Seq(ConnOf(Nat, Nat)) /\ Len(conns) <= Len(conns')
         /\ \A i \in DOMAIN conns' : conns'[i] \in ConnOf(Keys', 0..now')
<1>0. /\ conns \in Seq(ConnOf(Nat, Nat)) /\ Len(conns) \in Nat
      /\ \A i \in DOMAIN conns : conns[i] \in ConnOf(Keys, 0..now)
      /\ issued \in Nat /\ now \in Nat
  BY DEF Typed, TypeOK, ConnOf
<1>1. Keys \subseteq Keys' /\ 0..now \subseteq 0..now' /\ Seq(Keys) \subseteq Seq(Keys')
  BY TimesGrow, SeqSubset
<1>2. ConnOf(Keys, 0..now) \subseteq ConnOf(Keys', 0..now')
  BY <1>1 DEF ConnOf
<1>3. CASE conns' = conns
  BY <1>0, <1>2, <1>3
<1>4. CASE Registers
  <2>1. issued' = issued + 1 /\ now' = now
    BY <1>4 DEF Registers
  <2>2. issued + 1 \in Keys' /\ NoKey \in Keys' /\ now \in 0..now'
    BY <2>1, <1>0 DEF Keys, NoKey
  <2>3. <<issued + 1>> \in Seq(Keys')
    BY <2>2
  <2>4. Registered \in ConnOf(Keys', 0..now')
    BY <2>2, <2>3 DEF ConnOf, Registered
  <2> QED
    BY <2>4, <1>4, <1>0, <1>2, RegistersConns
<1>5. ASSUME NEW i \in DOMAIN conns, Rotate(i)
      PROVE  /\ conns' \in Seq(ConnOf(Nat, Nat)) /\ Len(conns) <= Len(conns')
             /\ \A j \in DOMAIN conns' : conns'[j] \in ConnOf(Keys', 0..now')
  <2>1. conns[i] \in ConnOf(Keys', 0..now') /\ issued + 1 \in Keys'
    BY <1>0, <1>2, <1>5 DEF Rotate, Keys
  <2>2. Offered(conns[i]) \in ConnOf(Keys', 0..now')
    BY <2>1 DEF ConnOf, Offered
  <2> QED
    BY <2>2, <1>5, <1>0, <1>2, RotateConns
<1>6. ASSUME NEW i \in DOMAIN conns, Rotated(i)
      PROVE  /\ conns' \in Seq(ConnOf(Nat, Nat)) /\ Len(conns) <= Len(conns')
             /\ \A j \in DOMAIN conns' : conns'[j] \in ConnOf(Keys', 0..now')
  <2>1. conns[i] \in ConnOf(Keys', 0..now') /\ NoKey \in Keys' /\ now \in 0..now'
    BY <1>0, <1>2, <1>6 DEF Rotated, Keys, NoKey
  <2>2. /\ conns[i].keys \cup {conns[i].next} \in SUBSET Keys' /\ conns[i].next \in Keys'
        /\ conns[i].acks \in Seq(Keys')
    BY <2>1 DEF ConnOf
  <2>3. Append(conns[i].acks, conns[i].next) \in Seq(Keys')
    BY <2>2
  <2>4. Switched(conns[i]) \in ConnOf(Keys', 0..now')
    BY <2>1, <2>2, <2>3 DEF ConnOf, Switched
  <2> QED
    BY <2>4, <1>6, <1>0, <1>2, RotatedConns
<1>7. ASSUME NEW i \in DOMAIN conns, ConnectionEnds(i)
      PROVE  /\ conns' \in Seq(ConnOf(Nat, Nat)) /\ Len(conns) <= Len(conns')
             /\ \A j \in DOMAIN conns' : conns'[j] \in ConnOf(Keys', 0..now')
  <2>1. conns[i] \in ConnOf(Keys', 0..now') /\ NoKey \in Keys' /\ <<>> \in Seq(Keys')
    BY <1>0, <1>2, <1>7 DEF ConnectionEnds, Keys, NoKey
  <2>2. Ended(conns[i]) \in ConnOf(Keys', 0..now')
    BY <2>1 DEF ConnOf, Ended
  <2> QED
    BY <2>2, <1>7, <1>0, <1>2, EndedConns
<1>8. CASE ReceiveAck
  <2>1. link \in DOMAIN conns /\ conns[link].acks # <<>>
    BY <1>8, ReceivedConns DEF ReceiveAck
  <2>2. conns[link] \in ConnOf(Keys', 0..now')
    BY <2>1, <1>0, <1>2
  <2>3. conns[link].acks \in Seq(Keys')
    BY <2>2 DEF ConnOf
  <2>4. Tail(conns[link].acks) \in Seq(Keys')
    BY <2>1, <2>3
  <2>5. Received(conns[link]) \in ConnOf(Keys', 0..now')
    BY <2>2, <2>4 DEF ConnOf, Received
  <2> QED
    BY <2>1, <2>5, <1>8, <1>0, <1>2, ReceivedConns
<1> QED
  BY <1>3, <1>4, <1>5, <1>6, <1>7, <1>8, ConnsChangeOnlyThen DEF ConnSteps

LEMMA DoomedTyped ==
  ASSUME Typed, [Next]_vars
  PROVE  doomed' \subseteq [key : Keys', at : Nat]
<1>1. /\ doomed \subseteq [key : Keys, at : Nat] /\ now \in Nat /\ Overlap \in Nat
      /\ \A i \in DOMAIN conns : conns[i].active \in Keys
  BY MediaConstants DEF Typed, TypeOK
<1>2. Keys \subseteq Keys'
  BY TimesGrow
<1>3. [key : Keys, at : Nat] \subseteq [key : Keys', at : Nat]
  BY <1>2
<1>4. \/ doomed' \subseteq doomed
      \/ \E i \in DOMAIN conns : doomed' = doomed \cup {[key |-> conns[i].active, at |-> now + Overlap]}
  BY DEF Next, vars, Server, Node, Client, Cleanup, OverlapEnds, nodeVars, Rotate, Rotated,
         ConnectionEnds, Registers, ReceiveAck, SessionEnds, RefreshRequested, Fetch, Proxy, Probe,
         ProbeUnanswered, Renewed, WaitTimeout, ProbeAgain, OpenSession, CloseSession, SignUrls, Get, Tick
<1>5. CASE doomed' \subseteq doomed
  BY <1>1, <1>3, <1>5
<1>6. ASSUME NEW i \in DOMAIN conns,
             doomed' = doomed \cup {[key |-> conns[i].active, at |-> now + Overlap]}
      PROVE  doomed' \subseteq [key : Keys', at : Nat]
  <2>1. [key |-> conns[i].active, at |-> now + Overlap] \in [key : Keys, at : Nat]
    BY <1>1
  <2> QED
    BY <2>1, <1>1, <1>3, <1>6
<1> QED
  BY <1>4, <1>5, <1>6

LEMMA LinkTyped ==
  ASSUME Typed, [Next]_vars
  PROVE  link' \in 0..Len(conns')
<1>1. link \in 0..Len(conns) /\ Len(conns) \in Nat
  BY DEF Typed, TypeOK
<1>2. Len(conns) <= Len(conns') /\ Len(conns') \in Nat
  BY ConnsTyped
<1>3. link' \in {link, 0} \/ Registers
  BY DEF Next, vars, Server, Node, Client, Cleanup, OverlapEnds, nodeVars, Rotate, Rotated,
         ConnectionEnds, ReceiveAck, SessionEnds, RefreshRequested, Fetch, Proxy, Probe,
         ProbeUnanswered, Renewed, WaitTimeout, ProbeAgain, OpenSession, CloseSession, SignUrls, Get, Tick
<1>4. CASE Registers
  <2>1. link' = Len(conns) + 1 /\ Len(conns') = Len(conns) + 1
    BY <1>4, RegistersConns DEF Registers
  <2> QED
    BY <2>1, <1>1
<1> QED
  BY <1>1, <1>2, <1>3, <1>4

LEMMA ProxyTyped ==
  ASSUME Typed, [Next]_vars
  PROVE  /\ proxy' \in [key : Keys', gen : Nat] /\ refresh' \in 0..RefreshCapacity
<1>1. proxy \in [key : Keys, gen : Nat] /\ refresh \in 0..RefreshCapacity /\ RefreshCapacity \in Nat
  BY MediaConstants DEF Typed, TypeOK
<1>2. Keys \subseteq Keys'
  BY TimesGrow
<1>3. proxy' = proxy \/ ReceiveAck
  BY DEF Next, vars, Server, Node, Client, Cleanup, OverlapEnds, nodeVars, Rotate, Rotated,
         ConnectionEnds, Registers, ReceiveAck, SessionEnds, RefreshRequested, Fetch, Proxy, Probe,
         ProbeUnanswered, Renewed, WaitTimeout, ProbeAgain, OpenSession, CloseSession, SignUrls, Get, Tick
<1>4. refresh' \in 0..RefreshCapacity
  <2>1. CASE RefreshRequested
    BY <1>1, <2>1 DEF RefreshRequested
  <2>2. ASSUME NEW f \in Fetchers, Probe(f)
        PROVE  refresh' \in 0..RefreshCapacity
    BY <1>1, <2>2 DEF Probe
  <2>3. refresh' = refresh \/ RefreshRequested \/ \E f \in Fetchers : Probe(f)
    BY DEF Next, vars, Server, Node, Client, Cleanup, OverlapEnds, nodeVars, Rotate, Rotated,
           ConnectionEnds, Registers, ReceiveAck, SessionEnds, Fetch, Proxy,
           ProbeUnanswered, Renewed, WaitTimeout, ProbeAgain, OpenSession, CloseSession, SignUrls, Get, Tick
  <2> QED
    BY <1>1, <2>1, <2>2, <2>3
<1>5. CASE ReceiveAck
  <2>1. link \in DOMAIN conns /\ conns[link].acks # <<>>
    BY <1>5, ReceivedConns DEF ReceiveAck
  <2>2. conns[link].acks \in Seq(Keys)
    BY <2>1 DEF Typed, TypeOK
  <2>3. Head(conns[link].acks) \in Keys'
    BY <2>1, <2>2, <1>2
  <2>4. proxy' = [key |-> Head(conns[link].acks), gen |-> proxy.gen + 1]
    BY <1>5 DEF ReceiveAck
  <2> QED
    BY <2>3, <2>4, <1>1, <1>4
<1> QED
  BY <1>1, <1>2, <1>3, <1>4, <1>5

FetchOf(K, T) == [pc : {"idle", "probe", "wait", "again", "redirected"}, key : K,
                  exp : Nat, gen : Nat, at : T]

\* A step leaves a fetch as it is, ends it, builds a new target for it, or changes only
\* where it is.
LEMMA FetchSteps ==
  ASSUME Typed, [Next]_vars, NEW f \in Fetchers
  PROVE  /\ fetch' \in [Fetchers -> FetchOf(Keys', 0..now')]
         /\ \/ fetch'[f] = fetch[f] \/ fetch'[f] = NoFetch
            \/ /\ fetch'[f].key = proxy.key /\ fetch'[f].at = now /\ fetch'[f].exp = now + UrlTtl
               /\ proxy' = proxy /\ conns' = conns /\ doomed' = doomed /\ now' = now
            \/ /\ fetch[f].pc # "idle"
               /\ fetch'[f].key = fetch[f].key /\ fetch'[f].at = fetch[f].at
               /\ fetch'[f].exp = fetch[f].exp
<1> DEFINE K == Keys'
           T == 0..now'
           Same == fetch'[f] = fetch[f] \/ fetch'[f] = NoFetch
           Built == /\ fetch'[f].key = proxy.key /\ fetch'[f].at = now /\ fetch'[f].exp = now + UrlTtl
                    /\ proxy' = proxy /\ conns' = conns /\ doomed' = doomed /\ now' = now
           Moved == /\ fetch[f].pc # "idle"
                    /\ fetch'[f].key = fetch[f].key /\ fetch'[f].at = fetch[f].at
                    /\ fetch'[f].exp = fetch[f].exp
<1>1. fetch \in [Fetchers -> FetchOf(Keys, 0..now)]
  BY DEF Typed, TypeOK, FetchOf
<1>2. Keys \subseteq K /\ 0..now \subseteq T
  BY TimesGrow
<1>3. fetch \in [Fetchers -> FetchOf(K, T)]
  BY <1>1, <1>2 DEF FetchOf
<1>4. Target \in FetchOf(K, T) /\ NoFetch \in FetchOf(K, T)
  <2>1. proxy.key \in K /\ proxy.gen \in Nat /\ now \in T /\ now + UrlTtl \in Nat /\ NoKey \in K /\ 0 \in T
    <3>1. proxy.key \in Keys /\ proxy.gen \in Nat /\ now \in Nat /\ issued \in Nat
      BY DEF Typed, TypeOK
    <3>2. UrlTtl \in Nat
      BY MediaConstants
    <3>3. NoKey \in Keys /\ now \in 0..now /\ 0 \in 0..now /\ now + UrlTtl \in Nat
      BY <3>1, <3>2 DEF Keys, NoKey
    <3> QED
      BY <1>2, <3>1, <3>3
  <2> QED
    BY <2>1 DEF Target, NoFetch, FetchOf
<1>5. [Target EXCEPT !.pc = "again"] \in FetchOf(K, T)
  BY <1>4 DEF FetchOf
<1>6. ASSUME NEW g \in Fetchers, NEW p \in {"redirected", "wait", "again"}, fetch[g].pc # "idle",
             fetch' = [fetch EXCEPT ![g].pc = p]
      PROVE  fetch' \in [Fetchers -> FetchOf(K, T)] /\ (Same \/ Moved)
  <2>1. fetch[g] \in FetchOf(K, T)
    BY <1>3
  <2>2. [fetch[g] EXCEPT !.pc = p] \in FetchOf(K, T)
    BY <2>1 DEF FetchOf
  <2>3. fetch' \in [Fetchers -> FetchOf(K, T)]
    BY <1>3, <1>6, <2>2
  <2>4. fetch'[f] = fetch[f] \/ (g = f /\ fetch'[f] = [fetch[g] EXCEPT !.pc = p])
    BY <1>3, <1>6
  <2>5. CASE g = f /\ fetch'[f] = [fetch[g] EXCEPT !.pc = p]
    <3>1. [fetch[g] EXCEPT !.pc = p].key = fetch[g].key /\ [fetch[g] EXCEPT !.pc = p].at = fetch[g].at
          /\ [fetch[g] EXCEPT !.pc = p].exp = fetch[g].exp
      BY <2>1 DEF FetchOf
    <3> QED
      BY <3>1, <2>3, <2>5, <1>6
  <2> QED
    BY <2>3, <2>4, <2>5
<1>7. ASSUME NEW g \in Fetchers, NEW c \in FetchOf(K, T), fetch' = [fetch EXCEPT ![g] = c]
      PROVE  fetch' \in [Fetchers -> FetchOf(K, T)] /\ fetch'[f] \in {fetch[f], c}
  BY <1>3, <1>7
<1>8. ASSUME NEW g \in Fetchers, Fetch(g)
      PROVE  fetch' \in [Fetchers -> FetchOf(K, T)] /\ (Same \/ Built)
  <2>1. fetch' = [fetch EXCEPT ![g] = NoFetch] \/ fetch' = [fetch EXCEPT ![g] = Target]
    BY <1>8 DEF Fetch
  <2>2. proxy' = proxy /\ conns' = conns /\ doomed' = doomed /\ now' = now
    BY <1>8 DEF Fetch
  <2> QED
    BY <2>1, <2>2, <1>4, <1>7 DEF Target
<1>9. ASSUME NEW g \in Fetchers, Renewed(g)
      PROVE  fetch' \in [Fetchers -> FetchOf(K, T)] /\ (Same \/ Built)
  <2>1. fetch' = [fetch EXCEPT ![g] = [Target EXCEPT !.pc = "again"]]
    BY <1>9 DEF Renewed
  <2>2. proxy' = proxy /\ conns' = conns /\ doomed' = doomed /\ now' = now
    BY <1>9 DEF Renewed
  <2>3. /\ [Target EXCEPT !.pc = "again"].key = proxy.key /\ [Target EXCEPT !.pc = "again"].at = now
        /\ [Target EXCEPT !.pc = "again"].exp = now + UrlTtl
    BY DEF Target
  <2> QED
    BY <2>1, <2>2, <2>3, <1>5, <1>7
<1>10. ASSUME NEW g \in Fetchers, Probe(g)
       PROVE  fetch' \in [Fetchers -> FetchOf(K, T)] /\ (Same \/ Moved)
  <2>1. /\ fetch[g].pc # "idle"
        /\ fetch' = [fetch EXCEPT ![g].pc = "redirected"] \/ fetch' = [fetch EXCEPT ![g].pc = "wait"]
    BY <1>10 DEF Probe
  <2> QED
    BY <2>1, <1>6
<1>11. ASSUME NEW g \in Fetchers, ProbeUnanswered(g) \/ WaitTimeout(g)
       PROVE  fetch' \in [Fetchers -> FetchOf(K, T)] /\ (Same \/ Moved)
  <2>1. /\ fetch[g].pc # "idle"
        /\ fetch' = [fetch EXCEPT ![g].pc = "redirected"] \/ fetch' = [fetch EXCEPT ![g].pc = "again"]
    BY <1>11 DEF ProbeUnanswered, WaitTimeout
  <2> QED
    BY <2>1, <1>6
<1>12. ASSUME NEW g \in Fetchers, ProbeAgain(g)
       PROVE  fetch' \in [Fetchers -> FetchOf(K, T)] /\ (Same \/ Moved)
  <2>1. CASE Accepted(fetch[g])
    <3>1. fetch[g].pc # "idle" /\ fetch' = [fetch EXCEPT ![g].pc = "redirected"]
      BY <1>12, <2>1 DEF ProbeAgain
    <3> QED
      BY <3>1, <1>6
  <2>2. CASE ~Accepted(fetch[g])
    <3>1. fetch' = [fetch EXCEPT ![g] = NoFetch]
      BY <1>12, <2>2 DEF ProbeAgain
    <3> QED
      BY <3>1, <1>4, <1>7
  <2> QED
    BY <2>1, <2>2
<1>13. CASE fetch' = fetch
  BY <1>3, <1>13
<1>14. \/ fetch' = fetch
       \/ \E g \in Fetchers : \/ Fetch(g) \/ Renewed(g) \/ Probe(g) \/ ProbeUnanswered(g)
                              \/ WaitTimeout(g) \/ ProbeAgain(g)
  BY DEF Next, vars, Server, Node, Client, Cleanup, OverlapEnds, nodeVars, Rotate, Rotated,
         ConnectionEnds, Registers, ReceiveAck, SessionEnds, RefreshRequested, Proxy,
         OpenSession, CloseSession, SignUrls, Get, Tick
<1> QED
  BY <1>8, <1>9, <1>10, <1>11, <1>12, <1>13, <1>14

UiOf(K) == [state : {"none", "open", "over"}, key : K]

\* A session is opened with a new key, and closing it keeps the key.
LEMMA UiSteps ==
  ASSUME Typed, [Next]_vars, NEW u \in Sessions
  PROVE  /\ ui' \in [Sessions -> UiOf(Keys')]
         /\ \/ ui'[u].key = ui[u].key /\ (ui[u].state # "none" => ui'[u].state # "none")
                                      /\ (ui'[u].state = "none" => ui[u].state = "none")
            \/ /\ ui[u].state = "none" /\ ui'[u].state # "none" /\ ui'[u].key = issued + 1
               /\ issued' = issued + 1 /\ conns' = conns /\ doomed' = doomed
               /\ urls' = urls
<1> DEFINE K == Keys'
           Same == /\ ui'[u].key = ui[u].key /\ (ui[u].state # "none" => ui'[u].state # "none")
                   /\ (ui'[u].state = "none" => ui[u].state = "none")
           Opened == /\ ui[u].state = "none" /\ ui'[u].state # "none" /\ ui'[u].key = issued + 1
                     /\ issued' = issued + 1 /\ conns' = conns /\ doomed' = doomed
                     /\ urls' = urls
<1>1. ui \in [Sessions -> UiOf(Keys)] /\ Keys \subseteq K /\ issued \in Nat
  BY TimesGrow DEF Typed, TypeOK, UiOf
<1>2. ui \in [Sessions -> UiOf(K)]
  BY <1>1 DEF UiOf
<1>3. ASSUME NEW v \in Sessions, OpenSession(v)
      PROVE  ui' \in [Sessions -> UiOf(K)] /\ (Same \/ Opened)
  <2>1. PICK s \in {"open", "over"} : ui' = [ui EXCEPT ![v] = [state |-> s, key |-> issued + 1]]
    BY <1>3 DEF OpenSession
  <2>2. /\ ui[v].state = "none" /\ issued' = issued + 1 /\ conns' = conns /\ doomed' = doomed
        /\ urls' = urls
    BY <1>3 DEF OpenSession, nodeVars
  <2>3. issued + 1 \in K
    BY <1>1, <2>2 DEF Keys
  <2>4. [state |-> s, key |-> issued + 1] \in UiOf(K)
    BY <2>3 DEF UiOf
  <2> QED
    BY <2>1, <2>2, <2>4, <1>2
<1>4. ASSUME NEW v \in Sessions, CloseSession(v)
      PROVE  ui' \in [Sessions -> UiOf(K)] /\ (Same \/ Opened)
  <2>1. ui' = [ui EXCEPT ![v].state = "over"] /\ ui[v].state = "open"
    BY <1>4 DEF CloseSession
  <2>2. ui[v] \in UiOf(K)
    BY <1>2
  <2>3. [ui[v] EXCEPT !.state = "over"] \in UiOf(K)
    BY <2>2 DEF UiOf
  <2>4. ui' \in [Sessions -> UiOf(K)]
    BY <2>1, <2>3, <1>2
  <2> QED
    BY <2>1, <2>2, <2>4, <1>2 DEF UiOf
<1>5. CASE ui' = ui
  BY <1>2, <1>5
<1>6. ui' = ui \/ \E v \in Sessions : OpenSession(v) \/ CloseSession(v)
  BY DEF Next, vars, Server, Node, Client, Cleanup, OverlapEnds, clientVars, Rotate, Rotated,
         ConnectionEnds, Registers, ReceiveAck, SessionEnds, RefreshRequested, Fetch, Proxy, Probe,
         ProbeUnanswered, Renewed, WaitTimeout, ProbeAgain, SignUrls, Get, Tick
<1> QED
  BY <1>3, <1>4, <1>5, <1>6

LEMMA InitTyped == Init => Typed
<1> SUFFICES ASSUME Init PROVE Typed
  OBVIOUS
<1>1. /\ now \in Nat /\ issued \in Nat /\ cleaned \in 0..now /\ link \in 0..Len(conns)
      /\ DOMAIN store \subseteq 1..issued /\ \A k \in DOMAIN store : store[k] \in 0..now
  BY DEF Init
<1>2. /\ conns \in Seq(ConnOf(Nat, Nat)) /\ DOMAIN conns = {}
      /\ doomed \subseteq [key : Keys, at : Nat]
  BY DEF Init
<1>3. NoKey \in Keys /\ 0 \in 0..now
  BY DEF Init, Keys, NoKey
<1>4. fetch \in [Fetchers -> FetchOf(Keys, 0..now)] /\ ui \in [Sessions -> UiOf(Keys)]
  BY <1>3 DEF Init, FetchOf, UiOf, NoFetch, NoSession
<1>5. proxy \in [key : Keys, gen : Nat] /\ refresh \in 0..RefreshCapacity
  BY <1>3, MediaConstants DEF Init
<1> QED
  BY <1>1, <1>2, <1>4, <1>5 DEF Typed, TypeOK, FetchOf, UiOf

LEMMA NextTyped ==
  ASSUME Typed, [Next]_vars
  PROVE  Typed'
<1>1. /\ now' \in Nat /\ issued' \in Nat /\ cleaned' \in 0..now'
  BY TimesGrow
<1>2. /\ conns' \in Seq(ConnOf(Nat, Nat))
      /\ \A i \in DOMAIN conns' : conns'[i] \in ConnOf(Keys', 0..now')
  BY ConnsTyped
<1>3. fetch' \in [Fetchers -> FetchOf(Keys', 0..now')]
  <2>1. CASE Fetchers = {}
    <3>1. fetch' \in [Fetchers -> FetchOf(Keys', 0..now')] \/ fetch' = fetch
      BY <2>1 DEF Next, vars, Server, Node, Client, Cleanup, OverlapEnds, nodeVars, Rotate, Rotated,
         ConnectionEnds, Registers, ReceiveAck, SessionEnds, RefreshRequested,
         OpenSession, CloseSession, SignUrls, Get, Tick
    <3>2. fetch \in [Fetchers -> FetchOf(Keys', 0..now')]
      BY <2>1 DEF Typed, TypeOK
    <3> QED
      BY <3>1, <3>2
  <2>2. CASE Fetchers # {}
    BY <2>2, FetchSteps
  <2> QED
    BY <2>1, <2>2
<1>4. ui' \in [Sessions -> UiOf(Keys')]
  <2>1. CASE Sessions = {}
    <3>1. ui' = ui
      BY <2>1 DEF Next, vars, Server, Node, Client, Cleanup, OverlapEnds, clientVars, Rotate, Rotated,
         ConnectionEnds, Registers, ReceiveAck, SessionEnds, RefreshRequested, Fetch, Proxy, Probe,
         ProbeUnanswered, Renewed, WaitTimeout, ProbeAgain, SignUrls, Get, Tick
    <3>2. ui \in [Sessions -> UiOf(Keys')]
      BY <2>1 DEF Typed, TypeOK
    <3> QED
      BY <3>1, <3>2
  <2>2. CASE Sessions # {}
    BY <2>2, UiSteps
  <2> QED
    BY <2>1, <2>2
<1> QED
  BY <1>1, <1>2, <1>3, <1>4, StoreTyped, DoomedTyped, LinkTyped, ProxyTyped
     DEF Typed, TypeOK, ConnOf, FetchOf, UiOf

\* Every variable of the key store, the connections, the proxy and the clients keeps its
\* type, however many connections there are and whatever the intervals.
THEOREM TypesHold == Spec => []TypeOK
<1>1. Init => Typed
  BY InitTyped
<1>2. Typed /\ [Next]_vars => Typed'
  BY NextTyped
<1>3. Typed => TypeOK
  BY DEF Typed
<1> QED
  BY <1>1, <1>2, <1>3, PTL DEF Spec

-----------------------------------------------------------------------------
(* Whose a key is. Every key is generated for one connection or one client *)
(* session and stays theirs. A connection holds the keys it announced, the *)
(* active one among them, and the next one; a key that is going to be      *)
(* revoked is neither active nor next.                                     *)

ConnKeys == \A i \in DOMAIN conns :
               /\ conns[i].active \in conns[i].keys
               /\ NoKey \notin conns[i].keys /\ conns[i].next \notin conns[i].keys
               /\ ~conns[i].open => conns[i].next = NoKey /\ conns[i].acks = <<>>

Disjoint == \A i, j \in DOMAIN conns : i # j =>
               /\ conns[i].keys \cap conns[j].keys = {}
               /\ conns[i].next \notin conns[j].keys
               /\ conns[i].next = conns[j].next => conns[i].next = NoKey

DoomedOnce == /\ \A d \in doomed : \A i \in DOMAIN conns :
                    d.key # conns[i].active /\ d.key # conns[i].next
              /\ \A d \in doomed : d.key # NoKey
              /\ \A d, e \in doomed : d.key = e.key => d = e

Owned == ConnKeys /\ Disjoint /\ DoomedOnce

LEMMA DoomedSteps ==
  ASSUME [Next]_vars
  PROVE  \/ doomed' = doomed
         \/ /\ OverlapEnds /\ doomed' \subseteq doomed /\ conns' = conns
            /\ \E d \in doomed : d.at <= now /\ doomed' = doomed \ {d}
         \/ \E i \in DOMAIN conns : Rotated(i)
BY DEF Next, vars, Server, Node, Client, Cleanup, OverlapEnds, nodeVars, Rotate,
       ConnectionEnds, Registers, ReceiveAck, SessionEnds, RefreshRequested, Fetch, Proxy, Probe,
       ProbeUnanswered, Renewed, WaitTimeout, ProbeAgain, OpenSession, CloseSession, SignUrls, Get, Tick

LEMMA ConnFields ==
  ASSUME NEW c \in ConnOf(Nat, Nat)
  PROVE  /\ Offered(c).next = issued + 1 /\ Offered(c).keys = c.keys /\ Offered(c).active = c.active
         /\ Offered(c).open = c.open /\ Offered(c).acks = c.acks /\ Offered(c).rotated = c.rotated
         /\ Switched(c).next = NoKey /\ Switched(c).keys = c.keys \cup {c.next}
         /\ Switched(c).active = c.next /\ Switched(c).open = c.open
         /\ Switched(c).acks = Append(c.acks, c.next) /\ Switched(c).rotated = now
         /\ Ended(c).next = NoKey /\ Ended(c).keys = c.keys /\ Ended(c).active = c.active
         /\ Ended(c).open = FALSE /\ Ended(c).acks = <<>> /\ Ended(c).rotated = c.rotated
         /\ Received(c).next = c.next /\ Received(c).keys = c.keys /\ Received(c).active = c.active
         /\ Received(c).open = c.open /\ Received(c).acks = Tail(c.acks)
         /\ Received(c).rotated = c.rotated
BY DEF Offered, Switched, Ended, Received, ConnOf

LEMMA Bounds ==
  ASSUME Typed
  PROVE  /\ now \in Nat /\ issued \in Nat
         /\ \A i \in DOMAIN conns :
               /\ conns[i] \in ConnOf(Nat, Nat) /\ conns[i].open \in BOOLEAN
               /\ issued + 1 \notin conns[i].keys /\ conns[i].next # issued + 1
               /\ conns[i].active # issued + 1
               /\ conns[i].rotated \in 0..now /\ conns[i].acks \in Seq(Nat)
         /\ \A d \in doomed : d.key \in 0..issued /\ d.at \in Nat
         /\ issued + 1 \notin DOMAIN store /\ 0 \notin DOMAIN store /\ issued + 1 # NoKey
<1>1. now \in Nat /\ issued \in Nat /\ doomed \subseteq [key : Keys, at : Nat]
      /\ DOMAIN store \subseteq 1..issued
  BY DEF Typed, TypeOK
<1>2. ASSUME NEW i \in DOMAIN conns
      PROVE  /\ conns[i] \in ConnOf(Nat, Nat) /\ conns[i] \in ConnOf(Keys, 0..now)
  BY DEF Typed, TypeOK, ConnOf
<1>3. ASSUME NEW i \in DOMAIN conns
      PROVE  /\ conns[i].open \in BOOLEAN
             /\ issued + 1 \notin conns[i].keys /\ conns[i].next # issued + 1
             /\ conns[i].active # issued + 1
             /\ conns[i].rotated \in 0..now /\ conns[i].acks \in Seq(Nat)
  <2>1. conns[i].keys \subseteq 0..issued /\ conns[i].next \in 0..issued /\ conns[i].active \in 0..issued
    BY <1>2 DEF ConnOf, Keys
  <2>2. conns[i].open \in BOOLEAN /\ conns[i].rotated \in 0..now /\ conns[i].acks \in Seq(Nat)
    BY <1>2 DEF ConnOf
  <2> QED
    BY <2>1, <2>2, <1>1
<1> QED
  BY <1>1, <1>2, <1>3 DEF Keys, NoKey

LEMMA RegistersOwned ==
  ASSUME Typed, Owned, Registers
  PROVE  Owned'
<1>1. /\ \A j \in DOMAIN conns : conns'[j] = conns[j]
      /\ DOMAIN conns' = DOMAIN conns \cup {Len(conns) + 1}
      /\ conns'[Len(conns) + 1] = Registered /\ doomed' = doomed
  BY RegistersConns DEF Registers
<1>2. Registered.active = issued + 1 /\ Registered.keys = {issued + 1} /\ Registered.next = NoKey
      /\ Registered.open = TRUE
  BY DEF Registered
<1>3. ConnKeys'
  BY <1>1, <1>2, Bounds DEF Owned, ConnKeys
<1>4. Disjoint'
  BY <1>1, <1>2, Bounds DEF Owned, Disjoint, ConnKeys
<1>5. DoomedOnce'
  <2>1. ASSUME NEW d \in doomed
        PROVE  d.key # issued + 1 /\ d.key # NoKey
    <3>1. d.key \in 0..issued /\ issued \in Nat
      BY Bounds
    <3>2. d.key # issued + 1
      BY <3>1
    <3>3. d.key # NoKey
      BY DEF Owned, DoomedOnce
    <3> QED
      BY <3>2, <3>3
  <2> QED
    BY <2>1, <1>1, <1>2 DEF Owned, DoomedOnce
<1> QED
  BY <1>3, <1>4, <1>5 DEF Owned

LEMMA RotateOwned ==
  ASSUME Typed, Owned, NEW i \in DOMAIN conns, Rotate(i)
  PROVE  Owned'
<1>1. /\ DOMAIN conns' = DOMAIN conns /\ doomed' = doomed /\ conns[i].open
      /\ \A j \in DOMAIN conns : conns'[j] = IF j = i THEN Offered(conns[i]) ELSE conns[j]
  BY RotateConns DEF Rotate
<1>a. conns[i] \in ConnOf(Nat, Nat)
  BY <1>1, Bounds
<1>b. /\ Offered(conns[i]).next = issued + 1 /\ Offered(conns[i]).keys = conns[i].keys
      /\ Offered(conns[i]).active = conns[i].active /\ Offered(conns[i]).open = conns[i].open
      /\ Offered(conns[i]).acks = conns[i].acks
  BY <1>a, ConnFields
<1>2. /\ \A j \in DOMAIN conns : /\ conns'[j].keys = conns[j].keys
                                 /\ conns'[j].active = conns[j].active
                                 /\ conns'[j].acks = conns[j].acks
                                 /\ conns'[j].open = conns[j].open
                                 /\ j # i => conns'[j].next = conns[j].next
      /\ conns'[i].next = issued + 1
  BY <1>1, <1>b
<1>3. ConnKeys'
  BY <1>1, <1>2, Bounds DEF Owned, ConnKeys
<1>4. Disjoint'
  BY <1>1, <1>2, Bounds DEF Owned, Disjoint
<1>5. DoomedOnce'
  BY <1>1, <1>2, Bounds DEF Owned, DoomedOnce
<1> QED
  BY <1>3, <1>4, <1>5 DEF Owned

LEMMA RotatedOwned ==
  ASSUME Typed, Owned, NEW i \in DOMAIN conns, Rotated(i)
  PROVE  Owned'
<1> DEFINE d0 == [key |-> conns[i].active, at |-> now + Overlap]
<1>1. /\ DOMAIN conns' = DOMAIN conns /\ doomed' = doomed \cup {d0}
      /\ conns[i].open /\ conns[i].next # NoKey
      /\ \A j \in DOMAIN conns : conns'[j] = IF j = i THEN Switched(conns[i]) ELSE conns[j]
  BY RotatedConns DEF Rotated
<1>a. conns[i] \in ConnOf(Nat, Nat)
  BY <1>1, Bounds
<1>b. /\ Switched(conns[i]).next = NoKey /\ Switched(conns[i]).active = conns[i].next
      /\ Switched(conns[i]).keys = conns[i].keys \cup {conns[i].next}
      /\ Switched(conns[i]).open = conns[i].open
  BY <1>a, ConnFields
<1>2. /\ \A j \in DOMAIN conns : /\ j # i => conns'[j] = conns[j]
                                 /\ conns'[j].open = conns[j].open
      /\ conns'[i].next = NoKey /\ conns'[i].active = conns[i].next
      /\ conns'[i].keys = conns[i].keys \cup {conns[i].next}
  BY <1>1, <1>b
<1>3. ConnKeys'
  BY <1>1, <1>2, Bounds DEF Owned, ConnKeys
<1>4. Disjoint'
  <2> SUFFICES ASSUME NEW j \in DOMAIN conns, NEW k \in DOMAIN conns, j # k
               PROVE  /\ conns'[j].keys \cap conns'[k].keys = {}
                      /\ conns'[j].next \notin conns'[k].keys
                      /\ conns'[j].next = conns'[k].next => conns'[j].next = NoKey
    BY <1>1 DEF Disjoint
  <2>1. /\ conns[j].keys \cap conns[k].keys = {}
        /\ conns[j].next \notin conns[k].keys /\ conns[k].next \notin conns[j].keys
        /\ conns[j].next = conns[k].next => conns[j].next = NoKey
    BY DEF Owned, Disjoint
  <2>2. NoKey \notin conns[k].keys
    BY DEF Owned, ConnKeys
  <2>3. CASE j = i
    BY <2>1, <2>2, <2>3, <1>1, <1>2
  <2>4. CASE k = i
    BY <2>1, <2>2, <2>4, <1>1, <1>2
  <2>5. CASE j # i /\ k # i
    BY <2>1, <2>5, <1>2
  <2> QED
    BY <2>3, <2>4, <2>5
<1>5. DoomedOnce'
  <2>1. /\ d0.key = conns[i].active /\ conns[i].active \in conns[i].keys /\ NoKey \notin conns[i].keys
        /\ conns[i].next \notin conns[i].keys
    BY DEF Owned, ConnKeys
  <2>2. ASSUME NEW d \in doomed
        PROVE  d.key # conns[i].active /\ d.key # NoKey /\ d.key # conns[i].next
    BY DEF Owned, DoomedOnce
  <2>3. ASSUME NEW j \in DOMAIN conns, j # i
        PROVE  d0.key # conns[j].active /\ d0.key # conns[j].next
    BY <2>1, <2>3 DEF Owned, Disjoint, ConnKeys
  <2>4. ASSUME NEW d \in doomed', NEW j \in DOMAIN conns'
        PROVE  d.key # NoKey /\ d.key # conns'[j].active /\ d.key # conns'[j].next
    BY <2>1, <2>2, <2>3, <1>1, <1>2 DEF Owned, DoomedOnce
  <2>5. ASSUME NEW d \in doomed', NEW e \in doomed', d.key = e.key
        PROVE  d = e
    BY <2>1, <2>2, <2>5, <1>1 DEF Owned, DoomedOnce
  <2> QED
    BY <2>4, <2>5, <2>1, <2>2, <1>1 DEF DoomedOnce
<1> QED
  BY <1>3, <1>4, <1>5 DEF Owned

LEMMA EndedOwned ==
  ASSUME Typed, Owned, NEW i \in DOMAIN conns, ConnectionEnds(i)
  PROVE  Owned'
<1>1. /\ DOMAIN conns' = DOMAIN conns /\ doomed' = doomed
      /\ \A j \in DOMAIN conns : conns'[j] = IF j = i THEN Ended(conns[i]) ELSE conns[j]
  BY EndedConns DEF ConnectionEnds
<1>a. conns[i] \in ConnOf(Nat, Nat)
  BY <1>1, Bounds
<1>b. /\ Ended(conns[i]).next = NoKey /\ Ended(conns[i]).keys = conns[i].keys
      /\ Ended(conns[i]).active = conns[i].active /\ Ended(conns[i]).acks = <<>>
  BY <1>a, ConnFields
<1>2. /\ \A j \in DOMAIN conns : /\ conns'[j].keys = conns[j].keys
                                 /\ conns'[j].active = conns[j].active
                                 /\ j # i => conns'[j] = conns[j]
      /\ conns'[i].next = NoKey /\ conns'[i].acks = <<>>
  BY <1>1, <1>b
<1>3. ConnKeys'
  BY <1>1, <1>2, Bounds DEF Owned, ConnKeys
<1>4. Disjoint'
  BY <1>1, <1>2, Bounds DEF Owned, Disjoint, ConnKeys
<1>5. DoomedOnce'
  BY <1>1, <1>2, Bounds DEF Owned, DoomedOnce
<1> QED
  BY <1>3, <1>4, <1>5 DEF Owned

LEMMA ReceivedOwned ==
  ASSUME Typed, Owned, ReceiveAck
  PROVE  Owned'
<1>1. /\ DOMAIN conns' = DOMAIN conns /\ doomed' = doomed /\ link \in DOMAIN conns
      /\ conns[link].acks # <<>>
      /\ \A j \in DOMAIN conns : conns'[j] = IF j = link THEN Received(conns[link]) ELSE conns[j]
  BY ReceivedConns DEF ReceiveAck
<1>a. conns[link] \in ConnOf(Nat, Nat)
  BY <1>1, Bounds
<1>b. /\ Received(conns[link]).next = conns[link].next /\ Received(conns[link]).keys = conns[link].keys
      /\ Received(conns[link]).active = conns[link].active /\ Received(conns[link]).open = conns[link].open
  BY <1>a, ConnFields
<1>2. \A j \in DOMAIN conns : /\ conns'[j].keys = conns[j].keys
                              /\ conns'[j].active = conns[j].active
                              /\ conns'[j].next = conns[j].next
                              /\ conns'[j].open = conns[j].open
                              /\ j # link => conns'[j] = conns[j]
  BY <1>1, <1>b
<1>3. ConnKeys'
  BY <1>1, <1>2, Bounds DEF Owned, ConnKeys
<1>4. Disjoint'
  BY <1>1, <1>2, Bounds DEF Owned, Disjoint, ConnKeys
<1>5. DoomedOnce'
  BY <1>1, <1>2, Bounds DEF Owned, DoomedOnce
<1> QED
  BY <1>3, <1>4, <1>5 DEF Owned

LEMMA NextOwned ==
  ASSUME Typed, Owned, [Next]_vars
  PROVE  Owned'
<1>1. CASE conns' = conns
  <2>1. doomed' \subseteq doomed \/ \E i \in DOMAIN conns : Rotated(i)
    BY DoomedSteps
  <2>2. CASE doomed' \subseteq doomed
    BY <1>1, <2>2 DEF Owned, ConnKeys, Disjoint, DoomedOnce
  <2> QED
    BY <2>1, <2>2, RotatedOwned
<1>2. CASE ConnSteps
  BY <1>2, RegistersOwned, RotateOwned, RotatedOwned, EndedOwned, ReceivedOwned DEF ConnSteps
<1> QED
  BY <1>1, <1>2, ConnsChangeOnlyThen

LEMMA InitOwned == Init => Owned
BY DEF Init, Owned, ConnKeys, Disjoint, DoomedOnce

-----------------------------------------------------------------------------
(* What is left when a connection ends *)

NotOpened == \A u \in Sessions : ui[u].state = "none" => ui[u].key = NoKey

OfClient(k) == \E u \in Sessions : ui[u].key = k
Held(k)     == \E i \in DOMAIN conns : conns[i].open /\ (k \in conns[i].keys \/ k = conns[i].next)

NodeKeysInv == /\ NotOpened
               /\ \A k \in DOMAIN store : OfClient(k) \/ Held(k)

LEMMA NotOpenedKept ==
  ASSUME Typed, NotOpened, [Next]_vars
  PROVE  /\ NotOpened'
         /\ \A k : k # NoKey /\ OfClient(k) => OfClient(k)'
<1>1. ASSUME NEW u \in Sessions, ui'[u].state = "none"
      PROVE  ui'[u].key = NoKey
  BY <1>1, UiSteps DEF NotOpened
<1>2. ASSUME NEW u \in Sessions, ui[u].key # NoKey
      PROVE  ui'[u].key = ui[u].key
  BY <1>2, UiSteps DEF NotOpened
<1> QED
  BY <1>1, <1>2 DEF NotOpened, OfClient

\* A key of a connection stays held, unless its connection ends.
LEMMA HeldKept ==
  ASSUME Typed, Owned, [Next]_vars, NEW k, k # NoKey, Held(k)
  PROVE  \/ Held(k)'
         \/ \E i \in DOMAIN conns : ConnectionEnds(i) /\ (k \in conns[i].keys \/ k = conns[i].next)
<1>1. PICK h \in DOMAIN conns : conns[h].open /\ (k \in conns[h].keys \/ k = conns[h].next)
  BY DEF Held
<1>a. conns[h] \in ConnOf(Nat, Nat)
  BY Bounds
<1>2. CASE conns' = conns
  BY <1>1, <1>2 DEF Held
<1>3. CASE Registers
  BY <1>1, <1>3, RegistersConns DEF Held
<1>4. ASSUME NEW i \in DOMAIN conns, Rotate(i)
      PROVE  Held(k)'
  <2>1. Offered(conns[h]).open = conns[h].open /\ Offered(conns[h]).keys = conns[h].keys
    BY <1>a, ConnFields
  <2>2. conns[i].next = NoKey
    BY <1>4 DEF Rotate
  <2>3. h \in DOMAIN conns' /\ conns'[h].open /\ (k \in conns'[h].keys \/ k = conns'[h].next)
    <3>1. CASE h = i
      BY <3>1, <2>1, <2>2, <1>1, <1>4, RotateConns
    <3>2. CASE h # i
      BY <3>2, <1>1, <1>4, RotateConns
    <3> QED
      BY <3>1, <3>2
  <2> QED
    BY <2>3 DEF Held
<1>5. ASSUME NEW i \in DOMAIN conns, Rotated(i)
      PROVE  Held(k)'
  <2>1. Switched(conns[h]).open = conns[h].open /\ Switched(conns[h]).keys = conns[h].keys \cup {conns[h].next}
    BY <1>a, ConnFields
  <2>2. h \in DOMAIN conns' /\ conns'[h].open /\ (k \in conns'[h].keys \/ k = conns'[h].next)
    BY <2>1, <1>1, <1>5, RotatedConns
  <2> QED
    BY <2>2 DEF Held
<1>6. ASSUME NEW i \in DOMAIN conns, ConnectionEnds(i), i # h
      PROVE  Held(k)'
  <2>1. h \in DOMAIN conns' /\ conns'[h] = conns[h]
    BY <1>6, EndedConns
  <2> QED
    BY <2>1, <1>1 DEF Held
<1>7. CASE ReceiveAck
  <2>1. /\ Received(conns[h]).open = conns[h].open /\ Received(conns[h]).keys = conns[h].keys
        /\ Received(conns[h]).next = conns[h].next
    BY <1>a, ConnFields
  <2>2. h \in DOMAIN conns' /\ conns'[h].open /\ (k \in conns'[h].keys \/ k = conns'[h].next)
    BY <2>1, <1>1, <1>7, ReceivedConns
  <2> QED
    BY <2>2 DEF Held
<1> QED
  BY <1>1, <1>2, <1>3, <1>4, <1>5, <1>6, <1>7, ConnsChangeOnlyThen DEF ConnSteps

\* A new key that is accepted is its connection's or its session's.
LEMMA NewKeyIsHeld ==
  ASSUME Typed, [Next]_vars, Accepts1, NEW k, k = issued + 1
  PROVE  OfClient(k)' \/ Held(k)'
<1>0. issued + 1 \notin DOMAIN store /\ issued + 1 \in DOMAIN store'
  BY Bounds DEF Accepts1
<1>1. CASE Registers
  <2>1. /\ Len(conns) + 1 \in DOMAIN conns' /\ conns'[Len(conns) + 1].open
        /\ conns'[Len(conns) + 1].keys = {issued + 1}
    BY <1>1, RegistersConns DEF Registered
  <2> QED
    BY <2>1 DEF Held
<1>2. ASSUME NEW i \in DOMAIN conns, Rotate(i)
      PROVE  Held(k)'
  <2>1. conns[i].open /\ conns[i] \in ConnOf(Nat, Nat)
    BY <1>2, Bounds DEF Rotate
  <2>2. Offered(conns[i]).open /\ Offered(conns[i]).next = issued + 1
    BY <2>1, ConnFields
  <2>3. i \in DOMAIN conns' /\ conns'[i].open /\ conns'[i].next = issued + 1
    BY <2>2, <1>2, RotateConns
  <2> QED
    BY <2>3 DEF Held
<1>3. ASSUME NEW u \in Sessions, OpenSession(u)
      PROVE  OfClient(k)'
  <2>1. PICK s \in {"open", "over"} : ui' = [ui EXCEPT ![u] = [state |-> s, key |-> issued + 1]]
    BY <1>3 DEF OpenSession
  <2>2. ui \in [Sessions -> UiOf(Keys)]
    BY DEF Typed, TypeOK, UiOf
  <2>3. ui'[u].key = issued + 1
    BY <2>1, <2>2
  <2> QED
    BY <2>3 DEF OfClient
<1>4. \/ Registers \/ (\E i \in DOMAIN conns : Rotate(i)) \/ (\E u \in Sessions : OpenSession(u))
      \/ issued' = issued
  BY DEF Next, vars, Server, Node, Client, Cleanup, OverlapEnds, nodeVars, Rotated,
         ConnectionEnds, ReceiveAck, SessionEnds, RefreshRequested, Fetch, Proxy, Probe,
         ProbeUnanswered, Renewed, WaitTimeout, ProbeAgain, CloseSession, SignUrls, Get, Tick
<1>5. issued' # issued
  BY Bounds DEF Accepts1
<1> QED
  BY <1>1, <1>2, <1>3, <1>4, <1>5

LEMMA NodeKeysKept ==
  ASSUME Typed, Owned, NodeKeysInv, [Next]_vars
  PROVE  NodeKeysInv'
<1>1. NotOpened'
  BY NotOpenedKept DEF NodeKeysInv
<1>2. ASSUME NEW k \in DOMAIN store'
      PROVE  OfClient(k)' \/ Held(k)'
  <2>1. CASE k \notin DOMAIN store
    <3>1. Accepts1 /\ k = issued + 1
      BY <2>1, StoreSteps DEF Forgets, Accepts1
    <3> QED
      BY <3>1, NewKeyIsHeld
  <2>2. CASE k \in DOMAIN store
    <3>1. k # NoKey
      BY <2>2, Bounds DEF NoKey
    <3>2. CASE OfClient(k)
      BY <3>1, <3>2, NotOpenedKept DEF NodeKeysInv
    <3>3. ASSUME NEW i \in DOMAIN conns, ConnectionEnds(i), k \in conns[i].keys \/ k = conns[i].next
          PROVE  FALSE
      <4>1. store' = Restrict(store, DOMAIN store \ (conns[i].keys \cup {conns[i].next}))
        BY <3>3 DEF ConnectionEnds, Revoked
      <4>2. DOMAIN store' = DOMAIN store \ (conns[i].keys \cup {conns[i].next})
        BY <4>1 DEF Restrict
      <4> QED
        BY <4>2, <3>3
    <3>4. CASE Held(k)
      BY <3>1, <3>3, <3>4, HeldKept
    <3> QED
      BY <2>2, <3>2, <3>4 DEF NodeKeysInv
  <2> QED
    BY <2>1, <2>2
<1> QED
  BY <1>1, <1>2 DEF NodeKeysInv

\* A key that the server accepts is a client's, or one that a connection which is still
\* open announced or is about to: none outlives its connection, however it ends.
THEOREM NodeKeysEnd == Spec => []NodeKeysEndWithTheirConnection
<1>1. Init => NodeKeysInv
  BY DEF Init, NodeKeysInv, NotOpened, NoSession
<1>2. Typed /\ Owned /\ NodeKeysInv /\ [Next]_vars => Typed' /\ Owned' /\ NodeKeysInv'
  BY NextTyped, NextOwned, NodeKeysKept
<1>3. NodeKeysInv => NodeKeysEndWithTheirConnection
  BY DEF NodeKeysInv, NodeKeysEndWithTheirConnection, OfClient, Held, OpenConns
<1> QED
  BY <1>1, <1>2, <1>3, InitTyped, InitOwned, PTL DEF Spec

-----------------------------------------------------------------------------
(* Ranges *)

Asked(range, len) ==
    CASE range.kind = "from"   -> {b \in 0..(len - 1) : b >= range.first}
      [] range.kind = "to"     -> {b \in 0..(len - 1) : range.first <= b /\ b <= range.last}
      [] range.kind = "suffix" -> {b \in 0..(len - 1) : b >= len - range.n}
      [] range.kind = "none"   -> 0..(len - 1)
      [] OTHER                 -> {}

Exact(r) == /\ r.status \in {200, 206} => r.from..r.to = Asked(r.range, r.len)
            /\ r.status = 416 => Asked(r.range, r.len) = {}

LEMMA ParsedExactly ==
  ASSUME NEW len \in Nat, NEW range \in RangeHeaders, range.kind # "none"
  PROVE  /\ ParseRange(range, len) = <<>> => Asked(range, len) = {}
         /\ ParseRange(range, len) # <<>> =>
               ParseRange(range, len)[1]..ParseRange(range, len)[2] = Asked(range, len)
<1>1. CASE range.kind = "bad"
  BY <1>1 DEF ParseRange, Asked
<1>2. CASE range.kind = "suffix"
  <2>1. range.n \in Nat
    BY <1>2 DEF RangeHeaders
  <2> QED
    BY <1>2, <2>1 DEF ParseRange, Asked
<1>3. CASE range.kind = "from"
  <2>1. range.first \in Nat
    BY <1>3 DEF RangeHeaders
  <2> QED
    BY <1>3, <2>1 DEF ParseRange, Asked
<1>4. CASE range.kind = "to"
  <2>1. range.first \in Nat /\ range.last \in Nat
    BY <1>4 DEF RangeHeaders
  <2> QED
    BY <1>4, <2>1 DEF ParseRange, Asked
<1> QED
  BY <1>1, <1>2, <1>3, <1>4 DEF RangeHeaders

LEMMA ServedExactly ==
  ASSUME NEW len \in Nat, NEW range \in RangeHeaders
  PROVE  Exact(ServeFile(len, range))
<1>1. CASE range.kind = "none"
  BY <1>1 DEF ServeFile, Exact, Asked
<1>2. CASE range.kind # "none" /\ ParseRange(range, len) = <<>>
  BY <1>2, ParsedExactly DEF ServeFile, Exact
<1>3. CASE range.kind # "none" /\ ParseRange(range, len) # <<>>
  BY <1>3, ParsedExactly DEF ServeFile, Exact
<1> QED
  BY <1>1, <1>2, <1>3

LEMMA AnsweredExactly ==
  ASSUME NEW url, NEW range \in Ranges
  PROVE  Exact(Answer(url, range))
<1>1. \A code \in {403, 404} : Exact(Empty(code))
  BY DEF Exact, Empty, NoReply
<1>2. CASE ~Accepted(url) \/ url.path.item \notin DOMAIN Files
  BY <1>1, <1>2 DEF Answer
<1>3. CASE Accepted(url) /\ url.path.item \in DOMAIN Files
  <2> DEFINE file == Files[url.path.item]
             all  == [kind |-> "none"]
  <2>1. file.length \in Nat /\ file.art \in Nat /\ file.picture \in Nat
    BY <1>3, RequestConstants
  <2>2. all \in RangeHeaders /\ range \in RangeHeaders
    BY RequestConstants DEF RangeHeaders
  <2>3. Exact(ServeArt(file))
    BY <2>1, <2>2, <1>1, ServedExactly DEF ServeArt
  <2>4. Exact(ServeFile(file.length, all)) /\ Exact(ServeFile(file.length, range))
    BY <2>1, <2>2, ServedExactly
  <2>5. Answer(url, range) \in {ServeArt(file), ServeFile(file.length, all), ServeFile(file.length, range)}
    BY <1>3 DEF Answer
  <2> QED
    BY <2>3, <2>4, <2>5
<1> QED
  BY <1>2, <1>3

\* Of a file of any length and for any range header, an answer carries the bytes that were
\* asked for, and an error means that the file has none of them.
THEOREM AnswersAreExact == Spec => []RangesAreExact
<1>1. RangesAreExact <=> Exact(reply)
  BY DEF RangesAreExact, Exact, Asked
<1>2. Init => Exact(reply)
  BY DEF Init, Exact, NoReply
<1>3. ASSUME Exact(reply), [Next]_vars
      PROVE  Exact(reply)'
  <2>1. reply' = reply \/ \E url \in urls, range \in Ranges : reply' = Answer(url, range)
    BY <1>3 DEF Next, vars, Server, Node, Client, Cleanup, OverlapEnds, clientVars, Rotate, Rotated,
         ConnectionEnds, Registers, ReceiveAck, SessionEnds, RefreshRequested, Fetch, Proxy, Probe,
         ProbeUnanswered, Renewed, WaitTimeout, ProbeAgain, OpenSession, CloseSession, SignUrls, Get, Tick
  <2>2. Exact(reply')
    BY <2>1, <1>3, AnsweredExactly
  <2> QED
    BY <2>2 DEF Exact, Asked
<1> QED
  BY <1>1, <1>2, <1>3, PTL DEF Spec

-----------------------------------------------------------------------------
(* The URLs of clients *)

OfNode(k) == \/ \E i \in DOMAIN conns : k \in conns[i].keys \/ k = conns[i].next
             \/ \E d \in doomed : k = d.key

Made(url) == url.exp - UrlTtl - url.age

UrlInv == /\ NotOpened
          /\ \A u \in Sessions : ui[u].key # NoKey => ~OfNode(ui[u].key)
          /\ \A url \in urls :
                /\ url.key \in 1..issued /\ url.exp \in Int /\ url.age \in Int
                /\ ~OfNode(url.key)
                /\ IF url.key \in DOMAIN store THEN store[url.key] = Made(url)
                                               ELSE now > Made(url) + MaxKeyAge

\* Only new keys become those of a node.
LEMMA NodesGetNewKeys ==
  ASSUME Typed, Owned, [Next]_vars, NEW k, k \in Nat, k # NoKey, ~OfNode(k), OfNode(k)'
  PROVE  k = issued + 1 /\ issued' = issued + 1 /\ urls' = urls /\ ui' = ui
<1>1. CASE conns' = conns /\ doomed' \subseteq doomed
  BY <1>1 DEF OfNode
<1>2. CASE Registers
  BY <1>2, RegistersConns DEF OfNode, Registered, Registers, clientVars
<1>3. ASSUME NEW i \in DOMAIN conns, Rotate(i)
      PROVE  k = issued + 1 /\ issued' = issued + 1 /\ urls' = urls /\ ui' = ui
  <2>1. conns[i] \in ConnOf(Nat, Nat)
    BY Bounds
  <2>2. Offered(conns[i]).keys = conns[i].keys /\ Offered(conns[i]).next = issued + 1
    BY <2>1, ConnFields
  <2>3. doomed' = doomed /\ issued' = issued + 1 /\ urls' = urls /\ ui' = ui
    BY <1>3 DEF Rotate, clientVars
  <2> QED
    BY <2>2, <2>3, <1>3, RotateConns DEF OfNode
<1>4. ASSUME NEW i \in DOMAIN conns, Rotated(i)
      PROVE  FALSE
  <2>1. conns[i] \in ConnOf(Nat, Nat) /\ conns[i].active \in conns[i].keys
    BY Bounds DEF Owned, ConnKeys
  <2>2. Switched(conns[i]).keys = conns[i].keys \cup {conns[i].next} /\ Switched(conns[i]).next = NoKey
    BY <2>1, ConnFields
  <2>3. doomed' = doomed \cup {[key |-> conns[i].active, at |-> now + Overlap]}
    BY <1>4 DEF Rotated
  <2>4. ~\E j \in DOMAIN conns' : k \in conns'[j].keys \/ k = conns'[j].next
    BY <2>2, <1>4, RotatedConns DEF OfNode
  <2>5. ~\E d \in doomed' : k = d.key
    BY <2>1, <2>3 DEF OfNode
  <2> QED
    BY <2>4, <2>5 DEF OfNode
<1>5. ASSUME NEW i \in DOMAIN conns, ConnectionEnds(i)
      PROVE  FALSE
  <2>1. conns[i] \in ConnOf(Nat, Nat)
    BY Bounds
  <2>2. Ended(conns[i]).keys = conns[i].keys /\ Ended(conns[i]).next = NoKey
    BY <2>1, ConnFields
  <2>3. doomed' = doomed
    BY <1>5 DEF ConnectionEnds
  <2> QED
    BY <2>2, <2>3, <1>5, EndedConns DEF OfNode
<1>6. CASE ReceiveAck
  <2>1. link \in DOMAIN conns /\ conns[link] \in ConnOf(Nat, Nat)
    BY <1>6, ReceivedConns, Bounds
  <2>2. Received(conns[link]).keys = conns[link].keys /\ Received(conns[link]).next = conns[link].next
    BY <2>1, ConnFields
  <2>3. doomed' = doomed
    BY <1>6 DEF ReceiveAck
  <2> QED
    BY <2>2, <2>3, <1>6, ReceivedConns DEF OfNode
<1>7. (conns' = conns /\ doomed' \subseteq doomed) \/ ConnSteps
  <2>1. doomed' \subseteq doomed \/ ConnSteps
    BY DoomedSteps DEF ConnSteps
  <2> QED
    BY <2>1, ConnsChangeOnlyThen
<1> QED
  BY <1>1, <1>2, <1>3, <1>4, <1>5, <1>6, <1>7 DEF ConnSteps

\* A key is dropped for its age, or it is a node's.
LEMMA DroppedKeys ==
  ASSUME Typed, [Next]_vars, NEW k \in DOMAIN store, k \notin DOMAIN store'
  PROVE  /\ now' = now
         /\ \/ Cleanup /\ now - store[k] > MaxKeyAge
            \/ \E d \in doomed : d.at <= now /\ k = d.key /\ doomed' = doomed \ {d}
            \/ \E i \in DOMAIN conns : ConnectionEnds(i) /\ (k \in conns[i].keys \/ k = conns[i].next)
<1>1. CASE Cleanup
  <2>1. DOMAIN store' = {j \in DOMAIN store : now - store[j] <= MaxKeyAge} /\ now' = now
    BY <1>1 DEF Cleanup, Restrict
  <2>2. now - store[k] \in Int /\ MaxKeyAge \in Nat
    BY MediaConstants DEF Typed, TypeOK
  <2> QED
    BY <1>1, <2>1, <2>2
<1>2. CASE OverlapEnds
  <2>1. PICK d \in doomed : /\ d.at <= now /\ doomed' = doomed \ {d}
                            /\ store' = Revoked(store, {d.key}) /\ now' = now
    BY <1>2 DEF OverlapEnds
  <2>2. DOMAIN store' = DOMAIN store \ {d.key}
    BY <2>1 DEF Revoked, Restrict
  <2> QED
    BY <2>1, <2>2
<1>3. ASSUME NEW i \in DOMAIN conns, ConnectionEnds(i)
      PROVE  now' = now /\ (k \in conns[i].keys \/ k = conns[i].next)
  <2>1. store' = Restrict(store, DOMAIN store \ (conns[i].keys \cup {conns[i].next})) /\ now' = now
    BY <1>3 DEF ConnectionEnds, Revoked
  <2>2. DOMAIN store' = DOMAIN store \ (conns[i].keys \cup {conns[i].next})
    BY <2>1 DEF Restrict
  <2> QED
    BY <2>1, <2>2
<1>4. \/ Cleanup \/ OverlapEnds \/ \E i \in DOMAIN conns : ConnectionEnds(i)
      \/ store' = Generated(store) \/ store' = store
  BY DEF Next, vars, Server, Node, Client, Rotate, Rotated,
         Registers, ReceiveAck, SessionEnds, RefreshRequested, Fetch, Proxy, Probe, ProbeUnanswered,
         Renewed, WaitTimeout, ProbeAgain, OpenSession, CloseSession, SignUrls, Get, Tick
<1>5. store' # store
  OBVIOUS
<1>6. store' # Generated(store)
  BY DEF Generated
<1> QED
  BY <1>1, <1>2, <1>3, <1>4, <1>5, <1>6

LEMMA UrlKept ==
  ASSUME Typed, Owned, UrlInv, [Next]_vars
  PROVE  UrlInv'
<1>0. /\ issued \in Nat /\ now \in Nat /\ UrlTtl \in Nat /\ MaxKeyAge \in Nat
      /\ issued' \in {issued, issued + 1} /\ now' \in {now, now + 1}
      /\ \A k \in DOMAIN store : store[k] \in Nat
  BY MediaConstants, TimesGrow DEF Typed, TypeOK
<1>1. NotOpened'
  BY NotOpenedKept DEF UrlInv
<1>2. ASSUME NEW k \in 1..issued, ~OfNode(k)
      PROVE  ~OfNode(k)'
  <2>1. k \in Nat /\ k # NoKey /\ k # issued + 1
    BY <1>0, <1>2 DEF NoKey
  <2> QED
    BY <2>1, <1>2, NodesGetNewKeys
<1>3. ASSUME NEW u \in Sessions, ui'[u].key # NoKey
      PROVE  \A k : k = ui'[u].key => ~OfNode(k)'
  <2>1. CASE ui'[u].key = ui[u].key
    <3>1. ui[u].key \in 0..issued /\ ~OfNode(ui[u].key)
      BY <2>1, <1>3 DEF UrlInv, Typed, TypeOK, Keys
    <3>2. ui[u].key \in 1..issued
      BY <3>1, <2>1, <1>3, <1>0 DEF NoKey
    <3> QED
      BY <3>1, <3>2, <2>1, <1>2
  <2>2. CASE ui'[u].key = issued + 1 /\ conns' = conns /\ doomed' = doomed
    <3>1. ASSUME NEW i \in DOMAIN conns
          PROVE  issued + 1 \notin conns[i].keys /\ issued + 1 # conns[i].next
      BY Bounds
    <3>2. ASSUME NEW d \in doomed
          PROVE  issued + 1 # d.key
      <4>1. d.key \in 0..issued
        BY Bounds
      <4> QED
        BY <4>1, <1>0
    <3> QED
      BY <3>1, <3>2, <2>2 DEF OfNode
  <2> QED
    BY <2>1, <2>2, UiSteps
<1>4. ASSUME NEW url \in urls
      PROVE  /\ url.key \in 1..issued' /\ url.exp \in Int /\ url.age \in Int
             /\ IF url.key \in DOMAIN store' THEN store'[url.key] = Made(url)
                                             ELSE now' > Made(url) + MaxKeyAge
  <2>1. /\ url.key \in 1..issued /\ url.exp \in Int /\ url.age \in Int /\ ~OfNode(url.key)
        /\ IF url.key \in DOMAIN store THEN store[url.key] = Made(url)
                                       ELSE now > Made(url) + MaxKeyAge
    BY DEF UrlInv
  <2>2. url.key # issued + 1 /\ url.key \in 1..issued' /\ Made(url) \in Int
    BY <2>1, <1>0 DEF Made
  <2>3. CASE url.key \in DOMAIN store' /\ url.key \in DOMAIN store
    <3>1. store'[url.key] = store[url.key]
      BY <2>2, <2>3, StoreSteps DEF Forgets, Accepts1
    <3> QED
      BY <3>1, <2>1, <2>2, <2>3
  <2>4. CASE url.key \in DOMAIN store' /\ url.key \notin DOMAIN store
    BY <2>2, <2>4, StoreSteps DEF Forgets, Accepts1
  <2>5. CASE url.key \notin DOMAIN store' /\ url.key \notin DOMAIN store
    BY <2>1, <2>2, <2>5, <1>0
  <2>6. CASE url.key \notin DOMAIN store' /\ url.key \in DOMAIN store
    <3>1. now' = now /\ now - store[url.key] > MaxKeyAge
      BY <2>1, <2>6, DroppedKeys DEF OfNode
    <3>2. store[url.key] = Made(url) /\ store[url.key] \in Nat
      BY <2>1, <2>6, <1>0
    <3> QED
      BY <3>1, <3>2, <2>1, <2>2, <2>6, <1>0
  <2> QED
    BY <2>1, <2>2, <2>3, <2>4, <2>5, <2>6
<1>5. ASSUME NEW u \in Sessions, SignUrls(u), NEW url \in urls', url \notin urls
      PROVE  /\ url.key \in 1..issued' /\ url.exp \in Int /\ url.age \in Int /\ ~OfNode(url.key)
             /\ url.key \in DOMAIN store' /\ store'[url.key] = Made(url)
  <2> DEFINE k == ui[u].key
  <2>1. k \in DOMAIN store /\ url.key = k /\ url.exp = now + UrlTtl /\ url.age = now - store[k]
    BY <1>5 DEF SignUrls
  <2>2. issued' = issued /\ store' = store
    BY <1>5 DEF SignUrls
  <2>3. k \in 1..issued /\ k # NoKey
    BY <2>1 DEF Typed, TypeOK, NoKey
  <2>4. ~OfNode(k)
    BY <2>3 DEF UrlInv
  <2>5. store[k] \in Nat /\ url.exp \in Int /\ url.age \in Int /\ store[k] = url.exp - UrlTtl - url.age
    BY <2>1, <1>0
  <2> QED
    BY <2>1, <2>2, <2>3, <2>4, <2>5 DEF Made
<1>6. urls' = urls \/ \E u \in Sessions : SignUrls(u)
  BY DEF Next, vars, Server, Node, Client, Cleanup, OverlapEnds, clientVars, Rotate, Rotated,
         ConnectionEnds, Registers, ReceiveAck, SessionEnds, RefreshRequested, Fetch, Proxy, Probe,
         ProbeUnanswered, Renewed, WaitTimeout, ProbeAgain, OpenSession, CloseSession, Get, Tick
<1>7. ASSUME NEW url \in urls'
      PROVE  /\ url.key \in 1..issued' /\ url.exp \in Int /\ url.age \in Int
             /\ \A k : k = url.key => ~OfNode(k)'
             /\ IF url.key \in DOMAIN store' THEN store'[url.key] = Made(url)
                                             ELSE now' > Made(url) + MaxKeyAge
  <2>1. CASE url \in urls
    <3>1. url.key \in 1..issued /\ ~OfNode(url.key)
      BY <2>1 DEF UrlInv
    <3> QED
      BY <3>1, <2>1, <1>2, <1>4
  <2>2. CASE url \notin urls
    <3>1. PICK u \in Sessions : SignUrls(u)
      BY <2>2, <1>6
    <3>2. conns' = conns /\ doomed' = doomed
      BY <3>1 DEF SignUrls, nodeVars
    <3> QED
      BY <3>1, <3>2, <2>2, <1>5 DEF OfNode
  <2> QED
    BY <2>1, <2>2
<1> QED
  BY <1>1, <1>3, <1>7 DEF UrlInv, OfNode, Made

\* A URL of an open session is accepted until it expires if its key was young enough when
\* it was signed, whatever connections come and go and however their keys are rotated.
THEOREM ClientUrlsLast == Spec => []FreshUrlsLast
<1>1. Init => UrlInv
  BY DEF Init, UrlInv, NotOpened, NoSession
<1>2. Typed /\ Owned /\ UrlInv /\ [Next]_vars => Typed' /\ Owned' /\ UrlInv'
  BY NextTyped, NextOwned, UrlKept
<1>3. Typed /\ UrlInv => FreshUrlsLast
  <2> SUFFICES ASSUME Typed, UrlInv, NEW url \in urls, url.age <= MaxKeyAge - UrlTtl, now <= url.exp
               PROVE  Accepted(url)
    BY DEF FreshUrlsLast
  <2>1. now \in Nat /\ MaxKeyAge \in Nat /\ UrlTtl \in Nat /\ url.exp \in Int /\ url.age \in Int
    BY MediaConstants DEF Typed, TypeOK, UrlInv
  <2>2. url.key \notin DOMAIN store => now > url.exp - UrlTtl - url.age + MaxKeyAge
    BY DEF UrlInv, Made
  <2> QED
    BY <2>1, <2>2 DEF Accepted
<1> QED
  BY <1>1, <1>2, <1>3, InitTyped, InitOwned, PTL DEF Spec

-----------------------------------------------------------------------------
(* Redirects. Of a connection that is open, the active key, the next one   *)
(* and those that are rotated but still overlap are in the store: a key is *)
(* dropped for its age only after RotateEvery + Overlap.  What the node    *)
(* holds or is about to receive is the active key or was until this unit   *)
(* of time, so that a redirect's key has been rotated after the redirect.  *)

Timely ==
    /\ \A i \in OpenConns :
          /\ conns[i].active \in DOMAIN store /\ store[conns[i].active] = conns[i].rotated
          /\ now - conns[i].rotated <= RotateEvery
          /\ conns[i].next # NoKey =>
                conns[i].next \in DOMAIN store /\ store[conns[i].next] = now
    /\ \A d \in doomed : now <= d.at /\ d.at <= now + Overlap
    /\ \A d \in doomed : \A i \in OpenConns : d.key \in conns[i].keys =>
          d.key \in DOMAIN store /\ d.at <= store[d.key] + RotateEvery + Overlap

\* Key k of connection i is accepted for an overlap from time t on.
Lasts(i, k, t) == \/ k = conns[i].active
                  \/ \E d \in doomed : d.key = k /\ d.at >= t + Overlap

ProxyCurrent ==
    \A i \in OpenConns :
       /\ proxy.key \in conns[i].keys => Lasts(i, proxy.key, now)
       /\ \A n \in DOMAIN conns[i].acks :
             conns[i].acks[n] \in conns[i].keys /\ Lasts(i, conns[i].acks[n], now)
       /\ conns[i].acks # <<>> => conns[i].acks[Len(conns[i].acks)] = conns[i].active
       /\ conns[i].acks = <<>> /\ link = i => proxy.key = conns[i].active

FetchesLast ==
    \A f \in Fetchers : fetch[f].pc # "idle" =>
       /\ fetch[f].exp = fetch[f].at + UrlTtl
       /\ \A i \in OpenConns : fetch[f].key \in conns[i].keys =>
             now >= fetch[f].at + Overlap \/ Lasts(i, fetch[f].key, fetch[f].at)

\* What a step does to a connection that is open after it.
Stays(i)    == conns'[i] = conns[i]
IsOffered(i)  == /\ Rotate(i) /\ conns'[i].next = issued + 1 /\ conns'[i].keys = conns[i].keys
                 /\ conns'[i].active = conns[i].active /\ conns'[i].rotated = conns[i].rotated
                 /\ conns'[i].acks = conns[i].acks
IsSwitched(i) == /\ Rotated(i) /\ conns'[i].next = NoKey /\ conns'[i].active = conns[i].next
                 /\ conns'[i].keys = conns[i].keys \cup {conns[i].next}
                 /\ conns'[i].rotated = now /\ conns'[i].acks = Append(conns[i].acks, conns[i].next)
Receives(i)   == /\ ReceiveAck /\ link = i /\ conns'[i].next = conns[i].next
                 /\ conns'[i].active = conns[i].active /\ conns'[i].keys = conns[i].keys
                 /\ conns'[i].rotated = conns[i].rotated /\ conns'[i].acks = Tail(conns[i].acks)

LEMMA OpenConnSteps ==
  ASSUME Typed, [Next]_vars, NEW i \in OpenConns'
  PROVE  \/ Registers /\ i = Len(conns) + 1 /\ i \notin DOMAIN conns /\ conns'[i] = Registered
         \/ /\ i \in OpenConns /\ ~ConnectionEnds(i)
            /\ Stays(i) \/ IsOffered(i) \/ IsSwitched(i) \/ Receives(i)
<1>1. i \in DOMAIN conns' /\ conns'[i].open
  BY DEF OpenConns
<1>2. ASSUME i \in DOMAIN conns
      PROVE  ~ConnectionEnds(i)
  <2>1. conns[i] \in ConnOf(Nat, Nat)
    BY <1>2, Bounds
  <2>2. Ended(conns[i]).open = FALSE
    BY <2>1, ConnFields
  <2> QED
    BY <1>1, <1>2, <2>2, EndedConns
<1>3. CASE conns' = conns
  BY <1>1, <1>2, <1>3 DEF Stays, OpenConns
<1>4. CASE Registers
  <2>1. i \in DOMAIN conns \/ i = Len(conns) + 1
    BY <1>1, <1>4, RegistersConns
  <2>2. Len(conns) + 1 \notin DOMAIN conns
    BY DEF Typed
  <2> QED
    BY <2>1, <2>2, <1>1, <1>2, <1>4, RegistersConns DEF Stays, OpenConns
<1>5. ASSUME NEW j \in DOMAIN conns, Rotate(j)
      PROVE  i \in OpenConns /\ ~ConnectionEnds(i) /\ (Stays(i) \/ IsOffered(i))
  <2>1. i \in DOMAIN conns /\ conns'[i] = IF i = j THEN Offered(conns[j]) ELSE conns[i]
    BY <1>1, <1>5, RotateConns
  <2>2. CASE i = j
    <3>1. conns[i] \in ConnOf(Nat, Nat)
      BY <2>1, Bounds
    <3>2. /\ Offered(conns[i]).next = issued + 1 /\ Offered(conns[i]).keys = conns[i].keys
          /\ Offered(conns[i]).active = conns[i].active /\ Offered(conns[i]).open = conns[i].open
          /\ Offered(conns[i]).rotated = conns[i].rotated /\ Offered(conns[i]).acks = conns[i].acks
      BY <3>1, ConnFields
    <3> QED
      BY <3>2, <2>1, <2>2, <1>1, <1>2, <1>5 DEF OpenConns, IsOffered
  <2>3. CASE i # j
    BY <2>1, <2>3, <1>1, <1>2 DEF OpenConns, Stays
  <2> QED
    BY <2>2, <2>3
<1>6. ASSUME NEW j \in DOMAIN conns, Rotated(j)
      PROVE  i \in OpenConns /\ ~ConnectionEnds(i) /\ (Stays(i) \/ IsSwitched(i))
  <2>1. i \in DOMAIN conns /\ conns'[i] = IF i = j THEN Switched(conns[j]) ELSE conns[i]
    BY <1>1, <1>6, RotatedConns
  <2>2. CASE i = j
    <3>1. conns[i] \in ConnOf(Nat, Nat)
      BY <2>1, Bounds
    <3>2. /\ Switched(conns[i]).next = NoKey /\ Switched(conns[i]).active = conns[i].next
          /\ Switched(conns[i]).keys = conns[i].keys \cup {conns[i].next}
          /\ Switched(conns[i]).open = conns[i].open /\ Switched(conns[i]).rotated = now
          /\ Switched(conns[i]).acks = Append(conns[i].acks, conns[i].next)
      BY <3>1, ConnFields
    <3> QED
      BY <3>2, <2>1, <2>2, <1>1, <1>2, <1>6 DEF OpenConns, IsSwitched
  <2>3. CASE i # j
    BY <2>1, <2>3, <1>1, <1>2 DEF OpenConns, Stays
  <2> QED
    BY <2>2, <2>3
<1>7. ASSUME NEW j \in DOMAIN conns, ConnectionEnds(j)
      PROVE  i \in OpenConns /\ ~ConnectionEnds(i) /\ Stays(i)
  <2>1. i \in DOMAIN conns /\ conns'[i] = IF i = j THEN Ended(conns[j]) ELSE conns[i]
    BY <1>1, <1>7, EndedConns
  <2>2. i # j
    BY <2>1, <1>2, <1>7
  <2> QED
    BY <2>1, <2>2, <1>1, <1>2 DEF OpenConns, Stays
<1>8. CASE ReceiveAck
  <2>1. /\ i \in DOMAIN conns /\ link \in DOMAIN conns
        /\ conns'[i] = IF i = link THEN Received(conns[link]) ELSE conns[i]
    BY <1>1, <1>8, ReceivedConns
  <2>2. CASE i = link
    <3>1. conns[i] \in ConnOf(Nat, Nat)
      BY <2>1, Bounds
    <3>2. /\ Received(conns[i]).next = conns[i].next /\ Received(conns[i]).keys = conns[i].keys
          /\ Received(conns[i]).active = conns[i].active /\ Received(conns[i]).open = conns[i].open
          /\ Received(conns[i]).rotated = conns[i].rotated
          /\ Received(conns[i]).acks = Tail(conns[i].acks)
      BY <3>1, ConnFields
    <3> QED
      BY <3>2, <2>1, <2>2, <1>1, <1>2, <1>8 DEF OpenConns, Receives
  <2>3. CASE i # link
    BY <2>1, <2>3, <1>1, <1>2 DEF OpenConns, Stays
  <2> QED
    BY <2>2, <2>3
<1> QED
  BY <1>3, <1>4, <1>5, <1>6, <1>7, <1>8, ConnsChangeOnlyThen DEF ConnSteps

\* The clock goes on only when nothing is due.
LEMMA Ticks ==
  ASSUME Typed, [Next]_vars, now' # now
  PROVE  /\ ~Due /\ now' = now + 1
         /\ store' = store /\ conns' = conns /\ doomed' = doomed /\ proxy' = proxy
         /\ link' = link /\ fetch' = fetch
BY DEF Next, vars, Server, Node, Client, Cleanup, OverlapEnds, nodeVars, Rotate, Rotated,
       ConnectionEnds, Registers, ReceiveAck, SessionEnds, RefreshRequested, Fetch, Proxy, Probe,
       ProbeUnanswered, Renewed, WaitTimeout, ProbeAgain, OpenSession, CloseSession, SignUrls, Get, Tick

\* A key of an open connection that is not old and not due stays in the store.
LEMMA KeyKept ==
  ASSUME Typed, Owned, [Next]_vars, NEW i \in DOMAIN conns, ~ConnectionEnds(i),
         NEW k \in DOMAIN store, k \in conns[i].keys \/ k = conns[i].next,
         now - store[k] <= MaxKeyAge,
         \A d \in doomed : k = d.key => ~(d.at <= now /\ doomed' = doomed \ {d})
  PROVE  k \in DOMAIN store' /\ store'[k] = store[k]
<1>1. k # issued + 1 /\ k # NoKey
  BY Bounds DEF NoKey
<1>2. ASSUME NEW j \in DOMAIN conns, ConnectionEnds(j), k \in conns[j].keys \/ k = conns[j].next
      PROVE  FALSE
  <2>1. j # i
    BY <1>2
  <2> QED
    BY <2>1, <1>1, <1>2 DEF Owned, Disjoint
<1>3. now \in Nat /\ store[k] \in Nat /\ MaxKeyAge \in Nat
  BY MediaConstants DEF Typed, TypeOK
<1>4. k \in DOMAIN store'
  BY <1>2, <1>3, DroppedKeys
<1> QED
  BY <1>1, <1>4, StoreSteps DEF Forgets, Accepts1

LEMMA DueMeans ==
  ASSUME Typed, ~Due
  PROVE  /\ \A d \in doomed : now + 1 <= d.at
         /\ \A i \in OpenConns : /\ conns[i].next = NoKey /\ now + 1 - conns[i].rotated <= RotateEvery
                                 /\ link = i /\ conns[i].acks = <<>>
<1>1. ASSUME NEW d \in doomed
      PROVE  now + 1 <= d.at
  <2>1. ~(d.at <= now) /\ d.at \in Nat /\ now \in Nat
    BY Bounds DEF Due
  <2> QED
    BY <2>1
<1>2. ASSUME NEW i \in OpenConns
      PROVE  /\ conns[i].next = NoKey /\ now + 1 - conns[i].rotated <= RotateEvery
             /\ link = i /\ conns[i].acks = <<>>
  <2>1. i \in DOMAIN conns /\ conns[i].open
    BY DEF OpenConns
  <2>2. conns[i].next = NoKey /\ ~(now - conns[i].rotated >= RotateEvery) /\ link = i
    BY <2>1 DEF Due
  <2>3. now \in Nat /\ conns[i].rotated \in Nat /\ RotateEvery \in Nat
    BY <2>1, Bounds, MediaConstants
  <2>4. link # 0
    BY <2>1, <2>2 DEF Typed
  <2>5. conns[i].acks = <<>>
    BY <2>2, <2>4 DEF Due
  <2> QED
    BY <2>2, <2>3, <2>5
<1> QED
  BY <1>1, <1>2

LEMMA TimelyConns ==
  ASSUME Typed, Owned, Timely, [Next]_vars, NEW i \in OpenConns'
  PROVE  /\ conns'[i].active \in DOMAIN store' /\ store'[conns'[i].active] = conns'[i].rotated
         /\ now' - conns'[i].rotated <= RotateEvery
         /\ conns'[i].next # NoKey =>
               conns'[i].next \in DOMAIN store' /\ store'[conns'[i].next] = now'
<1>0. /\ now \in Nat /\ RotateEvery \in Nat /\ MaxKeyAge \in Nat /\ Overlap \in Nat
      /\ RotateEvery + Overlap <= MaxKeyAge /\ issued + 1 # NoKey
  BY MediaConstants, Bounds
<1>1. CASE Registers /\ conns'[i] = Registered
  <2>1. now' = now /\ store' = Generated(store)
    BY <1>1 DEF Registers
  <2>2. issued + 1 \in DOMAIN store' /\ store'[issued + 1] = now
    BY <2>1 DEF Generated
  <2> QED
    BY <2>1, <2>2, <1>0, <1>1 DEF Registered
<1>2. CASE i \in OpenConns /\ ~ConnectionEnds(i)
  <2> DEFINE a == conns[i].active
             n == conns[i].next
  <2>1. i \in DOMAIN conns /\ a \in conns[i].keys /\ conns[i].rotated \in 0..now
    BY <1>2, Bounds DEF OpenConns, Owned, ConnKeys
  <2>2. /\ a \in DOMAIN store /\ store[a] = conns[i].rotated /\ now - conns[i].rotated <= RotateEvery
        /\ n # NoKey => n \in DOMAIN store /\ store[n] = now
    BY <1>2 DEF Timely
  <2>3. \A d \in doomed : d.key # a /\ d.key # n
    BY <2>1 DEF Owned, DoomedOnce
  <2>4. a \in DOMAIN store' /\ store'[a] = store[a]
    <3>1. now - store[a] <= MaxKeyAge
      BY <2>1, <2>2, <1>0
    <3> QED
      BY <3>1, <2>1, <2>2, <2>3, <1>2, KeyKept
  <2>5. n # NoKey => n \in DOMAIN store' /\ store'[n] = store[n]
    <3>1. n # NoKey => now - store[n] <= MaxKeyAge
      BY <2>2, <1>0
    <3> QED
      BY <3>1, <2>1, <2>2, <2>3, <1>2, KeyKept
  <2>6. CASE now' # now
    <3>1. ~Due /\ now' = now + 1 /\ conns' = conns
      BY <2>6, Ticks
    <3>2. n = NoKey /\ now + 1 - conns[i].rotated <= RotateEvery
      BY <3>1, <1>2, DueMeans
    <3>3. conns'[i].active = a /\ conns'[i].rotated = conns[i].rotated /\ conns'[i].next = n
      BY <3>1
    <3>4. store'[a] = conns[i].rotated /\ now' - conns[i].rotated <= RotateEvery
      BY <3>1, <3>2, <2>1, <2>2, <2>4, <1>0
    <3> QED
      BY <3>2, <3>3, <3>4, <2>4
  <2>7. CASE now' = now /\ (Stays(i) \/ Receives(i))
    BY <2>2, <2>4, <2>5, <2>7 DEF Stays, Receives
  <2>8. CASE now' = now /\ IsOffered(i)
    <3>1. store' = Generated(store)
      BY <2>8 DEF IsOffered, Rotate
    <3>2. issued + 1 \in DOMAIN store' /\ store'[issued + 1] = now
      BY <3>1 DEF Generated
    <3> QED
      BY <3>2, <2>2, <2>4, <2>8 DEF IsOffered
  <2>9. CASE now' = now /\ IsSwitched(i)
    <3>1. n # NoKey
      BY <2>9 DEF IsSwitched, Rotated
    <3> QED
      BY <3>1, <2>2, <2>5, <2>9, <1>0 DEF IsSwitched
  <2> QED
    BY <1>2, <2>6, <2>7, <2>8, <2>9, <2>1, OpenConnSteps
<1> QED
  BY <1>1, <1>2, OpenConnSteps

LEMMA TimelyDoomed ==
  ASSUME Typed, Owned, Timely, [Next]_vars, NEW d \in doomed'
  PROVE  /\ now' <= d.at /\ d.at <= now' + Overlap
         /\ \A i \in OpenConns' : d.key \in conns'[i].keys =>
               d.key \in DOMAIN store' /\ d.at <= store'[d.key] + RotateEvery + Overlap
<1>0. /\ now \in Nat /\ RotateEvery \in Nat /\ MaxKeyAge \in Nat /\ Overlap \in Nat
      /\ RotateEvery + Overlap <= MaxKeyAge
      /\ \A k \in DOMAIN store : store[k] \in Nat
  BY MediaConstants, Bounds DEF Typed, TypeOK
<1>1. CASE d \in doomed
  <2>0. d.at \in Nat /\ d.key \in 0..issued /\ issued \in Nat
    BY <1>1, Bounds
  <2>1. now <= d.at /\ d.at <= now + Overlap
    BY <1>1 DEF Timely
  <2>2. now' <= d.at /\ d.at <= now' + Overlap
    <3>1. CASE now' # now
      BY <3>1, <1>0, <1>1, <2>0, <2>1, Ticks, DueMeans
    <3> QED
      BY <3>1, <2>1
  <2>3. ASSUME NEW i \in OpenConns', d.key \in conns'[i].keys
        PROVE  d.key \in DOMAIN store' /\ d.at <= store'[d.key] + RotateEvery + Overlap
    <3>1. ~(Registers /\ conns'[i] = Registered)
      <4>1. Registered.keys = {issued + 1} /\ d.key # issued + 1
        BY <2>0 DEF Registered
      <4> QED
        BY <4>1, <2>3
    <3>2. i \in OpenConns /\ ~ConnectionEnds(i) /\ (Stays(i) \/ IsOffered(i) \/ IsSwitched(i) \/ Receives(i))
      BY <3>1, OpenConnSteps
    <3>3. i \in DOMAIN conns
      BY <3>2 DEF OpenConns
    <3>4. d.key \in conns[i].keys
      <4>1. d.key # conns[i].next
        BY <1>1, <3>3 DEF Owned, DoomedOnce
      <4> QED
        BY <4>1, <3>2, <2>3 DEF Stays, IsOffered, IsSwitched, Receives
    <3>5. d.key \in DOMAIN store /\ d.at <= store[d.key] + RotateEvery + Overlap
      BY <1>1, <3>2, <3>4 DEF Timely
    <3>6. now - store[d.key] <= MaxKeyAge
      <4>1. store[d.key] \in Nat
        BY <3>5, <1>0
      <4> QED
        BY <4>1, <3>5, <2>0, <2>1, <1>0
    <3>7. ASSUME NEW e \in doomed, d.key = e.key, doomed' = doomed \ {e}
          PROVE  FALSE
      BY <3>7, <1>1 DEF Owned, DoomedOnce
    <3>8. d.key \in DOMAIN store' /\ store'[d.key] = store[d.key]
      BY <3>2, <3>3, <3>4, <3>5, <3>6, <3>7, KeyKept
    <3> QED
      BY <3>5, <3>8
  <2> QED
    BY <2>2, <2>3
<1>2. CASE d \notin doomed
  <2>1. PICK j \in DOMAIN conns : Rotated(j)
    BY <1>2, DoomedSteps
  <2>2. /\ now' = now /\ store' = store /\ d.key = conns[j].active /\ d.at = now + Overlap
        /\ conns[j].open
    BY <2>1, <1>2 DEF Rotated
  <2>3. j \in OpenConns
    BY <2>2 DEF OpenConns
  <2>4. /\ conns[j].active \in DOMAIN store /\ store[conns[j].active] = conns[j].rotated
        /\ now - conns[j].rotated <= RotateEvery
    BY <2>3 DEF Timely
  <2>5. conns[j].rotated \in Nat
    BY <2>1, Bounds
  <2> QED
    BY <2>2, <2>4, <2>5, <1>0
<1> QED
  BY <1>1, <1>2

LEMMA TimelyKept ==
  ASSUME Typed, Owned, Timely, [Next]_vars
  PROVE  Timely'
BY TimelyConns, TimelyDoomed DEF Timely

-----------------------------------------------------------------------------
LastsThen(i, k, t) == \/ k = conns'[i].active
                      \/ \E d \in doomed' : d.key = k /\ d.at >= t + Overlap

LEMMA LastsKept ==
  ASSUME Typed, [Next]_vars, NEW i \in OpenConns, i \in OpenConns', NEW k \in conns[i].keys,
         NEW t \in Nat, t <= now, Lasts(i, k, t)
  PROVE  LastsThen(i, k, t) \/ now >= t + Overlap
<1>0. now \in Nat /\ Overlap \in Nat /\ \A d \in doomed : d.at \in Nat
  BY MediaConstants, Bounds
<1>1. i \in DOMAIN conns /\ (Stays(i) \/ IsOffered(i) \/ IsSwitched(i) \/ Receives(i))
  BY OpenConnSteps DEF OpenConns
<1>2. CASE k = conns[i].active
  <2>1. CASE IsSwitched(i)
    <3>1. [key |-> k, at |-> now + Overlap] \in doomed'
      BY <2>1, <1>2 DEF IsSwitched, Rotated
    <3> QED
      BY <3>1, <1>0 DEF LastsThen
  <2>2. CASE Stays(i) \/ IsOffered(i) \/ Receives(i)
    BY <2>2, <1>2 DEF Stays, IsOffered, Receives, LastsThen
  <2> QED
    BY <2>1, <2>2, <1>1
<1>3. ASSUME NEW d \in doomed, d.key = k, d.at >= t + Overlap
      PROVE  LastsThen(i, k, t) \/ now >= t + Overlap
  <2>1. CASE d \in doomed'
    BY <2>1, <1>3 DEF LastsThen
  <2>2. CASE d \notin doomed'
    <3>1. d.at <= now
      BY <2>2, DoomedSteps DEF Rotated
    <3> QED
      BY <3>1, <1>0, <1>3
  <2> QED
    BY <2>1, <2>2
<1> QED
  BY <1>2, <1>3 DEF Lasts

LEMMA FetchesKept ==
  ASSUME Typed, Owned, ProxyCurrent, FetchesLast, [Next]_vars
  PROVE  FetchesLast'
<1>0. /\ now \in Nat /\ now' \in Nat /\ now <= now' /\ Overlap \in Nat /\ UrlTtl \in Nat
      /\ proxy.key \in 0..issued /\ issued \in Nat
      /\ \A f \in Fetchers : fetch[f].at \in 0..now /\ fetch[f].key \in 0..issued
  <2>1. now \in Nat /\ issued \in Nat /\ proxy.key \in 0..issued
    BY DEF Typed, TypeOK, Keys
  <2>2. \A f \in Fetchers : fetch[f].at \in 0..now /\ fetch[f].key \in 0..issued
    BY DEF Typed, TypeOK, Keys
  <2>3. Overlap \in Nat /\ UrlTtl \in Nat
    BY MediaConstants
  <2>4. now' \in Nat /\ now <= now'
    BY <2>1, TimesGrow
  <2> QED
    BY <2>1, <2>2, <2>3, <2>4
<1>1. SUFFICES ASSUME NEW f \in Fetchers, fetch'[f].pc # "idle"
               PROVE  /\ fetch'[f].exp = fetch'[f].at + UrlTtl
                      /\ \A i \in OpenConns' : fetch'[f].key \in conns'[i].keys =>
                            \/ now' >= fetch'[f].at + Overlap
                            \/ LastsThen(i, fetch'[f].key, fetch'[f].at)
  BY DEF FetchesLast, Lasts, LastsThen
<1>2. CASE /\ fetch'[f].key = proxy.key /\ fetch'[f].at = now /\ fetch'[f].exp = now + UrlTtl
           /\ conns' = conns /\ doomed' = doomed
  <2>1. ASSUME NEW i \in OpenConns', proxy.key \in conns'[i].keys
        PROVE  LastsThen(i, proxy.key, now)
    BY <1>2, <2>1 DEF OpenConns, ProxyCurrent, Lasts, LastsThen
  <2> QED
    BY <1>2, <2>1
<1>3. CASE /\ fetch[f].pc # "idle" /\ fetch'[f].key = fetch[f].key /\ fetch'[f].at = fetch[f].at
           /\ fetch'[f].exp = fetch[f].exp
  <2>1. ASSUME NEW i \in OpenConns', fetch[f].key \in conns'[i].keys
        PROVE  now' >= fetch[f].at + Overlap \/ LastsThen(i, fetch[f].key, fetch[f].at)
    <3>1. CASE Registers /\ conns'[i] = Registered
      <4>1. fetch[f].key = issued + 1
        BY <2>1, <3>1 DEF Registered
      <4> QED
        BY <4>1, <1>0
    <3>2. CASE IsSwitched(i) /\ fetch[f].key = conns[i].next
      BY <3>2 DEF IsSwitched, LastsThen
    <3>3. CASE i \in OpenConns /\ fetch[f].key \in conns[i].keys
      <4>1. now >= fetch[f].at + Overlap \/ Lasts(i, fetch[f].key, fetch[f].at)
        BY <3>3, <1>3 DEF FetchesLast
      <4>2. fetch[f].at \in Nat /\ fetch[f].at <= now
        BY <1>0
      <4>3. now >= fetch[f].at + Overlap \/ LastsThen(i, fetch[f].key, fetch[f].at)
        BY <4>1, <4>2, <3>3, LastsKept
      <4> QED
        BY <4>2, <4>3, <1>0
    <3> QED
      BY <2>1, <3>1, <3>2, <3>3, OpenConnSteps DEF Stays, IsOffered, IsSwitched, Receives
  <2> QED
    BY <2>1, <1>3 DEF FetchesLast
<1>4. fetch'[f] # NoFetch
  BY <1>1 DEF NoFetch
<1> QED
  BY <1>1, <1>2, <1>3, <1>4, FetchSteps

LEMMA Tails ==
  ASSUME NEW q \in Seq(Nat), q # <<>>
  PROVE  /\ Tail(q) # q
         /\ \A n \in DOMAIN Tail(q) : n + 1 \in DOMAIN q /\ Tail(q)[n] = q[n + 1]
         /\ Tail(q) # <<>> => Tail(q)[Len(Tail(q))] = q[Len(q)]
         /\ Tail(q) = <<>> => Head(q) = q[Len(q)]
<1>1. /\ Len(q) \in Nat \ {0} /\ DOMAIN q = 1..Len(q) /\ Head(q) = q[1]
  BY EmptySeq
<1>2. /\ Tail(q) \in Seq(Nat) /\ Len(Tail(q)) = Len(q) - 1
      /\ \A n \in 1..(Len(q) - 1) : Tail(q)[n] = q[n + 1]
  BY <1>1
<1>3. DOMAIN Tail(q) = 1..(Len(q) - 1)
  BY <1>1, <1>2
<1>4. Tail(q) # q
  <2>1. SUFFICES ASSUME Tail(q) = q PROVE FALSE
    OBVIOUS
  <2>2. Len(q) = Len(q) - 1
    BY <2>1, <1>2, Zenon
  <2> QED
    BY <2>2, <1>1
<1>5. Tail(q) # <<>> => Len(q) - 1 \in 1..(Len(q) - 1)
  <2>1. Tail(q) # <<>> => Len(Tail(q)) # 0
    BY <1>2, EmptySeq
  <2> QED
    BY <2>1, <1>1, <1>2
<1>6. Tail(q) = <<>> => Len(q) = 1
  <2>1. Tail(q) = <<>> => Len(Tail(q)) = 0
    BY EmptySeq
  <2> QED
    BY <2>1, <1>1, <1>2
<1>7. ASSUME NEW n \in DOMAIN Tail(q)
      PROVE  n + 1 \in DOMAIN q /\ Tail(q)[n] = q[n + 1]
  BY <1>1, <1>2, <1>3
<1>8. Tail(q) # <<>> => Tail(q)[Len(Tail(q))] = q[Len(q)]
  <2> DEFINE n == Len(q) - 1
  <2>1. SUFFICES ASSUME Tail(q) # <<>> PROVE Tail(q)[n] = q[Len(q)]
    BY <1>2
  <2>2. Tail(q)[n] = q[n + 1] /\ n + 1 = Len(q)
    BY <2>1, <1>1, <1>2, <1>5
  <2> QED
    BY <2>2
<1>9. Tail(q) = <<>> => Head(q) = q[Len(q)]
  BY <1>1, <1>6
<1> QED
  BY <1>4, <1>7, <1>8, <1>9, Zenon

LEMMA ProxyKept ==
  ASSUME Typed, Owned, ProxyCurrent, [Next]_vars
  PROVE  ProxyCurrent'
<1>0. /\ now \in Nat /\ issued \in Nat /\ proxy.key \in 0..issued /\ Overlap \in Nat \ {0}
  BY MediaConstants DEF Typed, TypeOK, Keys
<1>1. SUFFICES ASSUME NEW i \in OpenConns'
               PROVE  /\ proxy'.key \in conns'[i].keys => LastsThen(i, proxy'.key, now')
                      /\ \A n \in DOMAIN conns'[i].acks :
                            /\ conns'[i].acks[n] \in conns'[i].keys
                            /\ LastsThen(i, conns'[i].acks[n], now')
                      /\ conns'[i].acks # <<>> =>
                            conns'[i].acks[Len(conns'[i].acks)] = conns'[i].active
                      /\ conns'[i].acks = <<>> /\ link' = i => proxy'.key = conns'[i].active
  BY DEF ProxyCurrent, Lasts, LastsThen
<1>2. CASE now' # now
  <2>1. /\ ~Due /\ now' = now + 1 /\ conns' = conns /\ doomed' = doomed /\ proxy' = proxy
        /\ link' = link
    BY <1>2, Ticks
  <2>2. i \in OpenConns
    BY <2>1 DEF OpenConns
  <2>3. link = i /\ conns[i].acks = <<>>
    BY <2>1, <2>2, DueMeans
  <2>4. proxy.key = conns[i].active
    BY <2>2, <2>3 DEF ProxyCurrent
  <2> QED
    BY <2>1, <2>3, <2>4 DEF LastsThen
<1>3. CASE now' = now /\ Registers /\ i = Len(conns) + 1 /\ conns'[i] = Registered
  <2>1. /\ Registered.keys = {issued + 1} /\ Registered.active = issued + 1
        /\ Registered.acks = <<issued + 1>>
    BY DEF Registered
  <2>2. proxy' = proxy /\ proxy.key # issued + 1
    BY <1>3, <1>0 DEF Registers
  <2>3. DOMAIN <<issued + 1>> = {1} /\ Len(<<issued + 1>>) = 1 /\ <<issued + 1>>[1] = issued + 1
        /\ <<issued + 1>> # <<>>
    OBVIOUS
  <2>4. LastsThen(i, issued + 1, now')
    BY <2>1, <1>3 DEF LastsThen
  <2> QED
    BY <2>1, <2>2, <2>3, <2>4, <1>3
<1>4. CASE now' = now /\ i \in OpenConns /\ (Stays(i) \/ IsOffered(i) \/ IsSwitched(i) \/ Receives(i))
  <2>0. /\ i \in DOMAIN conns /\ conns[i].acks \in Seq(Nat) /\ conns[i].next \in Nat
        /\ conns[i].active \in conns[i].keys
    BY <1>4, Bounds DEF OpenConns, Owned, ConnKeys, ConnOf
  <2>1. ASSUME NEW k \in conns[i].keys, Lasts(i, k, now)
        PROVE  LastsThen(i, k, now) /\ k \in conns'[i].keys
    <3>1. ~(now >= now + Overlap)
      BY <1>0
    <3>2. LastsThen(i, k, now)
      BY <3>1, <2>1, <1>0, <1>4, LastsKept
    <3>3. k \in conns'[i].keys
      BY <1>4 DEF Stays, IsOffered, IsSwitched, Receives
    <3> QED
      BY <3>2, <3>3
  <2>2. /\ proxy.key \in conns[i].keys => LastsThen(i, proxy.key, now)
        /\ \A n \in DOMAIN conns[i].acks : /\ conns[i].acks[n] \in conns'[i].keys
                                           /\ LastsThen(i, conns[i].acks[n], now)
        /\ conns[i].acks # <<>> => conns[i].acks[Len(conns[i].acks)] = conns[i].active
        /\ conns[i].acks = <<>> /\ link = i => proxy.key = conns[i].active
    BY <2>1, <1>4 DEF ProxyCurrent
  <2>3. CASE Receives(i)
    <3> DEFINE q == conns[i].acks
    <3>1. /\ q # <<>> /\ proxy'.key = Head(q) /\ conns'[i].acks = Tail(q)
          /\ conns'[i].active = conns[i].active /\ q \in Seq(Nat)
      BY <2>0, <2>3 DEF Receives, ReceiveAck
    <3>2. Head(q) = q[1] /\ 1 \in DOMAIN q
      BY <3>1
    <3>3. \A n \in DOMAIN Tail(q) : n + 1 \in DOMAIN q /\ Tail(q)[n] = q[n + 1]
      BY <3>1, Tails
    <3>4. Tail(q) # <<>> => Tail(q)[Len(Tail(q))] = q[Len(q)]
      BY <3>1, Tails
    <3>5. Tail(q) = <<>> => Head(q) = q[Len(q)]
      BY <3>1, Tails
    <3> HIDE DEF q
    <3>7. LastsThen(i, Head(q), now) /\ q[Len(q)] = conns[i].active
      BY <3>1, <3>2, <2>2 DEF q
    <3>8. \A n \in DOMAIN Tail(q) : Tail(q)[n] \in conns'[i].keys /\ LastsThen(i, Tail(q)[n], now)
      BY <3>3, <2>2 DEF q
    <3> QED
      BY <1>4, <3>1, <3>4, <3>5, <3>7, <3>8
  <2>4. CASE IsSwitched(i)
    <3> DEFINE q == conns[i].acks
    <3>1. /\ conns'[i].acks = Append(q, conns[i].next) /\ conns'[i].active = conns[i].next
          /\ conns'[i].keys = conns[i].keys \cup {conns[i].next} /\ proxy' = proxy /\ q \in Seq(Nat)
      BY <2>0, <2>4 DEF IsSwitched, Rotated
    <3>2. /\ DOMAIN Append(q, conns[i].next) = DOMAIN q \cup {Len(q) + 1}
          /\ Len(Append(q, conns[i].next)) = Len(q) + 1
          /\ Append(q, conns[i].next)[Len(q) + 1] = conns[i].next
          /\ \A n \in DOMAIN q : Append(q, conns[i].next)[n] = q[n]
          /\ Append(q, conns[i].next) # <<>>
      BY <3>1, <2>0
    <3>3. LastsThen(i, conns[i].next, now)
      BY <3>1 DEF LastsThen
    <3> HIDE DEF q
    <3>4. \A n \in DOMAIN q : q[n] \in conns'[i].keys /\ LastsThen(i, q[n], now)
      BY <2>2 DEF q
    <3> QED
      BY <1>4, <2>2, <3>1, <3>2, <3>3, <3>4
  <2>5. CASE Stays(i) \/ IsOffered(i)
    <3>1. conns'[i].acks = conns[i].acks /\ conns'[i].keys = conns[i].keys /\ conns'[i].active = conns[i].active
      BY <2>5 DEF Stays, IsOffered
    <3>2. CASE proxy' = proxy /\ link' \in {link, 0}
      <4>1. i # 0
        BY <2>0 DEF Typed
      <4> QED
        BY <4>1, <3>1, <3>2, <2>2, <1>4
    <3>3. CASE Registers
      <4>1. link' # i /\ proxy' = proxy
        BY <3>3, <2>0 DEF Registers, Typed
      <4> QED
        BY <4>1, <3>1, <2>2, <1>4
    <3>4. CASE ReceiveAck /\ Stays(i)
      <4>1. link \in DOMAIN conns /\ conns[link] \in ConnOf(Nat, Nat) /\ conns[link].acks # <<>>
        BY <3>4, ReceivedConns, Bounds DEF ReceiveAck
      <4>2. conns'[link] = Received(conns[link]) /\ Received(conns[link]).acks = Tail(conns[link].acks)
        BY <4>1, <3>4, ReceivedConns, ConnFields
      <4>3. Tail(conns[link].acks) # conns[link].acks
        BY <4>1, Bounds, Tails
      <4>4. link # i /\ link' = link
        BY <3>4, <4>2, <4>3 DEF Stays, ReceiveAck
      <4>5. proxy'.key \notin conns[i].keys
        <5>1. conns[link].open
          BY <4>1 DEF Owned, ConnKeys
        <5>2. link \in OpenConns
          BY <4>1, <5>1 DEF OpenConns
        <5>3. proxy'.key = Head(conns[link].acks)
          BY <3>4 DEF ReceiveAck
        <5>4. Head(conns[link].acks) = conns[link].acks[1] /\ 1 \in DOMAIN conns[link].acks
          <6>1. conns[link].acks \in Seq(Nat)
            BY <4>1, Bounds
          <6> QED
            BY <6>1, <4>1
        <5>5. proxy'.key \in conns[link].keys
          BY <5>2, <5>3, <5>4 DEF ProxyCurrent
        <5> QED
          BY <4>1, <4>4, <5>5, <2>0 DEF Owned, Disjoint
      <4> QED
        BY <3>1, <4>4, <4>5, <2>2, <1>4
    <3>5. (proxy' = proxy /\ link' \in {link, 0}) \/ Registers \/ ReceiveAck
      BY DEF Next, vars, Server, Node, Client, Cleanup, OverlapEnds, nodeVars, Rotate, Rotated,
         ConnectionEnds, SessionEnds, RefreshRequested, Fetch, Proxy, Probe, ProbeUnanswered,
         Renewed, WaitTimeout, ProbeAgain, OpenSession, CloseSession, SignUrls, Get, Tick
    <3>6. ReceiveAck => Stays(i) \/ (proxy' = proxy /\ link' \in {link, 0})
      <4>1. ASSUME ReceiveAck, IsOffered(i)
            PROVE  FALSE
        <5>1. issued' = issued /\ issued' = issued + 1
          BY <4>1 DEF ReceiveAck, IsOffered, Rotate
        <5> QED
          BY <5>1, <1>0
      <4> QED
        BY <4>1, <2>5
    <3> QED
      BY <3>2, <3>3, <3>4, <3>5, <3>6
  <2> QED
    BY <1>4, <2>3, <2>4, <2>5
<1> QED
  BY <1>2, <1>3, <1>4, OpenConnSteps

\* A redirect with a key of a connection that is still open is accepted for the length of
\* the overlap, whenever the key was rotated.
THEOREM RedirectsAreAccepted == Spec => []RedirectsLast
<1> DEFINE Inv == Typed /\ Owned /\ Timely /\ ProxyCurrent /\ FetchesLast
<1>1. Init => Inv
  <2>1. Init => Timely /\ ProxyCurrent
    BY DEF Init, Timely, ProxyCurrent, OpenConns
  <2>2. Init => FetchesLast
    BY DEF Init, FetchesLast, NoFetch
  <2> QED
    BY <2>1, <2>2, InitTyped, InitOwned
<1>2. Inv /\ [Next]_vars => Inv'
  BY NextTyped, NextOwned, TimelyKept, ProxyKept, FetchesKept
<1>3. Inv => RedirectsLast
  <2> SUFFICES ASSUME Inv, NEW f \in Fetchers, fetch[f].pc = "redirected",
                      now < fetch[f].at + Overlap,
                      NEW i \in OpenConns, fetch[f].key \in conns[i].keys
               PROVE  Accepted(fetch[f])
    BY DEF RedirectsLast
  <2>1. now \in Nat /\ fetch[f].at \in Nat /\ Overlap \in Nat /\ UrlTtl \in Nat /\ Overlap <= UrlTtl
    BY MediaConstants DEF Typed, TypeOK
  <2>2. fetch[f].exp = fetch[f].at + UrlTtl /\ Lasts(i, fetch[f].key, fetch[f].at)
    BY <2>1 DEF FetchesLast
  <2>3. fetch[f].key \in DOMAIN store
    BY <2>2 DEF Lasts, Timely
  <2> QED
    BY <2>1, <2>2, <2>3 DEF Accepted
<1> QED
  BY <1>1, <1>2, <1>3, PTL DEF Spec
=============================================================================
