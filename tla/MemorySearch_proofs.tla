-------------------------- MODULE MemorySearch_proofs --------------------------
(***************************************************************************)
(* Theorems about the records, their ratings and those who read them, for  *)
(* any sets of chunks, writers and readers and any bounds: types, that the *)
(* counts of a record are those of its ratings, that searches honour the   *)
(* tombstones they read, and that a snapshot with dangling links says so.  *)
(*                                                                         *)
(* The invariant bounds what a record, and what a writer holds of it, says *)
(* of its downs: with the downs still in flight it never exceeds the rows  *)
(* of memory_feedback, however the writers overlap (Below).                *)
(***************************************************************************)
EXTENDS MemorySearch, TLAPS, FiniteSetTheorems

Downs(c) == ratings[c]["down"]

Pending(c, r) == Cardinality(InFlight(c, r))

\* What a state of a record says of downs, given their number and those in flight.
Below(state, downs, pending) ==
  /\ state.summary["down"] + pending <= downs
  /\ state.status = "stale" => downs >= 2

Has(step) == step \in {"chunk link", "conversation link", "read", "write"}

WritersOK ==
  \A w \in Writers :
    /\ work[w].step # "idle" => work[w].chunk \in Chunks
    /\ Has(work[w].step) => records[work[w].chunk] # None
    /\ work[w].step \in {"read", "write"} => work[w].rating \in Ratings
    /\ work[w].step = "write" =>
         /\ work[w].held \in RecordStates
         /\ \A c \in Chunks :
              work[w].chunk = c => Below(work[w].held, Downs(c), Pending(c, "down"))

Exact(c) == \A r \in Ratings : ratings[c][r] = records[c].summary[r] + Pending(c, r)

RatingsOK ==
  \A c \in Chunks :
    /\ records[c] = None => /\ ratings[c] = Unrated
                            /\ \A r \in Ratings : InFlight(c, r) = {}
    /\ records[c] # None => /\ Below(records[c], Downs(c), Pending(c, "down"))
                            /\ c \in disturbed \/ Exact(c)

LinksOK == \A link \in links : records[link[1]] # None

RecordsInv ==
  /\ RecordsTypeOK
  /\ WritersOK
  /\ RatingsOK
  /\ LinksOK

-------------------------------------------------------------------------------
(* The ratings in flight.                                                  *)

LEMMA PendingIsNat ==
  ASSUME NEW c, NEW r
  PROVE  /\ InFlight(c, r) \in SUBSET Writers
         /\ IsFiniteSet(InFlight(c, r))
         /\ Pending(c, r) \in Nat
<1>1. InFlight(c, r) \in SUBSET Writers BY DEF InFlight
<1>2. IsFiniteSet(Writers) BY RecordsAssumption
<1> QED BY <1>1, <1>2, FS_Subset, FS_CardinalityType DEF Pending

LEMMA PendingNext ==
  ASSUME NEW c, NEW r
  PROVE  Pending(c, r)' \in Nat
<1>1. InFlight(c, r)' \in SUBSET Writers BY DEF InFlight
<1>2. IsFiniteSet(Writers) BY RecordsAssumption
<1> QED BY <1>1, <1>2, FS_Subset, FS_CardinalityType DEF Pending

\* A writer that goes on with the same rating, or with none.
LEMMA PendingStays ==
  ASSUME RecordsTypeOK, NEW w \in Writers, NEW s, work' = [work EXCEPT ![w] = s],
         \/ work[w].step \notin {"read", "write"} /\ s.step \notin {"read", "write"}
         \/ /\ work[w].step \in {"read", "write"} /\ s.step \in {"read", "write"}
            /\ s.chunk = work[w].chunk /\ s.rating = work[w].rating
  PROVE  \A c, r : InFlight(c, r)' = InFlight(c, r)
<1> SUFFICES ASSUME NEW c, NEW r PROVE InFlight(c, r)' = InFlight(c, r)
  OBVIOUS
<1>1. work'[w] = s /\ \A v \in Writers \ {w} : work'[v] = work[v]
  BY DEF RecordsTypeOK
<1>2. \A v \in Writers : v \in InFlight(c, r)' <=> v \in InFlight(c, r)
  BY <1>1 DEF InFlight
<1> QED BY <1>2 DEF InFlight

LEMMA PendingEnters ==
  ASSUME NEW w \in Writers, \A v \in Writers \ {w} : work'[v] = work[v],
         work[w].step = "idle", work'[w].step = "read",
         NEW c, NEW r
  PROVE  /\ work'[w].chunk = c /\ work'[w].rating = r => Pending(c, r)' = Pending(c, r) + 1
         /\ work'[w].chunk # c \/ work'[w].rating # r => Pending(c, r)' = Pending(c, r)
<1>1. w \notin InFlight(c, r) BY DEF InFlight
<1>2. CASE work'[w].chunk = c /\ work'[w].rating = r
  <2>1. InFlight(c, r)' = InFlight(c, r) \union {w} BY <1>2 DEF InFlight
  <2>2. Cardinality(InFlight(c, r) \union {w}) = Cardinality(InFlight(c, r)) + 1
    BY <1>1, PendingIsNat, FS_AddElement
  <2> QED BY <1>2, <2>1, <2>2 DEF Pending
<1>3. CASE work'[w].chunk # c \/ work'[w].rating # r
  <2>1. InFlight(c, r)' = InFlight(c, r) BY <1>1, <1>3 DEF InFlight
  <2> QED BY <1>3, <2>1 DEF Pending
<1> QED BY <1>2, <1>3

LEMMA PendingLeaves ==
  ASSUME RecordsTypeOK, NEW w \in Writers, NEW s, work' = [work EXCEPT ![w] = s],
         s.step \notin {"read", "write"},
         NEW c, NEW r
  PROVE  /\ InFlight(c, r)' = InFlight(c, r) \ {w}
         /\ Pending(c, r)' = IF w \in InFlight(c, r) THEN Pending(c, r) - 1 ELSE Pending(c, r)
<1>1. work'[w] = s /\ \A v \in Writers \ {w} : work'[v] = work[v]
  BY DEF RecordsTypeOK
<1>2. InFlight(c, r)' = InFlight(c, r) \ {w} BY <1>1 DEF InFlight
<1>3. CASE w \in InFlight(c, r)
  BY <1>2, <1>3, PendingIsNat, FS_RemoveElement DEF Pending
<1>4. CASE w \notin InFlight(c, r)
  <2>1. InFlight(c, r) \ {w} = InFlight(c, r) BY <1>4
  <2> QED BY <1>2, <1>4, <2>1 DEF Pending
<1> QED BY <1>2, <1>3, <1>4

\* More rows, or fewer in flight, leave a bound in place.
LEMMA BelowStays ==
  ASSUME NEW state \in RecordStates, NEW a \in Nat, NEW b \in Nat, NEW m \in Nat, NEW n \in Nat,
         Below(state, a, m), a <= b, n + a <= m + b
  PROVE  Below(state, b, n)
<1>1. state.summary["down"] \in Nat BY DEF RecordStates, Ratings
<1> QED BY <1>1 DEF Below

-------------------------------------------------------------------------------
(* Steps of writers.                                                       *)

WorkStates == [step   : Steps,
               chunk  : Chunks \union {None},
               rating : Ratings \union {None},
               held   : RecordStates \union {None}]

\* Records stay, and downs grow at least as the downs in flight do.
Grows ==
  \A c \in Chunks :
    /\ records[c] # None => records'[c] # None
    /\ Downs(c)' \in Nat
    /\ Downs(c) <= Downs(c)'
    /\ Pending(c, "down")' + Downs(c) <= Pending(c, "down") + Downs(c)'

LEMMA WritersStay ==
  ASSUME RecordsInv, NEW w \in Writers, NEW s, work' = [work EXCEPT ![w] = s],
         s \in WorkStates, Grows,
         s.step # "idle" => s.chunk \in Chunks,
         Has(s.step) => records'[s.chunk] # None,
         s.step \in {"read", "write"} => s.rating \in Ratings,
         s.step = "write" =>
           /\ s.held \in RecordStates
           /\ \A c \in Chunks : s.chunk = c => Below(s.held, Downs(c)', Pending(c, "down")')
  PROVE  WritersOK'
<1>1. work'[w] = s /\ \A v \in Writers \ {w} : work'[v] = work[v]
  BY DEF RecordsInv, RecordsTypeOK
<1>2. SUFFICES ASSUME NEW v \in Writers
               PROVE  /\ work'[v].step # "idle" => work'[v].chunk \in Chunks
                      /\ Has(work'[v].step) => records'[work'[v].chunk] # None
                      /\ work'[v].step \in {"read", "write"} => work'[v].rating \in Ratings
                      /\ work'[v].step = "write" =>
                           /\ work'[v].held \in RecordStates
                           /\ \A c \in Chunks : work'[v].chunk = c =>
                                Below(work'[v].held, Downs(c)', Pending(c, "down")')
  BY DEF WritersOK
<1>3. CASE v = w
  <2>1. work'[v] = s BY <1>1, <1>3
  <2> QED BY <2>1
<1>4. CASE v # w
  <2>1. work'[v] = work[v] BY <1>1, <1>4
  <2>2. /\ work[v].step # "idle" => work[v].chunk \in Chunks
        /\ Has(work[v].step) => records[work[v].chunk] # None
        /\ work[v].step \in {"read", "write"} => work[v].rating \in Ratings
        /\ work[v].step = "write" =>
             /\ work[v].held \in RecordStates
             /\ \A c \in Chunks :
                  work[v].chunk = c => Below(work[v].held, Downs(c), Pending(c, "down"))
    BY DEF RecordsInv, WritersOK
  <2>3. Has(work[v].step) => records'[work[v].chunk] # None
    BY <2>2 DEF Grows, Has
  <2>4. ASSUME work[v].step = "write", NEW c \in Chunks, work[v].chunk = c
        PROVE  Below(work[v].held, Downs(c)', Pending(c, "down")')
    <3>1. work[v].held \in RecordStates /\ Below(work[v].held, Downs(c), Pending(c, "down"))
      BY <2>2, <2>4
    <3>2. Downs(c) \in Nat /\ Pending(c, "down") \in Nat
      BY PendingIsNat DEF RecordsInv, RecordsTypeOK, Downs, Ratings
    <3>3. Pending(c, "down")' \in Nat
      BY PendingNext
    <3> QED BY <3>1, <3>2, <3>3, BelowStays DEF Grows
  <2> QED BY <2>1, <2>2, <2>3, <2>4
<1> QED BY <1>3, <1>4

\* A writer whose ratings in flight are those of before, and who writes no record.
LEMMA QuietStep ==
  ASSUME RecordsInv, NEW w \in Writers, NEW s, work' = [work EXCEPT ![w] = s],
         s \in WorkStates,
         \A c, r : InFlight(c, r)' = InFlight(c, r),
         UNCHANGED <<records, ratings>>,
         disturbed \subseteq disturbed', disturbed' \subseteq Chunks,
         s.step # "idle" => s.chunk \in Chunks,
         Has(s.step) => records[s.chunk] # None,
         s.step \in {"read", "write"} => s.rating \in Ratings,
         s.step = "write" =>
           /\ s.held \in RecordStates
           /\ \A c \in Chunks : s.chunk = c => Below(s.held, Downs(c), Pending(c, "down"))
  PROVE  WritersOK' /\ RatingsOK'
<1>1. \A c \in Chunks : /\ Downs(c)' = Downs(c)
                        /\ \A r : Pending(c, r)' = Pending(c, r)
  BY DEF Downs, Pending
<1>2. \A c \in Chunks : Downs(c) \in Nat /\ Pending(c, "down") \in Nat
  BY PendingIsNat DEF RecordsInv, RecordsTypeOK, Downs, Ratings
<1>3. Grows BY <1>1, <1>2 DEF Grows
<1>4. WritersOK' BY <1>1, <1>3, WritersStay
<1>5. RatingsOK'
  BY <1>1 DEF RecordsInv, RatingsOK, Exact
<1> QED BY <1>4, <1>5

LEMMA WorkTypes ==
  ASSUME RecordsTypeOK, NEW w \in Writers, NEW s \in WorkStates, work' = [work EXCEPT ![w] = s]
  PROVE  work' \in [Writers -> WorkStates]
BY DEF RecordsTypeOK, WorkStates

LEMMA IdleIsState == Idle \in WorkStates /\ Idle.step = "idle"
BY DEF Idle, WorkStates, Steps

-------------------------------------------------------------------------------
(* Promotion.                                                              *)

LEMMA CheckStep ==
  ASSUME RecordsInv, NEW w \in Writers, NEW c \in Chunks, PromoteCheck(w, c)
  PROVE  RecordsInv'
<1> DEFINE s == [Idle EXCEPT !.step = "record", !.chunk = c]
<1>1. /\ s \in WorkStates
      /\ s.step = "record"
      /\ s.chunk = c
  BY DEF Idle, WorkStates, Steps
<1>2. /\ work' = [work EXCEPT ![w] = s]
      /\ work[w].step = "idle"
      /\ UNCHANGED <<stored, deletions, records, links, ratings, disturbed>>
  BY DEF PromoteCheck
<1> HIDE DEF s
<1>3. \A d, r : InFlight(d, r)' = InFlight(d, r)
  BY <1>1, <1>2, PendingStays DEF RecordsInv
<1>4. WritersOK' /\ RatingsOK'
  <2>1. disturbed \subseteq disturbed' /\ disturbed' \subseteq Chunks
    BY <1>2 DEF RecordsInv, RecordsTypeOK
  <2> QED BY <1>1, <1>2, <1>3, <2>1, QuietStep DEF Has
<1>5. RecordsTypeOK'
  BY <1>1, <1>2, WorkTypes DEF RecordsInv, RecordsTypeOK, WorkStates
<1>6. LinksOK' BY <1>2 DEF RecordsInv, LinksOK
<1> QED BY <1>4, <1>5, <1>6 DEF RecordsInv

LEMMA LinkAdded ==
  ASSUME RecordsInv, NEW c \in Chunks, records[c] # None, NEW kind \in {"chunk", "conversation"},
         links' = links \union {<<c, kind>>}, records' = records
  PROVE  links' \subseteq Chunks \X {"chunk", "conversation"} /\ LinksOK'
<1> DEFINE new == <<c, kind>>
<1>1. new \in Chunks \X {"chunk", "conversation"} /\ new[1] = c
  OBVIOUS
<1>2. links' = links \union {new}
  OBVIOUS
<1> HIDE DEF new
<1>3. \A link \in links' : records'[link[1]] # None
  BY <1>1, <1>2 DEF RecordsInv, LinksOK
<1> QED BY <1>1, <1>2, <1>3 DEF LinksOK, RecordsInv, RecordsTypeOK

LEMMA ChunkLinkStep ==
  ASSUME RecordsInv, NEW w \in Writers, PromoteChunkLink(w)
  PROVE  RecordsInv'
<1> DEFINE s == [work[w] EXCEPT !.step = "conversation link"]
<1>1. /\ work[w].step = "chunk link"
      /\ work[w] \in WorkStates
      /\ work[w].chunk \in Chunks
      /\ records[work[w].chunk] # None
  BY DEF PromoteChunkLink, RecordsInv, RecordsTypeOK, WorkStates, WritersOK, Has
<1>2. /\ s \in WorkStates
      /\ s.step = "conversation link"
      /\ s.chunk = work[w].chunk
  BY <1>1 DEF WorkStates, Steps
<1>3. /\ work' = [work EXCEPT ![w] = s]
      /\ links' = links \union {<<work[w].chunk, "chunk">>}
      /\ UNCHANGED <<stored, deletions, records, ratings, disturbed>>
  BY DEF PromoteChunkLink, RecordsInv, RecordsTypeOK
<1> HIDE DEF s
<1>4. \A d, r : InFlight(d, r)' = InFlight(d, r)
  BY <1>1, <1>2, <1>3, PendingStays DEF RecordsInv
<1>5. WritersOK' /\ RatingsOK'
  <2>1. disturbed \subseteq disturbed' /\ disturbed' \subseteq Chunks
    BY <1>3 DEF RecordsInv, RecordsTypeOK
  <2> QED BY <1>1, <1>2, <1>3, <1>4, <2>1, QuietStep DEF Has
<1>6. links' \subseteq Chunks \X {"chunk", "conversation"} /\ LinksOK'
  BY <1>1, <1>3, LinkAdded
<1>7. RecordsTypeOK'
  BY <1>2, <1>3, <1>6, WorkTypes DEF RecordsInv, RecordsTypeOK, WorkStates
<1> QED BY <1>5, <1>6, <1>7 DEF RecordsInv

LEMMA ConversationLinkStep ==
  ASSUME RecordsInv, NEW w \in Writers, PromoteConversationLink(w)
  PROVE  RecordsInv'
<1>1. /\ work[w].step = "conversation link"
      /\ work[w].chunk \in Chunks
      /\ records[work[w].chunk] # None
  BY DEF PromoteConversationLink, RecordsInv, WritersOK, Has
<1>2. /\ work' = [work EXCEPT ![w] = Idle]
      /\ links' = links \union {<<work[w].chunk, "conversation">>}
      /\ UNCHANGED <<stored, deletions, records, ratings, disturbed>>
  BY DEF PromoteConversationLink
<1>3. \A d, r : InFlight(d, r)' = InFlight(d, r)
  BY <1>1, <1>2, IdleIsState, PendingStays DEF RecordsInv
<1>4. WritersOK' /\ RatingsOK'
  <2>1. disturbed \subseteq disturbed' /\ disturbed' \subseteq Chunks
    BY <1>2 DEF RecordsInv, RecordsTypeOK
  <2> QED BY <1>2, <1>3, <2>1, IdleIsState, QuietStep DEF Has
<1>5. links' \subseteq Chunks \X {"chunk", "conversation"} /\ LinksOK'
  BY <1>1, <1>2, LinkAdded
<1>6. RecordsTypeOK'
  BY <1>2, <1>5, IdleIsState, WorkTypes DEF RecordsInv, RecordsTypeOK, WorkStates
<1> QED BY <1>4, <1>5, <1>6 DEF RecordsInv

LEMMA FreshIsBelow ==
  ASSUME NEW a \in Nat, NEW m \in Nat, m <= a
  PROVE  Fresh \in RecordStates /\ Fresh # None /\ Below(Fresh, a, m)
<1>1. Unrated \in [Ratings -> Nat] /\ Unrated["down"] = 0
  BY DEF Unrated, Ratings
<1>2. Fresh.status = "active" /\ Fresh.summary = Unrated /\ Fresh \in RecordStates
  BY <1>1 DEF Fresh, RecordStates
<1> QED BY <1>1, <1>2, RecordsAssumption DEF Below

\* What the records say of downs, as numbers.
LEMMA DownsBound ==
  ASSUME RecordsInv, NEW c \in Chunks
  PROVE  /\ Downs(c) \in Nat /\ Pending(c, "down") \in Nat
         /\ Pending(c, "down") <= Downs(c)
<1>1. /\ Downs(c) \in Nat /\ Pending(c, "down") \in Nat
      /\ records[c] \in RecordStates \union {None}
  BY PendingIsNat DEF RecordsInv, RecordsTypeOK, Downs, Ratings
<1>2. CASE records[c] = None
  <2>1. InFlight(c, "down") = {} BY <1>2 DEF RecordsInv, RatingsOK, Ratings
  <2>2. Pending(c, "down") = 0 BY <2>1, FS_EmptySet DEF Pending
  <2> QED BY <1>1, <2>2
<1>3. CASE records[c] # None
  <2>1. Below(records[c], Downs(c), Pending(c, "down")) BY <1>3 DEF RecordsInv, RatingsOK
  <2>2. records[c].summary["down"] \in Nat BY <1>1, <1>3 DEF RecordStates, Ratings
  <2> QED BY <1>1, <2>1, <2>2 DEF Below
<1> QED BY <1>2, <1>3

LEMMA RecordStep ==
  ASSUME RecordsInv, NEW w \in Writers, PromoteRecord(w)
  PROVE  RecordsInv'
<1> DEFINE s == [work[w] EXCEPT !.step = "chunk link"]
           c == work[w].chunk
<1>1. /\ work[w].step = "record"
      /\ work[w] \in WorkStates
      /\ c \in Chunks
  BY DEF PromoteRecord, RecordsInv, RecordsTypeOK, WorkStates, WritersOK
<1>2. /\ s \in WorkStates
      /\ s.step = "chunk link"
      /\ s.chunk = c
  BY <1>1 DEF WorkStates, Steps
<1>3. /\ work' = [work EXCEPT ![w] = s]
      /\ records' = [records EXCEPT ![c] = Fresh]
      /\ disturbed' = IF records[c] \in {None, Fresh} THEN disturbed ELSE disturbed \union {c}
      /\ UNCHANGED <<stored, deletions, links, ratings>>
  BY DEF PromoteRecord, RecordsInv, RecordsTypeOK
<1> HIDE DEF s
<1> SUFFICES ASSUME NEW d \in Chunks, d = c
             PROVE  RecordsInv'
  BY <1>1
<1> HIDE DEF c
<1>4. \A e, r : InFlight(e, r)' = InFlight(e, r)
  BY <1>1, <1>2, <1>3, PendingStays DEF RecordsInv
<1>5. \A e \in Chunks : /\ Downs(e)' = Downs(e)
                        /\ \A r : Pending(e, r)' = Pending(e, r)
  BY <1>3, <1>4 DEF Downs, Pending
<1>6. Fresh \in RecordStates /\ Fresh # None /\ Below(Fresh, Downs(d), Pending(d, "down"))
  BY DownsBound, FreshIsBelow
<1>7. /\ records' \in [Chunks -> RecordStates \union {None}]
      /\ records'[d] = Fresh
      /\ \A e \in Chunks \ {d} : records'[e] = records[e]
      /\ \A e \in Chunks : records[e] # None => records'[e] # None
  BY <1>3, <1>6 DEF RecordsInv, RecordsTypeOK
<1>8. disturbed \subseteq disturbed' /\ disturbed' \subseteq Chunks
  BY <1>1, <1>3 DEF RecordsInv, RecordsTypeOK
<1>9. WritersOK'
  <2>1. Grows BY <1>5, <1>7, DownsBound DEF Grows
  <2> QED BY <1>2, <1>3, <1>6, <1>7, <2>1, WritersStay DEF Has
<1>10. RatingsOK'
  <2>1. SUFFICES ASSUME NEW e \in Chunks
                 PROVE  /\ records'[e] = None => /\ ratings'[e] = Unrated
                                                 /\ \A r \in Ratings : InFlight(e, r)' = {}
                        /\ records'[e] # None =>
                             /\ Below(records'[e], Downs(e)', Pending(e, "down")')
                             /\ \/ e \in disturbed'
                                \/ \A r \in Ratings :
                                     ratings'[e][r] = records'[e].summary[r] + Pending(e, r)'
    BY DEF RatingsOK, Exact
  <2>2. CASE e # d
    BY <1>3, <1>4, <1>5, <1>7, <1>8, <2>2 DEF RecordsInv, RatingsOK, Exact
  <2>3. CASE e = d /\ records[d] = Fresh
    BY <1>3, <1>4, <1>5, <1>6, <1>7, <1>8, <2>3 DEF RecordsInv, RatingsOK, Exact
  <2>4. CASE e = d /\ records[d] = None
    <3>1. ratings[d] = Unrated /\ \A r \in Ratings : InFlight(d, r) = {}
      BY <2>4 DEF RecordsInv, RatingsOK
    <3>2. \A r \in Ratings : Pending(d, r) = 0
      BY <3>1, FS_EmptySet DEF Pending
    <3>3. \A r \in Ratings : ratings[d][r] = 0 /\ Fresh.summary[r] = 0
      BY <3>1 DEF Unrated, Fresh
    <3> QED BY <1>3, <1>5, <1>6, <1>7, <2>4, <3>2, <3>3
  <2>5. CASE e = d /\ records[d] \notin {None, Fresh}
    <3>1. e \in disturbed' BY <1>3, <2>5
    <3> QED BY <1>5, <1>6, <1>7, <2>5, <3>1
  <2> QED BY <2>2, <2>3, <2>4, <2>5
<1>11. LinksOK'
  <2>1. \A link \in links : link[1] \in Chunks BY DEF RecordsInv, RecordsTypeOK
  <2> QED BY <1>3, <1>7, <2>1 DEF RecordsInv, LinksOK
<1>12. RecordsTypeOK'
  BY <1>2, <1>3, <1>7, <1>8, WorkTypes DEF RecordsInv, RecordsTypeOK, WorkStates
<1> QED BY <1>9, <1>10, <1>11, <1>12 DEF RecordsInv

-------------------------------------------------------------------------------
(* Ratings.                                                                *)

LEMMA InsertStep ==
  ASSUME RecordsInv, NEW w \in Writers, NEW c \in Chunks, NEW q \in Given, RateInsert(w, c, q)
  PROVE  RecordsInv'
<1> DEFINE s == [Idle EXCEPT !.step = "read", !.chunk = c, !.rating = q]
<1>1. q \in Ratings BY RecordsAssumption
<1>2. /\ s \in WorkStates
      /\ s.step = "read"
      /\ s.chunk = c
      /\ s.rating = q
  BY <1>1 DEF Idle, WorkStates, Steps
<1>3. /\ work' = [work EXCEPT ![w] = s]
      /\ work[w].step = "idle"
      /\ records[c] # None
      /\ ratings' = [ratings EXCEPT ![c][q] = @ + 1]
      /\ UNCHANGED <<stored, deletions, records, links, disturbed>>
  BY DEF RateInsert
<1> HIDE DEF s
<1>4. /\ ratings' \in [Chunks -> [Ratings -> Nat]]
      /\ \A e \in Chunks, r \in Ratings :
           ratings'[e][r] = IF e = c /\ r = q THEN ratings[e][r] + 1 ELSE ratings[e][r]
      /\ \A e \in Chunks : e # c => ratings'[e] = ratings[e]
  BY <1>1, <1>3 DEF RecordsInv, RecordsTypeOK
<1>5. \A e, r : Pending(e, r)' = IF e = c /\ r = q THEN Pending(e, r) + 1 ELSE Pending(e, r)
  <2>1. SUFFICES ASSUME NEW e, NEW r
                 PROVE  Pending(e, r)' = IF e = c /\ r = q THEN Pending(e, r) + 1 ELSE Pending(e, r)
    OBVIOUS
  <2>2. work'[w] = s /\ \A v \in Writers \ {w} : work'[v] = work[v]
    BY <1>3 DEF RecordsInv, RecordsTypeOK
  <2>3. /\ work'[w].step = "read"
        /\ work'[w].chunk = c
        /\ work'[w].rating = q
    BY <1>2, <2>2
  <2>4. /\ work'[w].chunk = e /\ work'[w].rating = r => Pending(e, r)' = Pending(e, r) + 1
        /\ work'[w].chunk # e \/ work'[w].rating # r => Pending(e, r)' = Pending(e, r)
    BY <1>3, <2>2, <2>3, PendingEnters
  <2>5. CASE e = c /\ r = q BY <2>3, <2>4, <2>5
  <2>6. CASE ~ (e = c /\ r = q) BY <2>3, <2>4, <2>6
  <2> QED BY <2>5, <2>6
<1>6. \A e \in Chunks : /\ Downs(e)' \in Nat
                        /\ Downs(e) <= Downs(e)'
                        /\ Pending(e, "down")' + Downs(e) = Pending(e, "down") + Downs(e)'
  <2>1. SUFFICES ASSUME NEW e \in Chunks
                 PROVE  /\ Downs(e)' \in Nat
                        /\ Downs(e) <= Downs(e)'
                        /\ Pending(e, "down")' + Downs(e) = Pending(e, "down") + Downs(e)'
    OBVIOUS
  <2>2. Downs(e)' = IF e = c /\ q = "down" THEN Downs(e) + 1 ELSE Downs(e)
    BY <1>4 DEF Downs, Ratings
  <2>3. Pending(e, "down")' = IF e = c /\ q = "down" THEN Pending(e, "down") + 1 ELSE Pending(e, "down")
    BY <1>5
  <2> QED BY <2>2, <2>3, DownsBound
<1>7. WritersOK'
  <2>1. Grows BY <1>3, <1>6, DownsBound DEF Grows
  <2> QED BY <1>1, <1>2, <1>3, <2>1, WritersStay DEF Has
<1>8. RatingsOK'
  <2>1. SUFFICES ASSUME NEW e \in Chunks
                 PROVE  /\ records[e] = None => /\ ratings'[e] = Unrated
                                                /\ \A r \in Ratings : InFlight(e, r)' = {}
                        /\ records[e] # None =>
                             /\ Below(records[e], Downs(e)', Pending(e, "down")')
                             /\ \/ e \in disturbed
                                \/ \A r \in Ratings :
                                     ratings'[e][r] = records[e].summary[r] + Pending(e, r)'
    BY <1>3 DEF RatingsOK, Exact
  <2>2. CASE records[e] = None
    <3>1. e # c BY <1>3, <2>2
    <3>2. ratings'[e] = Unrated BY <1>4, <2>2, <3>1 DEF RecordsInv, RatingsOK
    <3>3. ASSUME NEW r \in Ratings PROVE InFlight(e, r)' = {}
      <4>1. InFlight(e, r) = {} BY <2>2 DEF RecordsInv, RatingsOK
      <4>2. work'[w] = s /\ \A v \in Writers \ {w} : work'[v] = work[v]
        BY <1>3 DEF RecordsInv, RecordsTypeOK
      <4> QED BY <1>2, <3>1, <4>1, <4>2 DEF InFlight
    <3> QED BY <2>2, <3>2, <3>3
  <2>3. CASE records[e] # None
    <3>1. Below(records[e], Downs(e), Pending(e, "down")) /\ (e \in disturbed \/ Exact(e))
      BY <2>3 DEF RecordsInv, RatingsOK
    <3>2. records[e] \in RecordStates BY <2>3 DEF RecordsInv, RecordsTypeOK
    <3>3. Pending(e, "down")' \in Nat BY PendingNext
    <3>4. Below(records[e], Downs(e)', Pending(e, "down")')
      BY <1>6, <3>1, <3>2, <3>3, DownsBound, BelowStays
    <3>5. ASSUME Exact(e), NEW r \in Ratings
          PROVE  ratings'[e][r] = records[e].summary[r] + Pending(e, r)'
      <4>1. ratings[e][r] = records[e].summary[r] + Pending(e, r) BY <3>5 DEF Exact
      <4>2. records[e].summary[r] \in Nat /\ Pending(e, r) \in Nat
        BY <3>2, PendingIsNat DEF RecordStates
      <4> QED BY <1>4, <1>5, <4>1, <4>2
    <3> QED BY <2>3, <3>1, <3>4, <3>5
  <2> QED BY <2>2, <2>3
<1>9. LinksOK' BY <1>3 DEF RecordsInv, LinksOK
<1>10. RecordsTypeOK'
  BY <1>2, <1>3, <1>4, WorkTypes DEF RecordsInv, RecordsTypeOK, WorkStates
<1> QED BY <1>7, <1>8, <1>9, <1>10 DEF RecordsInv

LEMMA ReadStep ==
  ASSUME RecordsInv, NEW w \in Writers, RateRead(w)
  PROVE  RecordsInv'
<1> DEFINE c == work[w].chunk
           s == [work[w] EXCEPT !.step = "write", !.held = records[c]]
<1>1. /\ work[w].step = "read"
      /\ work[w] \in WorkStates
      /\ c \in Chunks
      /\ work[w].rating \in Ratings
      /\ records[c] # None
  BY DEF RateRead, RecordsInv, RecordsTypeOK, WorkStates, WritersOK, Has
<1>2. /\ records[c] \in RecordStates
      /\ Below(records[c], Downs(c), Pending(c, "down"))
  BY <1>1 DEF RecordsInv, RecordsTypeOK, RatingsOK
<1>3. /\ s \in WorkStates
      /\ s.step = "write"
      /\ s.chunk = c
      /\ s.rating = work[w].rating
      /\ s.held = records[c]
  BY <1>1, <1>2 DEF WorkStates, Steps
<1>4. /\ work' = [work EXCEPT ![w] = s]
      /\ UNCHANGED <<stored, deletions, records, links, ratings, disturbed>>
  BY DEF RateRead, RecordsInv, RecordsTypeOK
<1> HIDE DEF s
<1>5. \A d, r : InFlight(d, r)' = InFlight(d, r)
  BY <1>1, <1>3, <1>4, PendingStays DEF RecordsInv
<1>6. WritersOK' /\ RatingsOK'
  <2>1. disturbed \subseteq disturbed' /\ disturbed' \subseteq Chunks
    BY <1>4 DEF RecordsInv, RecordsTypeOK
  <2> QED BY <1>1, <1>2, <1>3, <1>4, <1>5, <2>1, QuietStep DEF Has
<1>7. RecordsTypeOK'
  BY <1>3, <1>4, WorkTypes DEF RecordsInv, RecordsTypeOK, WorkStates
<1>8. LinksOK' BY <1>4 DEF RecordsInv, LinksOK
<1> QED BY <1>6, <1>7, <1>8 DEF RecordsInv

LEMMA AppliedIsState ==
  ASSUME NEW held \in RecordStates, NEW q \in Ratings
  PROVE  Applied(held, q) \in RecordStates
<1>1. [held.summary EXCEPT ![q] = @ + 1] \in [Ratings -> Nat]
  BY DEF RecordStates
<1>2. \A summary : StatusAfter(held.status, q, summary) \in {"active", "stale"}
  BY DEF StatusAfter, RecordStates
<1> QED BY <1>1, <1>2 DEF Applied, RecordStates

LEMMA AppliedIsBelow ==
  ASSUME NEW held \in RecordStates, NEW q \in Ratings, NEW a \in Nat, NEW m \in Nat, NEW n \in Nat,
         Below(held, a, m), n = IF q = "down" THEN m - 1 ELSE m
  PROVE  /\ \A r \in Ratings : Applied(held, q).summary[r] =
              IF r = q THEN held.summary[r] + 1 ELSE held.summary[r]
         /\ Below(Applied(held, q), a, n)
<1> DEFINE summary == [held.summary EXCEPT ![q] = @ + 1]
           status  == StatusAfter(held.status, q, summary)
<1>1. /\ held.status \in {"active", "stale"}
      /\ held.summary \in [Ratings -> Nat]
  BY DEF RecordStates
<1>2. /\ summary \in [Ratings -> Nat]
      /\ \A r \in Ratings : summary[r] = IF r = q THEN held.summary[r] + 1 ELSE held.summary[r]
  BY <1>1
<1>3. Applied(held, q).status = status /\ Applied(held, q).summary = summary
  BY DEF Applied
<1>4. status = "stale" => held.status = "stale" \/ summary["down"] >= 2
  BY <1>1 DEF StatusAfter
<1> HIDE DEF summary, status
<1>5. /\ summary["down"] \in Nat
      /\ held.summary["down"] \in Nat
      /\ summary["down"] + n = held.summary["down"] + m
  BY <1>1, <1>2 DEF Ratings
<1>6. Below(Applied(held, q), a, n)
  BY <1>3, <1>4, <1>5 DEF Below
<1> QED BY <1>2, <1>3, <1>6

LEMMA WriteStep ==
  ASSUME RecordsInv, NEW w \in Writers, RateWrite(w)
  PROVE  RecordsInv'
<1> DEFINE c    == work[w].chunk
           q    == work[w].rating
           held == work[w].held
           new  == Applied(held, q)
<1>1. /\ work[w].step = "write"
      /\ c \in Chunks
      /\ q \in Ratings
      /\ held \in RecordStates
      /\ records[c] # None
      /\ Below(held, Downs(c), Pending(c, "down"))
  BY DEF RateWrite, RecordsInv, WritersOK, Has
<1>2. /\ work' = [work EXCEPT ![w] = Idle]
      /\ records' = [records EXCEPT ![c] = new]
      /\ disturbed' = IF records[c] = held THEN disturbed ELSE disturbed \union {c}
      /\ UNCHANGED <<stored, deletions, links, ratings>>
  BY DEF RateWrite
<1>3. \A e, r : w \in InFlight(e, r) <=> e = c /\ r = q
  BY <1>1 DEF InFlight
<1> HIDE DEF c, q, held, new
<1> SUFFICES ASSUME NEW d \in Chunks, d = c, NEW p \in Ratings, p = q,
                    NEW h \in RecordStates, h = held
             PROVE  RecordsInv'
  BY <1>1
<1>4. \A e, r :
        /\ InFlight(e, r)' = InFlight(e, r) \ {w}
        /\ Pending(e, r)' = IF e = d /\ r = p THEN Pending(e, r) - 1 ELSE Pending(e, r)
  <2>1. SUFFICES ASSUME NEW e, NEW r
                 PROVE  /\ InFlight(e, r)' = InFlight(e, r) \ {w}
                        /\ Pending(e, r)' =
                             IF e = d /\ r = p THEN Pending(e, r) - 1 ELSE Pending(e, r)
    OBVIOUS
  <2>2. /\ InFlight(e, r)' = InFlight(e, r) \ {w}
        /\ Pending(e, r)' = IF w \in InFlight(e, r) THEN Pending(e, r) - 1 ELSE Pending(e, r)
    BY <1>2, IdleIsState, PendingLeaves DEF RecordsInv
  <2>3. w \in InFlight(e, r) <=> e = d /\ r = p BY <1>3
  <2> QED BY <2>2, <2>3
<1>5. \A e \in Chunks : /\ Downs(e)' = Downs(e)
                        /\ Pending(e, "down")' <= Pending(e, "down")
  BY <1>2, <1>4, PendingIsNat DEF Downs
<1>6. /\ new \in RecordStates
      /\ \A r \in Ratings : new.summary[r] = IF r = p THEN h.summary[r] + 1 ELSE h.summary[r]
      /\ Below(new, Downs(d), Pending(d, "down")')
  <2>1. Pending(d, "down")' = IF p = "down" THEN Pending(d, "down") - 1 ELSE Pending(d, "down")
    BY <1>4
  <2>2. Pending(d, "down")' \in Nat BY PendingNext
  <2>3. Below(h, Downs(d), Pending(d, "down")) BY <1>1
  <2>4. new = Applied(h, p) BY DEF new
  <2> QED BY <2>1, <2>2, <2>3, <2>4, DownsBound, AppliedIsState, AppliedIsBelow
<1>7. new # None BY <1>6, RecordsAssumption
<1>8. /\ records' \in [Chunks -> RecordStates \union {None}]
      /\ records'[d] = new
      /\ \A e \in Chunks \ {d} : records'[e] = records[e]
      /\ \A e \in Chunks : records[e] # None => records'[e] # None
  BY <1>2, <1>6, <1>7 DEF RecordsInv, RecordsTypeOK
<1>9. disturbed \subseteq disturbed' /\ disturbed' \subseteq Chunks
  BY <1>1, <1>2 DEF RecordsInv, RecordsTypeOK
<1>10. WritersOK'
  <2>1. Grows BY <1>5, <1>8, DownsBound, PendingNext DEF Grows
  <2> QED BY <1>2, <2>1, IdleIsState, WritersStay DEF Has
<1>11. RatingsOK'
  <2>1. SUFFICES ASSUME NEW e \in Chunks
                 PROVE  /\ records'[e] = None => /\ ratings[e] = Unrated
                                                 /\ \A r \in Ratings : InFlight(e, r)' = {}
                        /\ records'[e] # None =>
                             /\ Below(records'[e], Downs(e), Pending(e, "down")')
                             /\ \/ e \in disturbed'
                                \/ \A r \in Ratings :
                                     ratings[e][r] = records'[e].summary[r] + Pending(e, r)'
    BY <1>2, <1>5 DEF RatingsOK, Exact
  <2>2. CASE e # d
    <3>1. /\ records'[e] = records[e]
          /\ \A r : Pending(e, r)' = Pending(e, r)
      BY <1>4, <1>8, <2>2
    <3>2. records[e] = None => \A r \in Ratings : InFlight(e, r)' = {}
      BY <1>4 DEF RecordsInv, RatingsOK
    <3> QED BY <1>9, <3>1, <3>2 DEF RecordsInv, RatingsOK, Exact
  <2>3. CASE e = d
    <3>1. ASSUME d \notin disturbed', NEW r \in Ratings
          PROVE  ratings[d][r] = new.summary[r] + Pending(d, r)'
      <4>1. records[d] = h /\ d \notin disturbed BY <1>2, <3>1
      <4>2. ratings[d][r] = h.summary[r] + Pending(d, r)
        BY <1>1, <4>1 DEF RecordsInv, RatingsOK, Exact
      <4>3. h.summary[r] \in Nat /\ Pending(d, r) \in Nat
        BY PendingIsNat DEF RecordStates
      <4> QED BY <1>4, <1>6, <4>2, <4>3
    <3> QED BY <1>6, <1>7, <1>8, <2>3, <3>1
  <2> QED BY <2>2, <2>3
<1>12. LinksOK'
  <2>1. \A link \in links : link[1] \in Chunks BY DEF RecordsInv, RecordsTypeOK
  <2> QED BY <1>2, <1>8, <2>1 DEF RecordsInv, LinksOK
<1>13. RecordsTypeOK'
  BY <1>2, <1>8, <1>9, IdleIsState, WorkTypes DEF RecordsInv, RecordsTypeOK, WorkStates
<1> QED BY <1>10, <1>11, <1>12, <1>13 DEF RecordsInv

LEMMA DeathStep ==
  ASSUME RecordsInv, NEW w \in Writers, WriterDies(w)
  PROVE  RecordsInv'
<1> DEFINE c == work[w].chunk
<1>1. /\ work[w].step # "idle"
      /\ c \in Chunks
      /\ work[w].step \in {"read", "write"} => records[c] # None
  BY DEF WriterDies, RecordsInv, WritersOK, Has
<1>2. /\ work' = [work EXCEPT ![w] = Idle]
      /\ disturbed' = IF work[w].step \in {"read", "write"} THEN disturbed \union {c}
                      ELSE disturbed
      /\ UNCHANGED <<stored, deletions, records, links, ratings>>
  BY DEF WriterDies
<1>3. \A e, r : w \in InFlight(e, r) => e = c /\ work[w].step \in {"read", "write"}
  BY DEF InFlight
<1> HIDE DEF c
<1> SUFFICES ASSUME NEW d \in Chunks, d = c
             PROVE  RecordsInv'
  BY <1>1
<1>4. \A e, r :
        /\ InFlight(e, r)' = InFlight(e, r) \ {w}
        /\ Pending(e, r)' = IF w \in InFlight(e, r) THEN Pending(e, r) - 1 ELSE Pending(e, r)
  BY <1>2, IdleIsState, PendingLeaves DEF RecordsInv
<1>5. \A e \in Chunks : /\ Downs(e)' = Downs(e)
                        /\ Pending(e, "down")' <= Pending(e, "down")
  BY <1>2, <1>4, PendingIsNat DEF Downs
<1>6. disturbed \subseteq disturbed' /\ disturbed' \subseteq Chunks
  BY <1>1, <1>2 DEF RecordsInv, RecordsTypeOK
<1>7. WritersOK'
  <2>1. Grows BY <1>2, <1>5, DownsBound, PendingNext DEF Grows
  <2> QED BY <1>2, <2>1, IdleIsState, WritersStay DEF Has
<1>8. RatingsOK'
  <2>1. SUFFICES ASSUME NEW e \in Chunks
                 PROVE  /\ records[e] = None => /\ ratings[e] = Unrated
                                                /\ \A r \in Ratings : InFlight(e, r)' = {}
                        /\ records[e] # None =>
                             /\ Below(records[e], Downs(e), Pending(e, "down")')
                             /\ \/ e \in disturbed'
                                \/ \A r \in Ratings :
                                     ratings[e][r] = records[e].summary[r] + Pending(e, r)'
    BY <1>2, <1>5 DEF RatingsOK, Exact
  <2>2. CASE records[e] = None
    BY <1>4, <2>2 DEF RecordsInv, RatingsOK
  <2>3. CASE records[e] # None
    <3>1. Below(records[e], Downs(e), Pending(e, "down")) /\ (e \in disturbed \/ Exact(e))
      BY <2>3 DEF RecordsInv, RatingsOK
    <3>2. records[e] \in RecordStates BY <2>3 DEF RecordsInv, RecordsTypeOK
    <3>3. Below(records[e], Downs(e), Pending(e, "down")')
      BY <1>5, <3>1, <3>2, DownsBound, PendingNext, BelowStays
    <3>4. CASE e \in disturbed' BY <2>3, <3>3, <3>4
    <3>5. CASE e \notin disturbed'
      <4>1. \A r : w \notin InFlight(e, r) BY <1>2, <1>3, <3>5
      <4>2. Exact(e) BY <1>6, <3>1, <3>5
      <4> QED BY <1>4, <2>3, <3>3, <4>1, <4>2 DEF Exact
    <3> QED BY <3>4, <3>5
  <2> QED BY <2>2, <2>3
<1>9. LinksOK' BY <1>2 DEF RecordsInv, LinksOK
<1>10. RecordsTypeOK'
  BY <1>2, <1>6, IdleIsState, WorkTypes DEF RecordsInv, RecordsTypeOK, WorkStates
<1> QED BY <1>7, <1>8, <1>9, <1>10 DEF RecordsInv

-------------------------------------------------------------------------------
(* All steps on the tables.                                                *)

LEMMA TombstoneStep ==
  ASSUME RecordsInv, NEW x \in Sources, Tombstone(x)
  PROVE  RecordsInv'
<1>1. /\ deletions' \subseteq Sources
      /\ UNCHANGED <<stored, records, links, ratings, work, disturbed>>
  BY DEF Tombstone, RecordsInv, RecordsTypeOK
<1>2. \A c, r : InFlight(c, r)' = InFlight(c, r) /\ Pending(c, r)' = Pending(c, r)
  BY <1>1 DEF InFlight, Pending
<1>3. RecordsTypeOK' BY <1>1 DEF RecordsInv, RecordsTypeOK
<1>4. WritersOK' BY <1>1, <1>2 DEF RecordsInv, WritersOK, Downs
<1>5. RatingsOK' BY <1>1, <1>2 DEF RecordsInv, RatingsOK, Exact, Downs
<1> QED BY <1>1, <1>3, <1>4, <1>5 DEF RecordsInv, LinksOK

LEMMA StoredOnly ==
  ASSUME RecordsInv, stored' \subseteq Chunks,
         UNCHANGED <<deletions, records, links, ratings, work, disturbed>>
  PROVE  RecordsInv'
<1>1. \A c, r : InFlight(c, r)' = InFlight(c, r) /\ Pending(c, r)' = Pending(c, r)
  BY DEF InFlight, Pending
<1>2. RecordsTypeOK' BY DEF RecordsInv, RecordsTypeOK
<1>3. WritersOK' BY <1>1 DEF RecordsInv, WritersOK, Downs
<1>4. RatingsOK' BY <1>1 DEF RecordsInv, RatingsOK, Exact, Downs
<1> QED BY <1>2, <1>3, <1>4 DEF RecordsInv, LinksOK

\* A step of those who write, or none that concerns the records.
TableStep ==
  \/ \E w \in Writers : Promote(w) \/ WriterDies(w) \/ Rate(w)
  \/ \E x \in Sources : Tombstone(x)
  \/ stored' \subseteq Chunks /\ UNCHANGED <<deletions, records, links, ratings, work, disturbed>>

LEMMA TablesKept == RecordsInv /\ TableStep => RecordsInv'
<1> SUFFICES ASSUME RecordsInv, TableStep PROVE RecordsInv'
  OBVIOUS
<1>1. CASE \E w \in Writers : Promote(w)
  BY <1>1, CheckStep, RecordStep, ChunkLinkStep, ConversationLinkStep DEF Promote
<1>2. CASE \E w \in Writers : WriterDies(w)
  BY <1>2, DeathStep
<1>3. CASE \E w \in Writers : Rate(w)
  BY <1>3, InsertStep, ReadStep, WriteStep DEF Rate
<1>4. CASE \E x \in Sources : Tombstone(x)
  BY <1>4, TombstoneStep
<1>5. CASE stored' \subseteq Chunks /\ UNCHANGED <<deletions, records, links, ratings, work, disturbed>>
  BY <1>5, StoredOnly
<1> QED BY <1>1, <1>2, <1>3, <1>4, <1>5 DEF TableStep

\* Records and links are never deleted.
LEMMA TablesGrow ==
  ASSUME RecordsInv, TableStep
  PROVE  RecordRows \subseteq RecordRows' /\ links \subseteq links'
<1>1. SUFFICES ASSUME NEW c \in Chunks, records[c] # None
               PROVE  records'[c] # None /\ links \subseteq links'
  <2>1. CASE RecordRows = {}
    <3>1. links = {} BY <2>1 DEF RecordRows, RecordsInv, RecordsTypeOK, LinksOK
    <3> QED BY <2>1, <3>1
  <2>2. CASE RecordRows # {}
    <3>1. PICK d \in Chunks : records[d] # None BY <2>2 DEF RecordRows
    <3> QED BY <1>1, <3>1 DEF RecordRows
  <2> QED BY <2>1, <2>2
<1>2. CASE UNCHANGED <<records, links>> BY <1>1, <1>2
<1>3. ASSUME NEW w \in Writers, PromoteRecord(w)
      PROVE  records'[c] # None /\ links \subseteq links'
  <2>1. Fresh # None BY FreshIsBelow
  <2> QED BY <1>1, <1>3, <2>1 DEF PromoteRecord, RecordsInv, RecordsTypeOK
<1>4. ASSUME NEW w \in Writers, RateWrite(w)
      PROVE  records'[c] # None /\ links \subseteq links'
  <2> DEFINE new == Applied(work[w].held, work[w].rating)
  <2>1. work[w].held \in RecordStates /\ work[w].rating \in Ratings
    BY <1>4 DEF RateWrite, RecordsInv, WritersOK
  <2>2. new # None BY <2>1, AppliedIsState, RecordsAssumption
  <2>3. records' = [records EXCEPT ![work[w].chunk] = new] /\ links' = links
    BY <1>4 DEF RateWrite
  <2> HIDE DEF new
  <2> QED BY <1>1, <2>2, <2>3 DEF RecordsInv, RecordsTypeOK
<1>5. ASSUME NEW w \in Writers, PromoteChunkLink(w) \/ PromoteConversationLink(w)
      PROVE  records'[c] # None /\ links \subseteq links'
  BY <1>1, <1>5 DEF PromoteChunkLink, PromoteConversationLink
<1> QED BY <1>2, <1>3, <1>4, <1>5
        DEF TableStep, Promote, Rate, WriterDies, Tombstone, PromoteCheck, RateInsert, RateRead

-------------------------------------------------------------------------------
(* Searches and exports.                                                   *)

Calls == [at       : {"idle", "fts", "vectors", "curated", "rank", "log", "answer"},
          command  : Commands \union {None},
          slot     : BOOLEAN,
          blocked  : SUBSET Sources,
          settled  : SUBSET Chunks,
          hits     : SUBSET Hits,
          logged   : BOOLEAN]

Exports == [at        : {"idle", "links", "counts", "done"},
            records   : SUBSET Chunks,
            links     : SUBSET (Chunks \X {"chunk", "conversation"}),
            truncated : BOOLEAN]

ReadTypesOK ==
  /\ activity \in Activities
  /\ embedded \subseteq Chunks
  /\ todo \subseteq Chunks
  /\ call \in [Readers -> Calls]
  /\ export \in Exports

\* What a call holds is allowed by the tombstones that it read.
HitsAllowed(x) ==
  \A c \in Chunks :
    /\ <<"chunk", c>> \in x.hits => Origins(c) \intersect x.blocked = {}
    /\ <<"record", c>> \in x.hits =>
         /\ {Record(c), c} \intersect x.blocked = {}
         /\ c \in x.settled => Conversation \notin x.blocked

CallOK(x) ==
  /\ x.at \in {"idle", "fts"} => x.hits = {}
  /\ HitsAllowed(x)

\* The links of a record that was settled when the search began are there.
SettledLinked == \A r \in Readers : \A c \in call[r].settled : <<c, "conversation">> \in links

ExportOK ==
  /\ export.at \in {"links", "counts"} => export.records \subseteq RecordRows
  /\ export.at = "counts" => \A link \in export.links : link[1] \in RecordRows
  /\ DanglingIsFlagged

MemoryInv ==
  /\ RecordsInv
  /\ ReadTypesOK
  /\ \A r \in Readers : CallOK(call[r])
  /\ SettledLinked
  /\ ExportOK

CallStep(r, x) ==
  /\ x \in Calls
  /\ CallOK(x)
  /\ \A c \in x.settled : <<c, "conversation">> \in links
  /\ call' = [call EXCEPT ![r] = x]

LEMMA BeginIsCall ==
  ASSUME RecordsInv, NEW x \in Calls, x.hits = {}
  PROVE  /\ Begin(x) \in Calls
         /\ CallOK(Begin(x))
         /\ \A c \in Begin(x).settled : <<c, "conversation">> \in links
<1> DEFINE settled == {c \in Chunks : {c} \X {"chunk", "conversation"} \subseteq links}
<1>1. deletions \in SUBSET Sources BY DEF RecordsInv, RecordsTypeOK
<1>2. settled \in SUBSET Chunks /\ \A c \in settled : <<c, "conversation">> \in links
  OBVIOUS
<1> HIDE DEF settled
<1>3. Begin(x) = [x EXCEPT !.at = "fts", !.blocked = deletions, !.settled = settled]
  BY DEF Begin, settled
<1>4. /\ Begin(x) \in Calls
      /\ Begin(x).hits = {}
      /\ Begin(x).settled = settled
  BY <1>1, <1>2, <1>3 DEF Calls
<1> QED BY <1>2, <1>4 DEF CallOK, HitsAllowed

LEMMA RestingIsCall == Resting \in Calls /\ Resting.hits = {} /\ Resting.settled = {}
BY DEF Resting, Calls

LEMMA ReaderCalls ==
  ASSUME MemoryInv, NEW r \in Readers, ReaderStep(r)
  PROVE  \E x : CallStep(r, x)
<1> DEFINE old == call[r]
<1>1. /\ old \in Calls
      /\ CallOK(old)
      /\ \A c \in old.settled : <<c, "conversation">> \in links
  BY DEF MemoryInv, ReadTypesOK, SettledLinked
<1>2. RecordsInv BY DEF MemoryInv
<1>3. ASSUME NEW command \in Commands, Ask(r, command)
      PROVE  \E x : CallStep(r, x)
  <2> DEFINE x == [Resting EXCEPT !.command = command]
  <2>1. x \in Calls /\ x.hits = {} BY DEF Resting, Calls
  <2>2. call' = [call EXCEPT ![r] = Begin(x)] BY <1>3 DEF Ask
  <2> HIDE DEF x
  <2> QED BY <1>2, <2>1, <2>2, BeginIsCall DEF CallStep
<1>4. ASSUME Fts(r)
      PROVE  \E x : CallStep(r, x)
  <2> DEFINE found == {"chunk"} \X {c \in stored : ChunkAllowed(c, old.blocked)}
             x == [old EXCEPT !.at = "vectors", !.hits = found]
  <2>1. call' = [call EXCEPT ![r] = x] BY <1>4 DEF Fts, MemoryInv, ReadTypesOK
  <2>2. /\ found \subseteq Hits
        /\ \A c \in Chunks : /\ <<"chunk", c>> \in found => Origins(c) \intersect old.blocked = {}
                             /\ <<"record", c>> \notin found
    BY <1>2 DEF Hits, ChunkAllowed, RecordsInv, RecordsTypeOK
  <2> HIDE DEF found
  <2>3. /\ x \in Calls
        /\ x.at = "vectors"
        /\ x.hits = found
        /\ x.blocked = old.blocked
        /\ x.settled = old.settled
    BY <1>1, <2>2 DEF Calls
  <2> HIDE DEF x, old
  <2>4. CallOK(x) BY <2>2, <2>3 DEF CallOK, HitsAllowed
  <2> QED BY <1>1, <2>1, <2>3, <2>4 DEF CallStep
<1>5. ASSUME Vectors(r)
      PROVE  \E x : CallStep(r, x)
  <2> DEFINE found == {"chunk"} \X {c \in stored \intersect embedded : ChunkAllowed(c, old.blocked)}
             x == [old EXCEPT !.at = "curated", !.hits = @ \union found]
  <2>1. call' = [call EXCEPT ![r] = x] BY <1>5 DEF Vectors, MemoryInv, ReadTypesOK
  <2>2. /\ found \subseteq Hits
        /\ \A c \in Chunks : /\ <<"chunk", c>> \in found => Origins(c) \intersect old.blocked = {}
                             /\ <<"record", c>> \notin found
    BY <1>2 DEF Hits, ChunkAllowed, RecordsInv, RecordsTypeOK
  <2> HIDE DEF found
  <2>3. /\ x \in Calls
        /\ x.at = "curated"
        /\ x.hits = old.hits \union found
        /\ x.blocked = old.blocked
        /\ x.settled = old.settled
    BY <1>1, <2>2 DEF Calls
  <2> HIDE DEF x, old
  <2>4. CallOK(x) BY <1>1, <2>2, <2>3 DEF CallOK, HitsAllowed
  <2> QED BY <1>1, <2>1, <2>3, <2>4 DEF CallStep
<1>6. ASSUME Curated(r)
      PROVE  \E x : CallStep(r, x)
  <2> DEFINE found == {"record"} \X {c \in Chunks : /\ records[c] # None
                                                    /\ records[c].status = "active"
                                                    /\ RecordAllowed(c, old.blocked)}
             x == [old EXCEPT !.at = "rank", !.hits = @ \union found]
  <2>1. call' = [call EXCEPT ![r] = x] BY <1>6 DEF Curated, MemoryInv, ReadTypesOK
  <2>2. /\ found \subseteq Hits
        /\ \A c \in Chunks :
             /\ <<"chunk", c>> \notin found
             /\ <<"record", c>> \in found =>
                  /\ {Record(c), c} \intersect old.blocked = {}
                  /\ <<c, "conversation">> \in links => Conversation \notin old.blocked
    BY DEF Hits, RecordAllowed
  <2> HIDE DEF found
  <2>3. /\ x \in Calls
        /\ x.at = "rank"
        /\ x.hits = old.hits \union found
        /\ x.blocked = old.blocked
        /\ x.settled = old.settled
    BY <1>1, <2>2 DEF Calls
  <2> HIDE DEF x, old
  <2>4. CallOK(x) BY <1>1, <2>2, <2>3 DEF CallOK, HitsAllowed
  <2> QED BY <1>1, <2>1, <2>3, <2>4 DEF CallStep
<1>7. ASSUME Rank(r)
      PROVE  \E x : CallStep(r, x)
  <2>1. PICK kept \in SUBSET old.hits :
          call' = [call EXCEPT ![r] = [old EXCEPT !.hits = kept,
                                                  !.at = IF Logs(r) THEN "log" ELSE "answer"]]
    BY <1>7 DEF Rank, MemoryInv, ReadTypesOK
  <2> DEFINE at == IF Logs(r) THEN "log" ELSE "answer"
             x  == [old EXCEPT !.hits = kept, !.at = at]
  <2>2. at \in {"log", "answer"} OBVIOUS
  <2>3. call' = [call EXCEPT ![r] = x] BY <2>1
  <2> HIDE DEF at
  <2>4. /\ x \in Calls
        /\ x.at = at
        /\ x.hits = kept
        /\ x.blocked = old.blocked
        /\ x.settled = old.settled
    BY <1>1, <2>2 DEF Calls
  <2> HIDE DEF x, old
  <2>5. CallOK(x) BY <1>1, <2>2, <2>4 DEF CallOK, HitsAllowed
  <2> QED BY <1>1, <2>3, <2>4, <2>5 DEF CallStep
<1>8. ASSUME Log(r)
      PROVE  \E x : CallStep(r, x)
  <2> DEFINE x == [old EXCEPT !.at = "answer", !.logged = TRUE]
  <2>1. call' = [call EXCEPT ![r] = x] BY <1>8 DEF Log, MemoryInv, ReadTypesOK
  <2>2. /\ x \in Calls
        /\ x.at = "answer"
        /\ x.hits = old.hits
        /\ x.blocked = old.blocked
        /\ x.settled = old.settled
    BY <1>1 DEF Calls
  <2> HIDE DEF x, old
  <2>3. CallOK(x) BY <1>1, <2>2 DEF CallOK, HitsAllowed
  <2> QED BY <1>1, <2>1, <2>2, <2>3 DEF CallStep
<1>9. ASSUME SearchSlot(r)
      PROVE  \E x : CallStep(r, x)
  <2> DEFINE x == [old EXCEPT !.slot = TRUE, !.hits = {}]
  <2>1. x \in Calls /\ x.hits = {} BY <1>1 DEF Calls
  <2>2. call' = [call EXCEPT ![r] = Begin(x)] BY <1>9 DEF SearchSlot
  <2> HIDE DEF x
  <2> QED BY <1>2, <2>1, <2>2, BeginIsCall DEF CallStep
<1>10. ASSUME EndCall(r)
       PROVE  \E x : CallStep(r, x)
  <2>1. call' = [call EXCEPT ![r] = Resting] BY <1>10 DEF EndCall
  <2>2. CallOK(Resting) BY RestingIsCall DEF CallOK, HitsAllowed
  <2> QED BY <2>1, <2>2, RestingIsCall DEF CallStep
<1> QED BY <1>3, <1>4, <1>5, <1>6, <1>7, <1>8, <1>9, <1>10 DEF ReaderStep

LEMMA ReaderKeeps ==
  ASSUME MemoryInv, NEW r \in Readers, ReaderStep(r), UNCHANGED recordVars
  PROVE  MemoryInv'
<1>1. PICK x : CallStep(r, x) BY ReaderCalls
<1>2. UNCHANGED <<activity, embedded, todo, export>>
  BY DEF ReaderStep, Ask, Fts, Vectors, Curated, Rank, Log, SearchSlot, EndCall
<1>3. /\ call' \in [Readers -> Calls]
      /\ call'[r] = x
      /\ \A q \in Readers \ {r} : call'[q] = call[q]
  BY <1>1 DEF CallStep, MemoryInv, ReadTypesOK
<1>4. RecordsInv'
  <2>1. TableStep BY DEF TableStep, recordVars, MemoryInv, RecordsInv, RecordsTypeOK
  <2> QED BY <2>1, TablesKept DEF MemoryInv
<1>5. ReadTypesOK' BY <1>2, <1>3 DEF MemoryInv, ReadTypesOK
<1>6. \A q \in Readers : CallOK(call'[q])
  BY <1>1, <1>3 DEF CallStep, MemoryInv
<1>7. SettledLinked'
  BY <1>1, <1>3 DEF CallStep, MemoryInv, SettledLinked, recordVars
<1>8. ExportOK'
  BY <1>2 DEF MemoryInv, ExportOK, DanglingIsFlagged, RecordRows, recordVars
<1> QED BY <1>4, <1>5, <1>6, <1>7, <1>8 DEF MemoryInv

\* A step on the tables, whatever becomes of the embeddings.
LEMMA TablesKeep ==
  ASSUME MemoryInv, TableStep, UNCHANGED <<activity, call, export>>,
         embedded' \subseteq Chunks, todo' \subseteq Chunks
  PROVE  MemoryInv'
<1>1. RecordsInv' BY TablesKept DEF MemoryInv
<1>2. RecordRows \subseteq RecordRows' /\ links \subseteq links'
  BY TablesGrow DEF MemoryInv
<1>3. ReadTypesOK' BY DEF MemoryInv, ReadTypesOK
<1>4. \A r \in Readers : CallOK(call'[r]) BY DEF MemoryInv
<1>5. SettledLinked' BY <1>2 DEF MemoryInv, SettledLinked
<1>6. ExportOK' BY <1>2 DEF MemoryInv, ExportOK, DanglingIsFlagged
<1> QED BY <1>1, <1>3, <1>4, <1>5, <1>6 DEF MemoryInv

LEMMA ExportKeeps ==
  ASSUME MemoryInv, ExportStep
  PROVE  MemoryInv'
<1>1. UNCHANGED <<activity, embedded, todo, call>> /\ UNCHANGED recordVars
  BY DEF ExportStep, ExportRecords, ExportLinks, ExportCounts, ExportAgain
<1>2. /\ RecordRows' = RecordRows
      /\ RecordRows \subseteq Chunks
      /\ links \subseteq Chunks \X {"chunk", "conversation"}
      /\ \A link \in links : link[1] \in RecordRows
  BY <1>1 DEF recordVars, RecordRows, MemoryInv, RecordsInv, RecordsTypeOK, LinksOK
<1>3. export' \in Exports /\ ExportOK'
  <2>1. CASE ExportRecords
    <3>1. PICK rows \in SUBSET RecordRows :
            export' = [NoExport EXCEPT !.at = "links", !.records = rows]
      BY <2>1 DEF ExportRecords, FirstRows
    <3>2. /\ export' \in Exports
          /\ export'.at = "links"
          /\ export'.records = rows
      BY <1>2, <3>1 DEF NoExport, Exports
    <3> QED BY <1>2, <3>2 DEF ExportOK, DanglingIsFlagged
  <2>2. CASE ExportLinks
    <3>1. PICK rows \in SUBSET links : export' = [export EXCEPT !.at = "counts", !.links = rows]
      BY <2>2 DEF ExportLinks, FirstRows
    <3>2. /\ export' \in Exports
          /\ export'.at = "counts"
          /\ export'.records = export.records
          /\ export'.links = rows
      BY <1>2, <3>1 DEF Exports, MemoryInv, ReadTypesOK
    <3>3. export.records \subseteq RecordRows BY <2>2 DEF ExportLinks, MemoryInv, ExportOK
    <3> QED BY <1>2, <3>2, <3>3 DEF ExportOK, DanglingIsFlagged
  <2>3. CASE ExportCounts
    <3>1. /\ export.at = "counts"
          /\ export' = [export EXCEPT !.at = "done", !.truncated = Truncated]
      BY <2>3 DEF ExportCounts
    <3>2. Truncated \in BOOLEAN BY DEF Truncated
    <3>3. /\ export' \in Exports
          /\ export'.at = "done"
          /\ export'.records = export.records
          /\ export'.links = export.links
          /\ export'.truncated = Truncated
      BY <3>1, <3>2 DEF Exports, MemoryInv, ReadTypesOK
    <3>4. ASSUME NEW link \in export.links, link[1] \notin export.records
          PROVE  Truncated
      <4>1. /\ export.records \in SUBSET RecordRows
            /\ link[1] \in RecordRows
        BY <3>1, <3>4 DEF MemoryInv, ExportOK
      <4>2. IsFiniteSet(RecordRows)
        BY <1>2, FS_Subset, RecordsAssumption
      <4>3. /\ Cardinality(export.records) <= Cardinality(RecordRows)
            /\ Cardinality(export.records) # Cardinality(RecordRows)
            /\ IsFiniteSet(export.records)
        BY <3>4, <4>1, <4>2, FS_Subset
      <4>4. Cardinality(export.records) \in Nat /\ Cardinality(RecordRows) \in Nat
        BY <4>2, <4>3, FS_CardinalityType
      <4> QED BY <4>3, <4>4 DEF Truncated
    <3> QED BY <3>3, <3>4 DEF ExportOK, DanglingIsFlagged
  <2>4. CASE ExportAgain
    <3>1. export' = NoExport BY <2>4 DEF ExportAgain
    <3> QED BY <3>1 DEF NoExport, Exports, ExportOK, DanglingIsFlagged
  <2> QED BY <2>1, <2>2, <2>3, <2>4 DEF ExportStep
<1>4. RecordsInv'
  <2>1. TableStep BY <1>1 DEF TableStep, recordVars, MemoryInv, RecordsInv, RecordsTypeOK
  <2> QED BY <2>1, TablesKept DEF MemoryInv
<1>5. ReadTypesOK' BY <1>1, <1>3 DEF MemoryInv, ReadTypesOK
<1>6. \A r \in Readers : CallOK(call'[r]) BY <1>1 DEF MemoryInv
<1>7. SettledLinked' BY <1>1 DEF MemoryInv, SettledLinked, recordVars
<1> QED BY <1>3, <1>4, <1>5, <1>6, <1>7 DEF MemoryInv

-------------------------------------------------------------------------------
(* The invariant, and the theorems.                                        *)

LEMMA MemoryInvInit == MemoryInit => MemoryInv
<1> SUFFICES ASSUME MemoryInit PROVE MemoryInv
  OBVIOUS
<1>1. Unrated \in [Ratings -> Nat] BY DEF Unrated
<1>2. Idle \in WorkStates /\ Idle.step = "idle" BY IdleIsState
<1>3. RecordsTypeOK
  BY <1>1, <1>2 DEF MemoryInit, RecordsInit, RecordsTypeOK, WorkStates
<1>4. WritersOK BY <1>2 DEF MemoryInit, RecordsInit, WritersOK, Has
<1>5. RatingsOK BY <1>2 DEF MemoryInit, RecordsInit, RatingsOK, InFlight
<1>6. RecordsInv BY <1>3, <1>4, <1>5 DEF RecordsInv, LinksOK, MemoryInit, RecordsInit
<1>7. NoExport \in Exports /\ NoExport.at = "idle" BY DEF NoExport, Exports
<1>8. ReadTypesOK BY <1>7, RestingIsCall DEF MemoryInit, ReadTypesOK
<1>9. \A r \in Readers : CallOK(call[r])
  BY RestingIsCall DEF MemoryInit, CallOK, HitsAllowed
<1>10. SettledLinked BY RestingIsCall DEF MemoryInit, SettledLinked
<1>11. ExportOK BY <1>7 DEF MemoryInit, ExportOK, DanglingIsFlagged
<1> QED BY <1>6, <1>8, <1>9, <1>10, <1>11 DEF MemoryInv

LEMMA MemoryInvNext == MemoryInv /\ [MemoryNext]_memoryVars => MemoryInv'
<1> SUFFICES ASSUME MemoryInv, [MemoryNext]_memoryVars PROVE MemoryInv'
  OBVIOUS
<1> USE DEF readVars
<1>1. embedded \subseteq Chunks /\ todo \subseteq Chunks /\ stored \subseteq Chunks
  BY DEF MemoryInv, ReadTypesOK, RecordsInv, RecordsTypeOK
<1>2. CASE UNCHANGED memoryVars
  <2>1. TableStep BY <1>1, <1>2 DEF TableStep, memoryVars, recordVars
  <2> QED BY <1>1, <1>2, <2>1, TablesKeep DEF memoryVars
<1>3. CASE /\ \/ \E w \in Promoters : Promote(w)
              \/ \E w \in Writers : WriterDies(w)
              \/ \E x \in Sources : Tombstone(x)
           /\ UNCHANGED readVars
  <2>1. TableStep BY <1>3, RecordsAssumption DEF TableStep
  <2> QED BY <1>1, <1>3, <2>1, TablesKeep
<1>4. CASE RateStep
  <2>1. TableStep BY <1>4 DEF TableStep, RateStep
  <2> QED BY <1>1, <1>4, <2>1, TablesKeep DEF RateStep
<1>5. CASE ExportStep BY <1>5, ExportKeeps
<1>6. CASE SearchStep
  <2>1. ASSUME NEW r \in Readers, ReaderStep(r), UNCHANGED recordVars
        PROVE  MemoryInv'
    BY <2>1, ReaderKeeps
  <2>2. ASSUME ListChunks \/ (\E c \in Chunks : StoreEmbedding(c)) \/ EmbeddingEnds,
               UNCHANGED recordVars
        PROVE  MemoryInv'
    <3>1. /\ UNCHANGED <<activity, call, export>>
          /\ embedded' \subseteq Chunks
          /\ todo' \subseteq Chunks
      BY <1>1, <2>2 DEF ListChunks, StoreEmbedding, EmbeddingEnds
    <3>2. TableStep BY <1>1, <2>2 DEF TableStep, recordVars
    <3> QED BY <3>1, <3>2, TablesKeep
  <2>3. ASSUME NEW new \in (SUBSET Chunks) \ {{}}, Import(new)
        PROVE  MemoryInv'
    <3>1. TableStep BY <2>3 DEF TableStep, Import
    <3> QED BY <1>1, <2>3, <3>1, TablesKeep DEF Import
  <2> QED BY <1>6, <2>1, <2>2, <2>3 DEF SearchStep
<1> QED BY <1>2, <1>3, <1>4, <1>5, <1>6 DEF MemoryNext

THEOREM MemoryInvariant == MemorySpec => []MemoryInv
BY MemoryInvInit, MemoryInvNext, PTL DEF MemorySpec

\* Every table and every process is of its type, with any number of processes.
THEOREM MemoryTypeCorrect == MemorySpec => []MemoryTypeOK
<1>1. MemoryInv => MemoryTypeOK
  BY DEF MemoryInv, RecordsInv, ReadTypesOK, Calls, Exports, MemoryTypeOK
<1> QED BY <1>1, MemoryInvariant, PTL

\* record_memory_feedback: the counts of a record are those of its ratings unless
\* writers disturbed each other, and a stale record has had two downs however many
\* writers rate, promote and die.
THEOREM CountsAreTrue == MemorySpec => []RatingsAreCounted
<1>1. MemoryInv => RatingsAreCounted
  <2> SUFFICES ASSUME MemoryInv, NEW c \in Chunks, records[c] # None
               PROVE  /\ c \notin disturbed =>
                           \A r \in Given :
                             ratings[c][r] = records[c].summary[r] + Cardinality(InFlight(c, r))
                      /\ records[c].status = "stale" => ratings[c]["down"] >= 2
    BY DEF RatingsAreCounted
  <2>1. Below(records[c], Downs(c), Pending(c, "down")) /\ (c \in disturbed \/ Exact(c))
    BY DEF MemoryInv, RecordsInv, RatingsOK
  <2>2. Given \subseteq Ratings BY RecordsAssumption
  <2> QED BY <2>1, <2>2 DEF Below, Downs, Exact, Pending
<1> QED BY <1>1, MemoryInvariant, PTL

\* search_chatgpt_memory: no search returns a chunk or a record that a tombstone set
\* before it covers, but for the two gaps that the property names.
THEOREM TombstonesHold == MemorySpec => []SearchHonoursTombstones
<1>1. MemoryInv => SearchHonoursTombstones
  BY DEF MemoryInv, CallOK, HitsAllowed, SearchHonoursTombstones
<1> QED BY <1>1, MemoryInvariant, PTL

\* export_staging_snapshot: a snapshot with a link to a record it lacks is marked
\* as truncated, whatever is promoted while it is read.
THEOREM SnapshotsAreHonest == MemorySpec => []DanglingIsFlagged
<1>1. MemoryInv => DanglingIsFlagged
  BY DEF MemoryInv, ExportOK
<1> QED BY <1>1, MemoryInvariant, PTL

===============================================================================
