-------------------------- MODULE ExchangeProofs --------------------------
(***************************************************************************)
(* What is given to agents and peers: the context cache, the rewrites, the *)
(* stored results of context assembly, the federation pull and the mesh    *)
(* server, each for any values of its constants, and the suite that        *)
(* composes them.  They share no state; all but the cache are instances    *)
(* with names of their own.                                                *)
(*                                                                         *)
(* The size of the cache is not inductive by itself: the excess of an      *)
(* eviction was counted before others stored and evicted.  A marker is     *)
(* redeemed two statements after it was validated; what was compressed     *)
(* stays compressed, so the caller is still one who compressed the text.   *)
(*                                                                         *)
(* Of a pull, NoBackToBackAnswer is not inductive: the invariant says what *)
(* a request saw of the log before it searches, and that every request has *)
(* a time later than what was in the log when it came.                     *)
(*                                                                         *)
(* A rewrite's overshoot is bounded because a handler past the limit holds *)
(* a place that was counted free; an event is stored once because only one *)
(* handler of it is between its look-up and its row.                       *)
(*                                                                         *)
(* Of the walk, what was delivered is behind the cursor; of the fetch, the *)
(* ids in the plan, in the answer and in hand complete its counters.       *)
(***************************************************************************)
EXTENDS MCExchange, FiniteSetTheorems, SequenceTheorems, WellFoundedInduction, TLAPS

Control == [pc : {"idle", "store", "count", "evict", "validate", "fetch", "decide", "touch"},
            call : Call, row : Row, excess : Nat]

\* The processes that owe an eviction.
Evicting == {p \in Procs : proc[p].pc \in {"count", "evict"}}

\* A row has an id and a key of its own, counts issues only, and names an issuer
\* that compressed its text.
RowsInv ==
  /\ cache \subseteq Row /\ rowid \in Nat
  /\ \A r, s \in cache : (r.project = s.project /\ r.text = s.text) \/ r.id = s.id => r = s
  /\ \A r \in cache : /\ r.id < rowid
                      /\ r.count <= issued[r.project, r.text]
                      /\ r.issuer # Nobody => <<r.issuer, r.project, r.text>> \in compressed

\* A call that named its caller in strict mode goes on only for a text that this
\* caller compressed, and the row it read is the one it asked for.
Redeems(c) ==
  /\ config.strict /\ c.call.who # Nobody /\ c.pc \in {"fetch", "decide"} =>
       /\ c.call.project # Unscoped
       /\ <<c.call.who, c.call.project, c.call.text>> \in compressed
  /\ c.pc = "decide" => /\ c.row.text = c.call.text
                        /\ c.call.project # Unscoped => c.row.project = c.call.project

\* A process that counted the excess still covers it: what came since then was
\* stored by others, who have not evicted yet.
ExcessCovered ==
  \A p \in Procs : proc[p].pc = "evict" =>
    /\ proc[p].excess > 0
    /\ Cardinality(cache) <= MaxEntries + proc[p].excess + Cardinality(Evicting \ {p})

OtherTypes ==
  /\ quarantined \in Seq(Texts) /\ config \in Configs
  /\ compressed \subseteq Issuers \X Scopes \X Texts
  /\ issued \in [Scopes \X Texts -> Nat]
  /\ last \in [text : Texts, project : Scopes, to : Issuers \cup {Nobody},
               stamped : BOOLEAN, how : Shown]

IInv ==
  /\ RowsInv /\ OtherTypes
  /\ proc \in [Procs -> Control] /\ \A p \in Procs : Redeems(proc[p])
  /\ IssuedToCompressor
  /\ IsFiniteSet(cache) /\ CacheBounded /\ ExcessCovered

-----------------------------------------------------------------------------
(* The order of eviction.                                                  *)

\* A non-empty set of numbers has a least one.
LEMMA LeastExists ==
  ASSUME NEW S \in SUBSET Nat, S # {}
  PROVE  \E m \in S : \A x \in S : m <= x
  <1>1. PICK y \in S : \A z \in S : ~(<<z, y>> \in OpToRel(<, Nat))
    BY NatLessThanWellFounded, WFMin
  <1>2. ASSUME NEW x \in S PROVE y <= x
    <2>1. ~(x < y)
      BY <1>1 DEF OpToRel
    <2> QED BY <2>1
  <1> QED BY <1>2

\* Some row of a set has no other row of the set before it.
LEMMA FirstToGo ==
  ASSUME NEW S, S \subseteq Row, S # {}
  PROVE  \E r \in S : \A s \in S : ~Before(s, r)
  <1>1. \A r \in S : r.count \in Nat /\ r.id \in Nat
    BY DEF Row
  <1>2. PICK m \in {r.count : r \in S} : \A x \in {r.count : r \in S} : m <= x
    <2> DEFINE C == {r.count : r \in S}
    <2>1. C \in SUBSET Nat /\ C # {}
      BY <1>1
    <2> QED BY <2>1, LeastExists
  <1> DEFINE T == {r \in S : r.count = m}
  <1>3. PICK n \in {r.id : r \in T} : \A x \in {r.id : r \in T} : n <= x
    <2> DEFINE I == {r.id : r \in T}
    <2>1. I \in SUBSET Nat /\ I # {}
      BY <1>1, <1>2
    <2> QED BY <2>1, LeastExists
  <1>4. PICK r \in T : r.id = n
    BY <1>3
  <1>5. ASSUME NEW s \in S PROVE ~Before(s, r)
    <2>1. r \in S /\ r.count = m /\ m <= s.count
      BY <1>2, <1>4
    <2>2. s.count = m => r.id <= s.id
      BY <1>3, <1>4
    <2> QED BY <1>1, <2>1, <2>2 DEF Before
  <1> QED BY <1>4, <1>5

\* An eviction of n rows leaves n rows less, or none.
LEMMA EvictionShrinks ==
  ASSUME cache \subseteq Row, IsFiniteSet(cache), NEW n \in Nat
  PROVE  /\ IsFiniteSet(cache \ LeastUsed(n))
         /\ cache \ LeastUsed(n) = {} \/ Cardinality(cache \ LeastUsed(n)) + n <= Cardinality(cache)
  <1> DEFINE D == LeastUsed(n)
  <1>1. D \subseteq cache /\ IsFiniteSet(D) /\ IsFiniteSet(cache \ D)
    BY FS_Subset DEF LeastUsed
  <1>2. Cardinality(D) \in Nat /\ Cardinality(cache \ D) \in Nat /\ Cardinality(cache) \in Nat
    BY <1>1, FS_CardinalityType
  <1>3. Cardinality(cache \ D) = Cardinality(cache) - Cardinality(D)
    <2>1. cache \cap D = D
      BY <1>1
    <2> QED BY <1>1, <2>1, FS_Difference
  <1>4. CASE cache \ D = {}
    BY <1>1, <1>4
  <1>5. CASE cache \ D # {}
    <2>1. PICK r \in cache \ D : \A s \in cache \ D : ~Before(s, r)
      <3>1. cache \ D \subseteq Row
        OBVIOUS
      <3> HIDE DEF D
      <3> QED BY <1>5, <3>1, FirstToGo
    <2> DEFINE E == {s \in cache : Before(s, r)}
    <2>2. E \subseteq D
      BY <2>1
    <2>3. IsFiniteSet(E) /\ Cardinality(E) \in Nat /\ Cardinality(E) <= Cardinality(D)
      BY <1>1, <2>2, FS_Subset, FS_CardinalityType
    <2>4. ~(Cardinality(E) < n)
      BY <2>1 DEF LeastUsed
    <2>5. n <= Cardinality(D)
      BY <1>2, <2>3, <2>4
    <2> QED BY <1>1, <1>2, <1>3, <2>5
  <1> QED BY <1>4, <1>5

\* A row in place of at most one other leaves the table as large, a new row makes
\* it larger by one.
LEMMA Replaced ==
  ASSUME IsFiniteSet(cache), NEW old, old \subseteq cache, NEW new,
         \A r, s \in old : r = s, \A r, s \in new : r = s,
         cache' = (cache \ old) \cup new
  PROVE  /\ IsFiniteSet(cache') /\ Cardinality(cache') <= Cardinality(cache) + 1
         /\ (old = {} => new = {}) => Cardinality(cache') <= Cardinality(cache)
  <1>1. IsFiniteSet(cache \ old) /\ Cardinality(cache) \in Nat /\ Cardinality(cache \ old) \in Nat
        /\ Cardinality(cache \ old) <= Cardinality(cache)
    BY FS_Subset, FS_CardinalityType
  <1>2. CASE new = {}
    BY <1>1, <1>2
  <1>3. CASE new # {}
    <2>1. PICK x : new = {x}
      BY <1>3
    <2>2. /\ IsFiniteSet(cache') /\ Cardinality(cache') \in Nat
          /\ Cardinality(cache') <= Cardinality(cache \ old) + 1
      <3> DEFINE rest == cache \ old
      <3>1. cache' = rest \cup {x}
        BY <2>1
      <3>2. CASE x \in rest
        <4>1. cache' = rest
          BY <3>1, <3>2
        <4> QED BY <1>1, <4>1
      <3>3. CASE x \notin rest
        <4>1. IsFiniteSet(rest \cup {x}) /\ Cardinality(rest \cup {x}) = Cardinality(rest) + 1
          BY <1>1, <3>3, FS_AddElement
        <4> QED BY <1>1, <3>1, <4>1
      <3> QED BY <3>2, <3>3
    <2>3. CASE old = {}
      BY <1>1, <1>3, <2>2, <2>3
    <2>4. CASE old # {}
      <3>1. PICK y \in old : old = {y}
        BY <2>4
      <3>2. Cardinality(cache \ old) = Cardinality(cache) - 1
        BY <3>1, FS_RemoveElement
      <3> QED BY <1>1, <2>2, <3>2
    <2> QED BY <2>3, <2>4
  <1> QED BY <1>2, <1>3

-----------------------------------------------------------------------------
(* The size of the table.                                                  *)

\* The part of the invariant about the size, and what changes it.
SizeInv == IsFiniteSet(cache) /\ CacheBounded /\ ExcessCovered /\ proc \in [Procs -> Control]

\* Process p moves to c.
Moves(p, c) == proc' = [proc EXCEPT ![p] = c] /\ c \in Control

\* Who owes an eviction after a move.
LEMMA EvictingMoves ==
  ASSUME proc \in [Procs -> Control], NEW p \in Procs, NEW c, Moves(p, c)
  PROVE  /\ proc' \in [Procs -> Control] /\ proc'[p] = c
         /\ \A q \in Procs \ {p} : proc'[q] = proc[q]
         /\ Evicting' = IF c.pc \in {"count", "evict"} THEN Evicting \cup {p} ELSE Evicting \ {p}
  BY DEF Moves, Evicting

\* One element more or less.
LEMMA OneMoreOrLess ==
  ASSUME NEW S, IsFiniteSet(S), NEW p
  PROVE  /\ Cardinality(S) \in Nat /\ IsFiniteSet(S \ {p}) /\ Cardinality(S \ {p}) \in Nat
         /\ p \in S => Cardinality(S) = Cardinality(S \ {p}) + 1 /\ S \cup {p} = S
         /\ p \notin S => /\ S \ {p} = S /\ Cardinality(S \cup {p}) = Cardinality(S) + 1
  <1>1. Cardinality(S) \in Nat /\ IsFiniteSet(S \ {p}) /\ Cardinality(S \ {p}) \in Nat
    BY FS_Subset, FS_CardinalityType
  <1>2. p \in S => Cardinality(S \ {p}) = Cardinality(S) - 1
    BY FS_RemoveElement
  <1>3. p \notin S => Cardinality(S \cup {p}) = Cardinality(S) + 1
    BY FS_AddElement
  <1> QED BY <1>1, <1>2, <1>3

\* The processes that owe an eviction are finitely many.
LEMMA EvictingIsFinite == IsFiniteSet(Evicting) /\ \A q : IsFiniteSet(Evicting \ {q})
  BY CacheAssumption, FS_Subset DEF Evicting

\* A process that owes no eviction and goes where it owes none.
LEMMA SizeQuiet ==
  ASSUME SizeInv, NEW p \in Procs, NEW c, Moves(p, c), p \notin Evicting,
         c.pc \notin {"count", "evict"},
         IsFiniteSet(cache'), Cardinality(cache') <= Cardinality(cache)
  PROVE  SizeInv'
  <1>1. proc' \in [Procs -> Control] /\ Evicting' = Evicting
        /\ \A q \in Procs : proc'[q].pc = "evict" => proc'[q] = proc[q]
    BY EvictingMoves DEF SizeInv
  <1>3. Cardinality(cache) \in Nat /\ Cardinality(cache') \in Nat
    BY FS_CardinalityType DEF SizeInv
  <1>4. CacheBounded'
    <2>1. Cardinality(Evicting) \in Nat
      BY EvictingIsFinite, FS_CardinalityType
    <2>2. Cardinality(cache) <= MaxEntries + Cardinality(Evicting)
      BY DEF SizeInv, CacheBounded, Evicting
    <2>3. Cardinality(cache') <= MaxEntries + Cardinality(Evicting')
      BY <1>1, <1>3, <2>1, <2>2, CacheAssumption
    <2> QED BY <2>3 DEF CacheBounded, Evicting
  <1>5. ASSUME NEW q \in Procs, proc'[q].pc = "evict"
        PROVE  proc'[q].excess > 0
               /\ Cardinality(cache') <= MaxEntries + proc'[q].excess + Cardinality(Evicting' \ {q})
    <2>1. proc'[q] = proc[q] /\ proc[q].excess \in Nat
      BY <1>1, <1>5 DEF SizeInv, Control
    <2>2. Cardinality(Evicting \ {q}) \in Nat
      BY EvictingIsFinite, FS_CardinalityType
    <2>3. proc[q].excess > 0
          /\ Cardinality(cache) <= MaxEntries + proc[q].excess + Cardinality(Evicting \ {q})
      BY <1>5, <2>1 DEF SizeInv, ExcessCovered
    <2>4. Cardinality(cache') <= MaxEntries + proc[q].excess + Cardinality(Evicting \ {q})
      BY <1>3, <2>1, <2>2, <2>3, CacheAssumption
    <2> QED BY <1>1, <2>1, <2>3, <2>4
  <1> QED BY <1>1, <1>4, <1>5 DEF SizeInv, ExcessCovered

\* A process that goes to count, with one row more at the most.
LEMMA SizeStored ==
  ASSUME SizeInv, NEW p \in Procs, NEW c, Moves(p, c), p \notin Evicting, c.pc = "count",
         IsFiniteSet(cache'), Cardinality(cache') <= Cardinality(cache) + 1
  PROVE  SizeInv'
  <1>1. proc' \in [Procs -> Control] /\ Evicting' = Evicting \cup {p}
        /\ \A q \in Procs : proc'[q].pc = "evict" => q # p /\ proc'[q] = proc[q]
    BY EvictingMoves DEF SizeInv
  <1>2. Cardinality(cache) \in Nat /\ Cardinality(cache') \in Nat
    BY FS_CardinalityType DEF SizeInv
  <1>3. CacheBounded'
    <2>1. Cardinality(Evicting) \in Nat /\ Cardinality(Evicting') = Cardinality(Evicting) + 1
      BY <1>1, EvictingIsFinite, OneMoreOrLess
    <2>2. Cardinality(cache) <= MaxEntries + Cardinality(Evicting)
      BY DEF SizeInv, CacheBounded, Evicting
    <2>3. Cardinality(cache') <= MaxEntries + Cardinality(Evicting')
      BY <1>2, <2>1, <2>2, CacheAssumption
    <2> QED BY <2>3 DEF CacheBounded, Evicting
  <1>4. ASSUME NEW q \in Procs, proc'[q].pc = "evict"
        PROVE  proc'[q].excess > 0
               /\ Cardinality(cache') <= MaxEntries + proc'[q].excess + Cardinality(Evicting' \ {q})
    <2>1. q # p /\ proc'[q] = proc[q] /\ proc[q].excess \in Nat
      BY <1>1, <1>4 DEF SizeInv, Control
    <2>2. /\ Cardinality(Evicting \ {q}) \in Nat
          /\ Cardinality(Evicting' \ {q}) = Cardinality(Evicting \ {q}) + 1
      <3> DEFINE S == Evicting \ {q}
      <3>1. Evicting' \ {q} = S \cup {p} /\ p \notin S /\ IsFiniteSet(S)
        BY <1>1, <2>1, EvictingIsFinite
      <3> HIDE DEF S
      <3>2. Cardinality(S) \in Nat /\ Cardinality(S \cup {p}) = Cardinality(S) + 1
        BY <3>1, OneMoreOrLess
      <3> QED BY <3>1, <3>2 DEF S
    <2>3. proc[q].excess > 0
          /\ Cardinality(cache) <= MaxEntries + proc[q].excess + Cardinality(Evicting \ {q})
      BY <1>4, <2>1 DEF SizeInv, ExcessCovered
    <2> QED BY <1>2, <2>1, <2>2, <2>3, CacheAssumption
  <1> QED BY <1>1, <1>3, <1>4 DEF SizeInv, ExcessCovered

\* A process that owes an eviction no more, and leaves at most as many rows as the
\* others account for.
LEMMA SizeEvicted ==
  ASSUME SizeInv, NEW p \in Procs, NEW c, Moves(p, c), p \in Evicting,
         c.pc \notin {"count", "evict"}, IsFiniteSet(cache'),
         Cardinality(cache') <= MaxEntries + Cardinality(Evicting \ {p})
  PROVE  SizeInv'
  <1>1. proc' \in [Procs -> Control] /\ Evicting' = Evicting \ {p}
        /\ \A q \in Procs : proc'[q].pc = "evict" => q # p /\ proc'[q] = proc[q]
    BY EvictingMoves DEF SizeInv
  <1>2. CacheBounded'
    BY <1>1 DEF CacheBounded, Evicting
  <1>3. ASSUME NEW q \in Procs, proc'[q].pc = "evict"
        PROVE  proc'[q].excess > 0
               /\ Cardinality(cache') <= MaxEntries + proc'[q].excess + Cardinality(Evicting' \ {q})
    <2>1. q # p /\ proc'[q] = proc[q] /\ proc[q].excess \in Nat /\ q \in Evicting
      BY <1>1, <1>3 DEF SizeInv, Control, Evicting
    <2>2. /\ Cardinality(Evicting' \ {q}) \in Nat
          /\ Cardinality(Evicting') = Cardinality(Evicting' \ {q}) + 1
      <3>1. q \in Evicting'
        BY <1>1, <2>1
      <3>2. IsFiniteSet(Evicting')
        BY <1>1, EvictingIsFinite
      <3> QED BY <3>1, <3>2, OneMoreOrLess
    <2>3. proc[q].excess > 0
      BY <1>3, <2>1 DEF SizeInv, ExcessCovered
    <2>4. Cardinality(cache') \in Nat
      BY FS_CardinalityType
    <2> QED BY <1>1, <2>1, <2>2, <2>3, <2>4, CacheAssumption
  <1> QED BY <1>1, <1>2, <1>3 DEF SizeInv, ExcessCovered

\* ccr_evict_lru counts the excess.
LEMMA SizeCounted ==
  ASSUME SizeInv, NEW p \in Procs, NEW c, Moves(p, c), p \in Evicting, c.pc = "evict",
         cache' = cache, c.excess = Excess, Excess # 0
  PROVE  SizeInv'
  <1>1. proc' \in [Procs -> Control] /\ Evicting' = Evicting /\ proc'[p] = c
        /\ \A q \in Procs \ {p} : proc'[q] = proc[q]
    BY EvictingMoves DEF SizeInv
  <1>2. Cardinality(cache) \in Nat /\ \A q : Cardinality(Evicting \ {q}) \in Nat
    BY EvictingIsFinite, FS_CardinalityType DEF SizeInv
  <1>3. Cardinality(cache) = MaxEntries + c.excess /\ c.excess > 0 /\ c.excess \in Nat
    BY <1>2, CacheAssumption DEF Excess
  <1>4. CacheBounded'
    BY <1>1 DEF CacheBounded, SizeInv, Evicting
  <1>5. Cardinality(cache) <= MaxEntries + c.excess + Cardinality(Evicting \ {p})
    BY <1>2, <1>3, CacheAssumption
  <1>6. ASSUME NEW q \in Procs, proc'[q].pc = "evict"
        PROVE  proc'[q].excess > 0
               /\ Cardinality(cache') <= MaxEntries + proc'[q].excess + Cardinality(Evicting' \ {q})
    BY <1>1, <1>3, <1>5, <1>6 DEF SizeInv, ExcessCovered
  <1> QED BY <1>1, <1>4, <1>6 DEF SizeInv, ExcessCovered

-----------------------------------------------------------------------------
(* The rows.                                                               *)

\* A row that left is not missed, and what is compressed stays compressed.
LEMMA RowsShrunk ==
  ASSUME RowsInv, cache' \subseteq cache, UNCHANGED <<rowid, issued>>, compressed \subseteq compressed'
  PROVE  RowsInv'
  BY DEF RowsInv

\* One row is another with the same key, id and issuer.
LEMMA OneRowChanged ==
  ASSUME RowsInv, NEW f \in cache, NEW g \in Row, cache' = (cache \ {f}) \cup {g},
         g.project = f.project, g.text = f.text, g.id = f.id, g.issuer = f.issuer,
         g.count <= issued'[g.project, g.text],
         \A r \in cache : r.count <= issued'[r.project, r.text],
         rowid' = rowid, compressed \subseteq compressed'
  PROVE  RowsInv'
  <1>1. cache' \subseteq Row /\ rowid' \in Nat
    BY DEF RowsInv
  <1>2. \A r, s \in cache' : (r.project = s.project /\ r.text = s.text) \/ r.id = s.id => r = s
    <2>1. \A r \in cache' : r = g \/ (r \in cache /\ r # f)
      OBVIOUS
    <2>2. \A r, s \in cache : (r.project = s.project /\ r.text = s.text) \/ r.id = s.id => r = s
      BY DEF RowsInv
    <2>3. \A r \in cache \ {f} : ~((r.project = g.project /\ r.text = g.text) \/ r.id = g.id)
      BY <2>2
    <2> QED BY <2>1, <2>2, <2>3
  <1>3. \A r \in cache' : /\ r.id < rowid' /\ r.count <= issued'[r.project, r.text]
                          /\ r.issuer # Nobody => <<r.issuer, r.project, r.text>> \in compressed'
    BY DEF RowsInv
  <1> QED BY <1>1, <1>2, <1>3 DEF RowsInv

\* ccr_store: a new row, or the old one with another verdict.
LEMMA RowsStored ==
  ASSUME RowsInv, NEW call \in Call, NEW verdict \in BOOLEAN,
         cache' = (cache \ Lookup(call.project, call.text)) \cup Upserted(call, verdict),
         rowid' = IF Lookup(call.project, call.text) = {} THEN rowid + 1 ELSE rowid,
         compressed' = IF call.who = Nobody THEN compressed
                       ELSE compressed \cup {<<call.who, call.project, call.text>>},
         issued' = issued, issued \in [Scopes \X Texts -> Nat]
  PROVE  RowsInv'
  <1> DEFINE old == Lookup(call.project, call.text)
             entry == [project |-> call.project, text |-> call.text, issuer |-> call.who,
                       hit |-> verdict, count |-> 0, id |-> rowid]
  <1>1. /\ cache \subseteq Row /\ rowid \in Nat /\ \A r \in cache : r.id < rowid
        /\ \A r, s \in cache : (r.project = s.project /\ r.text = s.text) \/ r.id = s.id => r = s
    BY DEF RowsInv
  <1>4. \A r \in cache : r.count <= issued[r.project, r.text]
    BY DEF RowsInv
  <1>5. \A r \in cache : r.issuer # Nobody => <<r.issuer, r.project, r.text>> \in compressed
    BY DEF RowsInv
  <1>2. CASE old = {}
    <2>1. cache' = cache \cup {entry} /\ rowid' = rowid + 1
      BY <1>2 DEF Upserted
    <2>2. entry \in Row
      BY <1>1 DEF Row, Call
    <2>3. \A r \in cache : ~(r.project = entry.project /\ r.text = entry.text)
      BY <1>2 DEF Lookup
    <2>4. entry.id = rowid /\ entry.count = 0
      OBVIOUS
    <2>5. entry.issuer # Nobody => <<entry.issuer, entry.project, entry.text>> \in compressed'
      OBVIOUS
    <2> HIDE DEF entry, old
    <2>6. \A r \in cache : r.id # entry.id /\ r.id \in Nat
      BY <1>1, <2>4 DEF Row
    <2>7. entry.count <= issued[entry.project, entry.text]
      <3>1. <<entry.project, entry.text>> \in Scopes \X Texts
        BY <2>2 DEF Row
      <3>5. PICK e : e = <<entry.project, entry.text>>
        OBVIOUS
      <3>6. issued[e] \in Nat
        BY <3>1, <3>5
      <3>2. issued[entry.project, entry.text] \in Nat
        BY <3>5, <3>6
      <3> DEFINE n == issued[entry.project, entry.text]
      <3>3. n \in Nat
        BY <3>2
      <3> HIDE DEF n
      <3>4. entry.count <= n
        BY <3>3, <2>4
      <3> QED BY <3>4 DEF n
    <2>8. cache' \subseteq Row /\ rowid' \in Nat
      BY <1>1, <2>1, <2>2
    <2>9. \A r, s \in cache' : (r.project = s.project /\ r.text = s.text) \/ r.id = s.id => r = s
      BY <1>1, <2>1, <2>3, <2>6
    <2>10. \A r \in cache' : r.id < rowid'
      BY <1>1, <2>1, <2>4, <2>6
    <2>11. \A r \in cache' : r.count <= issued'[r.project, r.text]
      BY <1>4, <2>1, <2>7
    <2>12. \A r \in cache' : r.issuer # Nobody => <<r.issuer, r.project, r.text>> \in compressed'
      BY <1>5, <2>1, <2>5
    <2> QED BY <2>8, <2>9, <2>10, <2>11, <2>12 DEF RowsInv
  <1>3. CASE old # {}
    <2>1. cache' = (cache \ old) \cup {[r EXCEPT !.hit = verdict] : r \in old} /\ rowid' = rowid
      BY <1>3 DEF Upserted
    <2>2. PICK f \in old : old = {f}
      BY <1>1, <1>3 DEF Lookup
    <2> DEFINE g == [f EXCEPT !.hit = verdict]
    <2>3. f \in cache /\ f \in Row
      BY <1>1, <2>2 DEF Lookup
    <2>4. cache' = (cache \ {f}) \cup {g}
      BY <2>1, <2>2
    <2>5. g \in Row /\ g.project = f.project /\ g.text = f.text /\ g.id = f.id
          /\ g.count = f.count /\ g.issuer = f.issuer
      BY <2>3 DEF Row
    <2> HIDE DEF g
    <2> QED BY <1>4, <2>1, <2>3, <2>4, <2>5, OneRowChanged
  <1> QED BY <1>2, <1>3

\* ccr_touch: one retrieval and one issue more.
LEMMA RowsTouched ==
  ASSUME RowsInv, NEW row \in Row, issued \in [Scopes \X Texts -> Nat],
         cache' = (cache \ Lookup(row.project, row.text))
                    \cup {[r EXCEPT !.count = @ + 1] : r \in Lookup(row.project, row.text)},
         issued' = [issued EXCEPT ![<<row.project, row.text>>] = @ + 1],
         UNCHANGED <<rowid, compressed>>
  PROVE  RowsInv'
  <1> DEFINE now == Lookup(row.project, row.text)
  <1>1. <<row.project, row.text>> \in Scopes \X Texts
    BY DEF Row
  <1>2. \A e \in Scopes \X Texts : issued[e] \in Nat /\ issued'[e] \in Nat /\ issued[e] <= issued'[e]
    BY <1>1
  <1>3. issued'[<<row.project, row.text>>] = issued[<<row.project, row.text>>] + 1
    BY <1>1
  <1>4. \A r \in cache : r \in Row /\ r.count <= issued'[r.project, r.text]
    <2>1. ASSUME NEW r \in cache PROVE r \in Row /\ r.count <= issued'[r.project, r.text]
      <3>1. r \in Row /\ r.count <= issued[<<r.project, r.text>>]
        BY DEF RowsInv
      <3>2. <<r.project, r.text>> \in Scopes \X Texts /\ r.count \in Nat
        BY <3>1 DEF Row
      <3> HIDE DEF now
      <3>3. issued[<<r.project, r.text>>] \in Nat /\ issued'[<<r.project, r.text>>] \in Nat
            /\ issued[<<r.project, r.text>>] <= issued'[<<r.project, r.text>>]
        BY <1>2, <3>2
      <3>4. r.count <= issued'[<<r.project, r.text>>]
        BY <3>1, <3>2, <3>3
      <3> QED BY <3>1, <3>4
    <2> QED BY <2>1
  <1>5. CASE now = {}
    <2>1. cache' = cache
      BY <1>5
    <2> QED BY <1>4, <2>1 DEF RowsInv
  <1>6. CASE now # {}
    <2>1. PICK f \in now : now = {f}
      BY <1>6 DEF RowsInv, Lookup
    <2> DEFINE g == [f EXCEPT !.count = @ + 1]
    <2>2. f \in cache /\ f \in Row /\ f.project = row.project /\ f.text = row.text
      BY <2>1 DEF Lookup, RowsInv
    <2>3. cache' = (cache \ {f}) \cup {g}
      BY <2>1
    <2>4. g \in Row /\ g.project = f.project /\ g.text = f.text /\ g.id = f.id
          /\ g.count = f.count + 1 /\ g.issuer = f.issuer
      BY <2>2 DEF Row
    <2> HIDE DEF g
    <2>5. g.count <= issued'[g.project, g.text]
      <3>1. f.count <= issued[<<f.project, f.text>>] /\ f.count \in Nat
        BY <2>2 DEF RowsInv, Row
      <3>2. issued[<<row.project, row.text>>] \in Nat
        BY <1>1, <1>2
      <3>3. g.project = row.project /\ g.text = row.text
        BY <2>2, <2>4
      <3>4. issued'[g.project, g.text] = issued[row.project, row.text] + 1
        BY <1>3, <3>3
      <3>5. f.count <= issued[row.project, row.text]
        BY <2>2, <3>1
      <3> DEFINE n == issued[row.project, row.text]
      <3>6. n \in Nat
        BY <3>2
      <3>7. n \in Nat /\ f.count <= n /\ issued'[g.project, g.text] = n + 1
        BY <3>6, <3>4, <3>5
      <3> HIDE DEF n
      <3>8. g.count = f.count + 1 /\ f.count \in Nat
        BY <2>4, <3>1
      <3>9. ASSUME NEW k \in Nat, NEW m \in Nat, k <= m PROVE k + 1 <= m + 1
        BY <3>9
      <3>10. g.count <= n + 1
        BY <3>7, <3>8, <3>9
      <3> QED BY <3>7, <3>10
    <2> QED BY <1>4, <2>2, <2>3, <2>4, <2>5, OneRowChanged DEF RowsInv
  <1> QED BY <1>5, <1>6

-----------------------------------------------------------------------------
(* One lemma per action: it keeps the invariant.                           *)

\* The empty row, call and control state have their types.
LEMMA Constants ==
  /\ NoRow \in Row /\ NoCall \in Call /\ Idle \in Control
  /\ Unscoped \in Scopes /\ NoRow.text \in Texts
  <1>1. (CHOOSE t \in Texts : TRUE) \in Texts
    BY CacheAssumption
  <1> QED BY <1>1 DEF NoRow, NoCall, Idle, Control, Row, Call, Scopes

\* A process that ends its call.
LEMMA Ends ==
  ASSUME proc \in [Procs -> Control], NEW p \in Procs, over(p)
  PROVE  Moves(p, Idle)
  BY Constants DEF over, Moves

\* A process that goes to another statement of its call.
LEMMA GoesOn ==
  ASSUME proc \in [Procs -> Control], NEW p \in Procs, NEW pc, then(p, pc),
         pc \in {"idle", "store", "count", "evict", "validate", "fetch", "decide", "touch"}
  PROVE  /\ Moves(p, [proc[p] EXCEPT !.pc = pc])
         /\ [proc[p] EXCEPT !.pc = pc].pc = pc
         /\ [proc[p] EXCEPT !.pc = pc].call = proc[p].call
         /\ [proc[p] EXCEPT !.pc = pc].row = proc[p].row
  <1>1. proc[p] \in Control
    OBVIOUS
  <1> QED BY <1>1 DEF then, Moves, Control

\* A process that begins a call.
LEMMA Begins ==
  ASSUME proc \in [Procs -> Control], NEW p \in Procs, NEW pc,
         NEW call \in Call, Calls(p, pc, call),
         pc \in {"store", "count", "validate", "fetch"}
  PROVE  /\ Moves(p, [pc |-> pc, call |-> call, row |-> NoRow, excess |-> 0])
         /\ proc[p].pc = "idle"
  <1>1. proc[p] = [pc |-> "idle", call |-> NoCall, row |-> NoRow, excess |-> 0]
    BY DEF Calls, Idle
  <1>2. proc' = [proc EXCEPT ![p] = [pc |-> pc, call |-> call, row |-> NoRow, excess |-> 0]]
    <2>1. proc' = [proc EXCEPT ![p] = [proc[p] EXCEPT !.pc = pc, !.call = call]]
      BY DEF Calls
    <2>2. [proc[p] EXCEPT !.pc = pc, !.call = call]
            = [pc |-> pc, call |-> call, row |-> NoRow, excess |-> 0]
      <3> DEFINE y == [proc[p] EXCEPT !.pc = pc, !.call = call]
                 z == [pc |-> pc, call |-> call, row |-> NoRow, excess |-> 0]
      <3>1. proc[p] \in Control /\ NoRow \in Row
        BY Constants
      <3>2. y \in Control /\ y.pc = pc /\ y.call = call /\ y.row = proc[p].row
            /\ y.excess = proc[p].excess
        BY <3>1 DEF Control
      <3>3. proc[p].row = NoRow /\ proc[p].excess = 0
        BY <1>1
      <3> HIDE DEF y
      <3>4. y = z
        BY <3>1, <3>2, <3>3 DEF Control
      <3> QED BY <3>4 DEF y
    <2> QED BY <2>1, <2>2
  <1> QED BY <1>1, <1>2, Constants DEF Moves, Control

\* The parts that do not look at the processes follow from the types.
LEMMA StillTyped ==
  ASSUME OtherTypes, UNCHANGED <<quarantined, config, compressed, issued, last>>
  PROVE  OtherTypes'
  BY DEF OtherTypes

\* Others redeem what they did.
LEMMA Assembled ==
  ASSUME IInv, NEW p \in Procs, NEW c, Moves(p, c), compressed \subseteq compressed',
         config' = config, Redeems(c)', RowsInv', OtherTypes', SizeInv', IssuedToCompressor'
  PROVE  IInv'
  <1>1. proc' \in [Procs -> Control] /\ proc'[p] = c /\ \A q \in Procs \ {p} : proc'[q] = proc[q]
    BY EvictingMoves DEF IInv
  <1>2. ASSUME NEW q \in Procs PROVE Redeems(proc[q])'
    <2>1. CASE q = p
      BY <1>1, <2>1 DEF Redeems
    <2>2. CASE q # p
      <3>1. Redeems(proc[q]) /\ proc'[q] = proc[q]
        BY <1>1, <2>2 DEF IInv
      <3> QED BY <3>1 DEF Redeems
    <2> QED BY <2>1, <2>2
  <1> QED BY <1>1, <1>2 DEF IInv, SizeInv

\* What was issued stays issued to one who compressed it.
LEMMA StillRedeemed ==
  ASSUME IssuedToCompressor, UNCHANGED <<config, last>>, compressed \subseteq compressed'
  PROVE  IssuedToCompressor'
  BY DEF IssuedToCompressor

\* A step that leaves the rows or drops some, and neither begins nor ends an eviction.
LEMMA QuietStep ==
  ASSUME IInv, NEW p \in Procs,
         NEW c, Moves(p, c), p \notin Evicting, c.pc \notin {"count", "evict"},
         UNCHANGED <<cache, rowid, quarantined, config, compressed, issued, last>>, Redeems(c)
  PROVE  IInv'
  <1>1. SizeInv /\ SizeInv'
    <2>1. SizeInv
      BY DEF IInv, SizeInv
    <2>2. IsFiniteSet(cache') /\ Cardinality(cache') <= Cardinality(cache)
      <3>1. IsFiniteSet(cache)
        BY DEF IInv
      <3>2. Cardinality(cache) \in Nat
        BY <3>1, FS_CardinalityType
      <3> QED BY <3>1, <3>2
    <2> QED BY <2>1, <2>2, SizeQuiet
  <1>2. RowsInv' /\ OtherTypes' /\ IssuedToCompressor'
    BY RowsShrunk, StillTyped, StillRedeemed DEF IInv
  <1>3. Redeems(c)'
    BY DEF Redeems
  <1> QED BY <1>1, <1>2, <1>3, Assembled

\* A compress call starts with its text in hand.
LEMMA CompressKeeps ==
  ASSUME IInv, NEW p \in Procs, NEW call \in Call, Compress(p, call)
  PROVE  IInv'
  <1> DEFINE c == [pc |-> "store", call |-> call, row |-> NoRow, excess |-> 0]
  <1>1. Moves(p, c) /\ proc[p].pc = "idle"
    BY Begins DEF Compress, IInv
  <1>2. p \notin Evicting
    BY <1>1 DEF Evicting
  <1>3. Redeems(c)
    BY DEF Redeems
  <1>4. UNCHANGED <<cache, rowid, quarantined, config, compressed, issued, last>>
    BY DEF Compress, ghosts
  <1>5. c.pc = "store"
    OBVIOUS
  <1> HIDE DEF c
  <1> QED BY <1>1, <1>2, <1>3, <1>4, <1>5, QuietStep

\* A retrieve call starts with its marker in hand.
LEMMA RetrieveKeeps ==
  ASSUME IInv, NEW p \in Procs, NEW call \in Call, Retrieve(p, call)
  PROVE  IInv'
  <1> DEFINE pc == IF config.strict /\ MarkerShaped(call) THEN "validate" ELSE "fetch"
             c == [pc |-> pc, call |-> call, row |-> NoRow, excess |-> 0]
  <1>0. pc \in {"validate", "fetch"} /\ Calls(p, pc, call)
    BY DEF Retrieve
  <1>1. Moves(p, c) /\ proc[p].pc = "idle"
    <2>1. proc \in [Procs -> Control]
      BY DEF IInv
    <2> HIDE DEF pc
    <2> QED BY <1>0, <2>1, Begins
  <1>2. p \notin Evicting
    BY <1>1 DEF Evicting
  <1>3. Redeems(c)
    BY DEF Redeems, MarkerShaped
  <1>4. UNCHANGED <<cache, rowid, quarantined, config, compressed, issued, last>>
    BY DEF Retrieve, ghosts
  <1>5. c.pc \notin {"count", "evict"}
    BY <1>0
  <1> HIDE DEF c, pc
  <1> QED BY <1>1, <1>2, <1>3, <1>4, <1>5, QuietStep

\* What the caller holds at a statement.
LEMMA Held ==
  ASSUME IInv, NEW p \in Procs
  PROVE  /\ proc[p] \in Control /\ proc[p].call \in Call /\ proc[p].row \in Row
         /\ Redeems(proc[p]) /\ proc \in [Procs -> Control]
  BY DEF IInv, Control

\* A validation compares the row as it is then with the caller.
LEMMA ValidateKeeps ==
  ASSUME IInv, NEW p \in Procs, Validate(p)
  PROVE  IInv'
  <1>1. p \notin Evicting
        /\ UNCHANGED <<cache, rowid, quarantined, config, compressed, issued, last>>
    BY DEF Validate, at, Evicting, ghosts
  <1>2. CASE validate_marker(proc[p].call)
    <2> DEFINE c == [proc[p] EXCEPT !.pc = "fetch"]
    <2>1. Moves(p, c) /\ c.pc = "fetch" /\ c.call = proc[p].call
      <3>1. then(p, "fetch")
        BY <1>2 DEF Validate
      <3> QED BY <3>1, Held, GoesOn
    <2>2. proc[p].call.project # Unscoped
      BY <1>2 DEF validate_marker
    <2>3. PICK r \in Lookup(proc[p].call.project, proc[p].call.text) : r.issuer = proc[p].call.who
      BY <1>2, <2>2 DEF validate_marker, ccr_get
    <2>4. r.issuer # Nobody => <<r.issuer, r.project, r.text>> \in compressed
      BY <2>3 DEF IInv, RowsInv, Lookup
    <2>5. r.project = proc[p].call.project /\ r.text = proc[p].call.text
      BY <2>3 DEF Lookup
    <2> HIDE DEF c
    <2>6. Redeems(c)
      BY <2>1, <2>2, <2>3, <2>4, <2>5 DEF Redeems
    <2> QED BY <1>1, <2>1, <2>6, QuietStep
  <1>3. CASE ~validate_marker(proc[p].call)
    <2>1. Moves(p, Idle)
      BY <1>3, Ends, Held DEF Validate
    <2>2. Redeems(Idle) /\ Idle.pc = "idle"
      BY DEF Redeems, Idle
    <2> QED BY <1>1, <2>1, <2>2, QuietStep
  <1> QED BY <1>2, <1>3

\* A fetch hands out the row it finds, which may not be the one validated.
LEMMA FetchKeeps ==
  ASSUME IInv, NEW p \in Procs, Fetch(p)
  PROVE  IInv'
  <1> DEFINE stored == ccr_get(proc[p].call.project, proc[p].call.text)
  <1>1. p \notin Evicting
        /\ UNCHANGED <<cache, rowid, quarantined, config, compressed, issued, last>>
        /\ proc[p].pc = "fetch"
    BY DEF Fetch, at, Evicting, ghosts
  <1>2. CASE stored = {}
    <2>1. Moves(p, Idle)
      BY <1>2, Ends, Held DEF Fetch
    <2>2. Redeems(Idle) /\ Idle.pc = "idle"
      BY DEF Redeems, Idle
    <2> QED BY <1>1, <2>1, <2>2, QuietStep
  <1>3. CASE stored # {}
    <2>1. PICK r \in stored : proc' = [proc EXCEPT ![p].pc = "decide", ![p].row = r]
      BY <1>3 DEF Fetch
    <2>2. /\ r \in cache /\ r.text = proc[p].call.text
          /\ proc[p].call.project # Unscoped => r.project = proc[p].call.project
      BY <2>1 DEF ccr_get, FirstStored, Lookup
    <2>3. r \in Row
      BY <2>2 DEF IInv, RowsInv
    <2> DEFINE c == [proc[p] EXCEPT !.pc = "decide", !.row = r]
    <2>4. c \in Control /\ c.pc = "decide" /\ c.row = r /\ c.call = proc[p].call
      <3>1. proc[p] \in Control
        BY Held
      <3> QED BY <2>3, <3>1 DEF Control
    <2>5. proc' = [proc EXCEPT ![p] = c]
      BY <2>1
    <2> HIDE DEF c
    <2>6. Moves(p, c)
      BY <2>4, <2>5 DEF Moves
    <2>7. Redeems(proc[p])
      BY Held
    <2>8. Redeems(c)
      BY <1>1, <2>2, <2>4, <2>7 DEF Redeems
    <2> QED BY <1>1, <2>4, <2>6, <2>8, QuietStep
  <1> QED BY <1>2, <1>3

\* A stored row adds one excess that its caller still has to evict.
LEMMA StoreKeeps ==
  ASSUME IInv, NEW p \in Procs, Store(p)
  PROVE  IInv'
  <1> DEFINE call == proc[p].call
             old  == Lookup(call.project, call.text)
  <1>1. /\ p \notin Evicting /\ UNCHANGED <<quarantined, config, issued, last>>
        /\ compressed' = IF call.who = Nobody THEN compressed
                         ELSE compressed \cup {<<call.who, call.project, call.text>>}
        /\ rowid' = IF old = {} THEN rowid + 1 ELSE rowid
    BY DEF Store, at, Evicting
  <1>2. PICK verdict \in {FALSE, call.text \in SecretTexts} : cache' = (cache \ old) \cup Upserted(call, verdict)
    BY DEF Store
  <1>3. call \in Call /\ issued \in [Scopes \X Texts -> Nat] /\ verdict \in BOOLEAN
    <2>1. call \in Call /\ issued \in [Scopes \X Texts -> Nat]
      BY Held DEF IInv, OtherTypes
    <2>2. verdict \in BOOLEAN
      <3>1. (call.text \in SecretTexts) \in BOOLEAN
        OBVIOUS
      <3>2. verdict = FALSE \/ verdict = (call.text \in SecretTexts)
        BY <1>2, Zenon
      <3> HIDE DEF call
      <3> QED BY <3>1, <3>2, Zenon
    <2> QED BY <2>1, <2>2
  <1>4. PICK c : Moves(p, c) /\ c.pc = "count"
    <2>1. then(p, "count")
      BY DEF Store
    <2> QED BY <2>1, Held, GoesOn
  <1>5. compressed \subseteq compressed' /\ compressed' \subseteq Issuers \X Scopes \X Texts
    <2>1. compressed \subseteq Issuers \X Scopes \X Texts
      BY DEF IInv, OtherTypes
    <2>2. call.who # Nobody => <<call.who, call.project, call.text>> \in Issuers \X Scopes \X Texts
      BY <1>3 DEF Call
    <2> QED BY <1>1, <2>1, <2>2
  <1>6. /\ old \subseteq cache
        /\ \A r, s \in old : r = s
        /\ \A r, s \in Upserted(call, verdict) : r = s
    <2>1. \A r, s \in cache : r.project = s.project /\ r.text = s.text => r = s
      BY DEF IInv, RowsInv
    <2>2. old \subseteq cache /\ \A r, s \in old : r = s
      BY <2>1 DEF Lookup
    <2> HIDE DEF call
    <2>3. CASE old = {}
      <3>1. PICK entry : Upserted(call, verdict) = {entry}
        BY <2>3 DEF Upserted
      <3> QED BY <2>2, <3>1
    <2>4. CASE old # {}
      <3>1. Upserted(call, verdict) = {[r EXCEPT !.hit = verdict] : r \in old}
        BY <2>4 DEF Upserted
      <3> HIDE DEF old
      <3> QED BY <2>2, <3>1, Zenon
    <2> QED BY <2>3, <2>4
  <1>7. Redeems(c)'
    BY <1>4 DEF Redeems
  <1> HIDE DEF call, old
  <1>8. RowsInv'
    <2>1. RowsInv
      BY DEF IInv
    <2> QED BY <1>1, <1>2, <1>3, <2>1, RowsStored DEF old
  <1>9. OtherTypes'
    BY <1>1, <1>5 DEF IInv, OtherTypes
  <1>10. SizeInv'
    <2>1. SizeInv
      BY DEF IInv, SizeInv
    <2>2. IsFiniteSet(cache') /\ Cardinality(cache') <= Cardinality(cache) + 1
      <3>1. IsFiniteSet(cache)
        BY DEF IInv
      <3> DEFINE new == Upserted(call, verdict)
      <3>2. cache' = (cache \ old) \cup new /\ \A r, s \in new : r = s
        BY <1>2, <1>6
      <3> HIDE DEF new
      <3> QED BY <1>6, <3>1, <3>2, Replaced
    <2> QED BY <1>1, <1>4, <2>1, <2>2, SizeStored
  <1>11. IssuedToCompressor'
    BY <1>1, <1>5, StillRedeemed DEF IInv
  <1> QED BY <1>1, <1>4, <1>5, <1>7, <1>8, <1>9, <1>10, <1>11, Assembled

\* A caller over the cap goes on to evict.
LEMMA CountEntriesKeeps ==
  ASSUME IInv, NEW p \in Procs, CountEntries(p)
  PROVE  IInv'
  <1>1. /\ p \in Evicting /\ proc[p].pc = "count"
        /\ UNCHANGED <<cache, rowid, quarantined, config, compressed, issued, last>>
    BY DEF CountEntries, at, Evicting, ghosts
  <1>2. /\ SizeInv /\ IsFiniteSet(cache) /\ Cardinality(cache) \in Nat
        /\ Cardinality(Evicting \ {p}) \in Nat
    BY EvictingIsFinite, FS_CardinalityType DEF IInv, SizeInv
  <1>3. RowsInv' /\ OtherTypes' /\ IssuedToCompressor'
    BY <1>1, RowsShrunk, StillTyped, StillRedeemed DEF IInv
  <1>4. CASE Excess = 0
    <2>1. Moves(p, Idle)
      BY <1>4, Ends, Held DEF CountEntries
    <2>2. Redeems(Idle)' /\ Idle.pc = "idle"
      BY DEF Redeems, Idle
    <2>3. Cardinality(cache') <= MaxEntries + Cardinality(Evicting \ {p})
      <3>1. Cardinality(cache) <= MaxEntries
        BY <1>2, <1>4, CacheAssumption DEF Excess
      <3> QED BY <1>1, <1>2, <3>1, CacheAssumption
    <2>4. SizeInv'
      BY <1>1, <1>2, <2>1, <2>2, <2>3, SizeEvicted
    <2> QED BY <1>1, <1>3, <2>1, <2>2, <2>4, Assembled
  <1>5. CASE Excess # 0
    <2>1. PICK c : c = [proc[p] EXCEPT !.pc = "evict", !.excess = Excess]
          /\ proc' = [proc EXCEPT ![p] = c]
      BY <1>5 DEF CountEntries
    <2>2. Excess \in Nat
      BY <1>2, CacheAssumption DEF Excess
    <2>3. c \in Control /\ c.pc = "evict" /\ c.excess = Excess
      <3>1. proc[p] \in Control
        BY Held
      <3> QED BY <2>1, <2>2, <3>1 DEF Control
    <2>4. Moves(p, c)
      BY <2>1, <2>3 DEF Moves
    <2>5. Redeems(c)'
      BY <2>3 DEF Redeems
    <2>6. SizeInv'
      BY <1>1, <1>2, <1>5, <2>3, <2>4, SizeCounted
    <2> QED BY <1>1, <1>3, <2>4, <2>5, <2>6, Assembled
  <1> QED BY <1>4, <1>5

\* An eviction takes the oldest rows down to the cap.
LEMMA EvictLRUKeeps ==
  ASSUME IInv, NEW p \in Procs, EvictLRU(p)
  PROVE  IInv'
  <1> DEFINE n == proc[p].excess
  <1>1. /\ p \in Evicting /\ proc[p].pc = "evict" /\ cache' = cache \ LeastUsed(n)
        /\ UNCHANGED <<rowid, quarantined, config, compressed, issued, last>>
    BY DEF EvictLRU, at, Evicting, ghosts
  <1>2. Moves(p, Idle)
    BY Ends, Held DEF EvictLRU
  <1>3. Redeems(Idle)' /\ Idle.pc = "idle"
    BY DEF Redeems, Idle
  <1>4. /\ SizeInv /\ IsFiniteSet(cache) /\ cache \subseteq Row
        /\ Cardinality(cache) \in Nat /\ Cardinality(Evicting \ {p}) \in Nat
    BY EvictingIsFinite, FS_CardinalityType DEF IInv, SizeInv, RowsInv
  <1>5. n \in Nat
    BY Held DEF Control
  <1>6. Cardinality(cache) <= MaxEntries + n + Cardinality(Evicting \ {p})
    BY <1>1 DEF IInv, ExcessCovered
  <1> HIDE DEF n
  <1>7. /\ IsFiniteSet(cache')
        /\ cache' = {} \/ Cardinality(cache') + n <= Cardinality(cache)
    BY <1>1, <1>4, <1>5, EvictionShrinks
  <1>8. Cardinality(cache') <= MaxEntries + Cardinality(Evicting \ {p})
    <2>1. Cardinality(cache') \in Nat
      BY <1>7, FS_CardinalityType
    <2>2. CASE cache' = {}
      BY <1>4, <2>2, FS_EmptySet, CacheAssumption
    <2>3. CASE Cardinality(cache') + n <= Cardinality(cache)
      BY <1>4, <1>5, <1>6, <2>1, <2>3, CacheAssumption
    <2> QED BY <1>7, <2>2, <2>3
  <1>9. SizeInv'
    BY <1>1, <1>2, <1>3, <1>4, <1>7, <1>8, SizeEvicted
  <1>10. RowsInv' /\ OtherTypes' /\ IssuedToCompressor'
    <2>1. cache' \subseteq cache
      BY <1>1
    <2> QED BY <1>1, <2>1, RowsShrunk, StillTyped, StillRedeemed DEF IInv
  <1> QED BY <1>1, <1>2, <1>3, <1>9, <1>10, Assembled

\* A cleanup expires the oldest rows, then goes on to the count.
LEMMA CleanupKeeps ==
  ASSUME IInv, NEW p \in Procs, Cleanup(p)
  PROVE  IInv'
  <1> DEFINE c == [pc |-> "count", call |-> NoCall, row |-> NoRow, excess |-> 0]
  <1>1. Moves(p, c) /\ proc[p].pc = "idle"
    BY Begins, Constants DEF Cleanup, IInv
  <1>2. p \notin Evicting /\ c.pc = "count"
    BY <1>1 DEF Evicting
  <1>3. Redeems(c)'
    BY DEF Redeems
  <1>4. UNCHANGED <<rowid, quarantined, config, compressed, issued, last>> /\ cache' \subseteq cache
    BY DEF Cleanup, ghosts
  <1> HIDE DEF c
  <1>5. SizeInv /\ IsFiniteSet(cache)
    BY DEF IInv, SizeInv
  <1>6. IsFiniteSet(cache') /\ Cardinality(cache') <= Cardinality(cache) + 1
    <2>1. IsFiniteSet(cache') /\ Cardinality(cache') <= Cardinality(cache)
      BY <1>4, <1>5, FS_Subset
    <2>2. Cardinality(cache') \in Nat /\ Cardinality(cache) \in Nat
      BY <1>5, <2>1, FS_CardinalityType
    <2> QED BY <2>1, <2>2
  <1>7. SizeInv'
    BY <1>1, <1>2, <1>5, <1>6, SizeStored
  <1>8. RowsInv' /\ OtherTypes' /\ IssuedToCompressor'
    BY <1>4, RowsShrunk, StillTyped, StillRedeemed DEF IInv
  <1> QED BY <1>1, <1>3, <1>4, <1>7, <1>8, Assembled

\* What an issue leaves in the record of the last issue.
LEMMA ShowsTyped ==
  ASSUME NEW call \in Call, NEW row \in Row, NEW how \in Shown, Shows(call, row, how),
         last \in [text : Texts, project : Scopes, to : Issuers \cup {Nobody},
                   stamped : BOOLEAN, how : Shown]
  PROVE  last' \in [text : Texts, project : Scopes, to : Issuers \cup {Nobody},
                    stamped : BOOLEAN, how : Shown]
  BY DEF Shows, Call, Row

\* The outcomes of the decision.
LEMMA DecideOutcome ==
  ASSUME NEW p, Decide(p)
  PROVE  \E how \in Shown :
           /\ Shows(proc[p].call, proc[p].row, how)
           /\ over(p) \/ then(p, "touch")
           /\ how \in {"raw", "redacted"} => ~Refuses(proc[p].call, proc[p].row)
           /\ how \in {"raw", "redacted"} => ~quarantine_retraction_for(proc[p].row.text)
  <1>1. CASE quarantine_retraction_for(proc[p].row.text)
    <2> DEFINE how == IF proc[p].call.query THEN "nothing" ELSE "retraction"
    <2>1. over(p) /\ Shows(proc[p].call, proc[p].row, how)
      BY <1>1 DEF Decide
    <2>2. how \in Shown /\ how \notin {"raw", "redacted"}
      BY DEF Shown
    <2> HIDE DEF how
    <2> QED BY <2>1, <2>2
  <1>2. CASE ~quarantine_retraction_for(proc[p].row.text)
    <2>1. PICK how \in IF Refuses(proc[p].call, proc[p].row) THEN {"nothing"}
                       ELSE Scans(proc[p].call, proc[p].row) :
                 /\ Shows(proc[p].call, proc[p].row, how)
                 /\ IF how = "nothing" THEN over(p) ELSE then(p, "touch")
      BY <1>2 DEF Decide
    <2>2. how \in Shown
      BY <2>1 DEF Scans, Shown
    <2>3. how \in {"raw", "redacted"} => ~Refuses(proc[p].call, proc[p].row)
      BY <2>1
    <2> QED BY <1>2, <2>1, <2>2, <2>3
  <1> QED BY <1>1, <1>2

\* The look-up of quarantined texts decides whether a text is issued or retracted.
LEMMA DecideKeeps ==
  ASSUME IInv, NEW p \in Procs, Decide(p)
  PROVE  IInv'
  <1> DEFINE call == proc[p].call
             row  == proc[p].row
  <1>1. /\ p \notin Evicting /\ proc[p].pc = "decide"
        /\ UNCHANGED <<cache, rowid, quarantined, config, compressed, issued>>
    BY DEF Decide, at, Evicting, ghosts
  <1>2. PICK how \in Shown :
           /\ Shows(call, row, how)
           /\ over(p) \/ then(p, "touch")
           /\ how \in {"raw", "redacted"} => ~Refuses(call, row)
    BY DecideOutcome
  <1>3. PICK c : Moves(p, c) /\ c.pc \in {"idle", "touch"}
    <2>1. CASE over(p)
      BY <2>1, Ends, Held DEF Idle
    <2>2. CASE then(p, "touch")
      BY <2>2, GoesOn, Held
    <2> QED BY <1>2, <2>1, <2>2
  <1>4. call \in Call /\ row \in Row /\ Redeems(proc[p])
    BY Held
  <1>5. IssuedToCompressor'
    <2>1. CASE how \notin {"raw", "redacted"}
      <3>1. last' = last \/ last'.how = how
        BY <1>2 DEF Shows
      <3> QED BY <1>1, <2>1, <3>1 DEF IInv, IssuedToCompressor
    <2>2. CASE how \in {"raw", "redacted"}
      <3>1. last' = [text |-> row.text, project |-> row.project, to |-> call.who,
                     stamped |-> row.issuer # Nobody, how |-> how]
        BY <1>2, <2>2 DEF Shows
      <3>2. last'.text = row.text /\ last'.project = row.project /\ last'.to = call.who
            /\ last'.stamped = (row.issuer # Nobody)
        BY <3>1
      <3>3. config.strict /\ row.issuer # Nobody => call.who # Nobody
        BY <1>2, <2>2 DEF Refuses, MarkerShaped
      <3>4. config.strict /\ call.who # Nobody =>
              call.project # Unscoped /\ <<call.who, call.project, call.text>> \in compressed
        BY <1>1, <1>4 DEF Redeems
      <3>5. row.text = call.text /\ (call.project # Unscoped => row.project = call.project)
        BY <1>1, <1>4 DEF Redeems
      <3> HIDE DEF call, row
      <3>6. config.strict /\ row.issuer # Nobody => <<call.who, row.project, row.text>> \in compressed
        BY <3>3, <3>4, <3>5
      <3> QED BY <1>1, <3>2, <3>6 DEF IssuedToCompressor
    <2> QED BY <2>1, <2>2
  <1>6. OtherTypes'
    <2>1. last' \in [text : Texts, project : Scopes, to : Issuers \cup {Nobody},
                     stamped : BOOLEAN, how : Shown]
      BY <1>2, <1>4, ShowsTyped DEF IInv, OtherTypes
    <2> QED BY <1>1, <2>1 DEF IInv, OtherTypes
  <1>7. RowsInv'
    BY <1>1, RowsShrunk DEF IInv
  <1>8. SizeInv'
    <2>1. SizeInv /\ IsFiniteSet(cache)
      BY DEF IInv, SizeInv
    <2>2. IsFiniteSet(cache') /\ Cardinality(cache') <= Cardinality(cache)
      <3>1. Cardinality(cache) \in Nat
        BY <2>1, FS_CardinalityType
      <3> QED BY <1>1, <2>1, <3>1
    <2> QED BY <1>1, <1>3, <2>1, <2>2, SizeQuiet
  <1>9. Redeems(c)'
    BY <1>3 DEF Redeems
  <1> QED BY <1>1, <1>3, <1>5, <1>6, <1>7, <1>8, <1>9, Assembled

\* A touch counts an issue, of the row read or of the one that replaced it.
LEMMA TouchKeeps ==
  ASSUME IInv, NEW p \in Procs, Touch(p)
  PROVE  IInv'
  <1> DEFINE row == proc[p].row
             now == Lookup(row.project, row.text)
             new == {[r EXCEPT !.count = @ + 1] : r \in now}
  <1>1. /\ p \notin Evicting /\ UNCHANGED <<rowid, quarantined, config, compressed, last>>
        /\ cache' = (cache \ now) \cup new
        /\ issued' = [issued EXCEPT ![<<row.project, row.text>>] = @ + 1]
    BY DEF Touch, at, Evicting
  <1>2. Moves(p, Idle)
    BY Ends, Held DEF Touch
  <1>3. Redeems(Idle)' /\ Idle.pc = "idle"
    BY DEF Redeems, Idle
  <1>4. row \in Row /\ issued \in [Scopes \X Texts -> Nat] /\ RowsInv /\ SizeInv
    BY Held DEF IInv, OtherTypes, SizeInv
  <1>5. RowsInv'
    BY <1>1, <1>4, RowsTouched
  <1>6. OtherTypes'
    <2>1. issued' \in [Scopes \X Texts -> Nat]
      BY <1>1, <1>4 DEF Row
    <2> QED BY <1>1, <2>1 DEF IInv, OtherTypes
  <1>7. SizeInv'
    <2>1. now \subseteq cache /\ (\A r, s \in now : r = s) /\ (\A r, s \in new : r = s)
      <3>1. \A r, s \in cache : r.project = s.project /\ r.text = s.text => r = s
        BY DEF IInv, RowsInv
      <3>2. now \subseteq cache /\ \A r, s \in now : r = s
        BY <3>1 DEF Lookup
      <3> HIDE DEF now
      <3> QED BY <3>2, Zenon
    <2>2. now = {} => new = {}
      OBVIOUS
    <2>3. IsFiniteSet(cache)
      BY DEF IInv
    <2> HIDE DEF now, new
    <2>4. IsFiniteSet(cache') /\ Cardinality(cache') <= Cardinality(cache)
      BY <1>1, <2>1, <2>2, <2>3, Replaced
    <2> QED BY <1>1, <1>2, <1>3, <1>4, <2>4, SizeQuiet
  <1>8. IssuedToCompressor'
    BY <1>1, StillRedeemed DEF IInv
  <1> QED BY <1>1, <1>2, <1>3, <1>5, <1>6, <1>7, <1>8, Assembled

\* A quarantine changes no row of the cache.
LEMMA QuarantineKeeps ==
  ASSUME IInv, NEW t \in Texts, Quarantine(t)
  PROVE  IInv'
  <1>1. UNCHANGED <<cache, rowid, config, proc, compressed, issued, last>>
        /\ quarantined' = <<t>> \o quarantined
    BY DEF Quarantine, ghosts
  <1>2. quarantined' \in Seq(Texts)
    BY <1>1 DEF IInv, OtherTypes
  <1>3. OtherTypes'
    BY <1>1, <1>2 DEF IInv, OtherTypes
  <1>4. RowsInv' /\ IssuedToCompressor'
    BY <1>1, RowsShrunk, StillRedeemed DEF IInv
  <1>5. (\A p \in Procs : Redeems(proc[p]))'
    BY <1>1 DEF IInv, Redeems
  <1>6. (IsFiniteSet(cache) /\ CacheBounded /\ ExcessCovered)'
    BY <1>1 DEF IInv, CacheBounded, ExcessCovered, Evicting
  <1>7. proc' \in [Procs -> Control]
    BY <1>1 DEF IInv
  <1> QED BY <1>3, <1>4, <1>5, <1>6, <1>7 DEF IInv

-----------------------------------------------------------------------------
(* The theorems.                                                           *)

\* The cache is empty and nobody calls at the start.
LEMMA Initially == Init => IInv
  <1> SUFFICES ASSUME Init PROVE IInv
    OBVIOUS
  <1>1. RowsInv /\ IssuedToCompressor
    BY DEF Init, RowsInv, IssuedToCompressor
  <1>2. OtherTypes
    BY Constants DEF Init, OtherTypes, Shown
  <1>3. proc \in [Procs -> Control] /\ \A p \in Procs : proc[p] = Idle
    BY Constants DEF Init
  <1>4. \A p \in Procs : Redeems(proc[p]) /\ proc[p].pc = "idle"
    BY <1>3 DEF Redeems, Idle
  <1>5. IsFiniteSet(cache) /\ Cardinality(cache) = 0
    BY FS_EmptySet DEF Init
  <1>6. CacheBounded
    <2>1. Cardinality(Evicting) \in Nat
      BY EvictingIsFinite, FS_CardinalityType
    <2>2. Cardinality(cache) <= MaxEntries + Cardinality(Evicting)
      BY <1>5, <2>1, CacheAssumption
    <2> QED BY <2>2 DEF CacheBounded, Evicting
  <1>7. ExcessCovered
    BY <1>4 DEF ExcessCovered
  <1> QED BY <1>1, <1>2, <1>3, <1>4, <1>5, <1>6, <1>7 DEF IInv

\* Every step of the callers and of the quarantine keeps the invariant.
LEMMA StepKeeps ==
  ASSUME IInv, [Next]_vars
  PROVE  IInv'
  <1>1. ASSUME NEW p \in Procs, NEW call \in Call, Compress(p, [call EXCEPT !.query = FALSE])
        PROVE  IInv'
    <2>1. [call EXCEPT !.query = FALSE] \in Call
      BY DEF Call
    <2> QED BY <1>1, <2>1, CompressKeeps
  <1>2. ASSUME NEW p \in Procs, NEW call \in Call, Retrieve(p, call)
        PROVE  IInv'
    BY <1>2, RetrieveKeeps
  <1>3. ASSUME NEW p \in Procs,
               Store(p) \/ CountEntries(p) \/ EvictLRU(p) \/ Cleanup(p)
                 \/ Validate(p) \/ Fetch(p) \/ Decide(p) \/ Touch(p)
        PROVE  IInv'
    BY <1>3, StoreKeeps, CountEntriesKeeps, EvictLRUKeeps, CleanupKeeps, ValidateKeeps, FetchKeeps,
       DecideKeeps, TouchKeeps
  <1>4. ASSUME NEW t \in Texts, Quarantine(t)
        PROVE  IInv'
    BY <1>4, QuarantineKeeps
  <1>5. ASSUME UNCHANGED vars
        PROVE  IInv'
    <2>1. UNCHANGED <<cache, rowid, quarantined, config, proc, compressed, issued, last>>
      BY <1>5 DEF vars
    <2>2. RowsInv' /\ OtherTypes' /\ IssuedToCompressor'
      BY <2>1, RowsShrunk, StillTyped, StillRedeemed DEF IInv
    <2>3. (\A p \in Procs : Redeems(proc[p]))'
      BY <2>1 DEF IInv, Redeems
    <2>4. (IsFiniteSet(cache) /\ CacheBounded /\ ExcessCovered /\ proc \in [Procs -> Control])'
      BY <2>1 DEF IInv, CacheBounded, ExcessCovered, Evicting
    <2> QED BY <2>2, <2>3, <2>4 DEF IInv
  <1> QED BY <1>1, <1>2, <1>3, <1>4, <1>5 DEF Next

\* The invariant is enough for what the runs check.
LEMMA Enough == IInv => CacheSafe
  <1> SUFFICES ASSUME IInv PROVE CacheSafe
    OBVIOUS
  <1>1. TypeOK
    BY DEF IInv, RowsInv, OtherTypes, Control, TypeOK
  <1>2. CountsOnlyIssues
    BY DEF IInv, RowsInv, CountsOnlyIssues
  <1> QED BY <1>1, <1>2 DEF IInv, CacheSafe

\* The cache counts only what it issued, in strict mode redeems a marker only
\* to a caller that compressed the text in that project itself (evictions,
\* rewrites and other sessions between the validation and the read change
\* nothing about it), and exceeds ccr.max_entries by no more rows than there
\* are callers who still have to evict.
THEOREM CacheSafety == Spec => []CacheSafe
  <1>1. Spec => []IInv
    BY Initially, StepKeeps, PTL DEF Spec
  <1> QED BY <1>1, Enough, PTL

\* What comes of a row: it keeps its issuer as long as it is in the table.
LEMMA IssuerKept ==
  ASSUME IInv, [Next]_vars
  PROVE  IssuerStep
  <1>1. /\ cache \subseteq Row
        /\ \A r, s \in cache : r.id = s.id => r = s
        /\ \A r \in cache : r.id < rowid
    BY DEF IInv, RowsInv
  <1>2. SUFFICES ASSUME NEW s \in cache', s \notin cache
                 PROVE  \A r \in cache : r.id = s.id => r.issuer = s.issuer
    BY <1>1 DEF IssuerStep
  <1>3. PICK p \in Procs : Store(p) \/ Touch(p)
    BY <1>2 DEF Next, vars, Compress, Retrieve, CountEntries, EvictLRU, Cleanup, Validate, Fetch,
       Decide, Quarantine
  <1>4. CASE Store(p)
    <2> DEFINE call == proc[p].call
               old  == Lookup(call.project, call.text)
    <2>1. PICK verdict \in {FALSE, call.text \in SecretTexts} : s \in Upserted(call, verdict)
      BY <1>2, <1>4 DEF Store
    <2>2. CASE old = {}
      <3>1. s.id = rowid
        BY <2>1, <2>2 DEF Upserted
      <3>2. \A r \in cache : r.id \in Nat /\ rowid \in Nat
        BY <1>1 DEF Row, IInv, RowsInv
      <3> QED BY <1>1, <3>1, <3>2
    <2>3. CASE old # {}
      <3>1. PICK f \in old : s = [f EXCEPT !.hit = verdict]
        BY <2>1, <2>3 DEF Upserted
      <3>2. f \in cache /\ f \in Row
        BY <1>1 DEF Lookup
      <3>3. s.id = f.id /\ s.issuer = f.issuer
        BY <3>1, <3>2 DEF Row
      <3> QED BY <1>1, <3>2, <3>3
    <2> QED BY <2>2, <2>3
  <1>5. CASE Touch(p)
    <2>1. PICK f \in Lookup(proc[p].row.project, proc[p].row.text) : s = [f EXCEPT !.count = @ + 1]
      BY <1>2, <1>5 DEF Touch
    <2>2. f \in cache /\ f \in Row
      BY <1>1 DEF Lookup
    <2>3. s.id = f.id /\ s.issuer = f.issuer
      BY <2>1, <2>2 DEF Row
    <2> QED BY <1>1, <2>2, <2>3
  <1> QED BY <1>3, <1>4, <1>5

\* A lookup that reads the whole list misses nothing.
LEMMA WholeList ==
  ASSUME quarantined \in Seq(Texts), Len(quarantined) <= QuarantineLimit,
         NEW t, t \in Range(quarantined)
  PROVE  quarantine_retraction_for(t)
  <1>1. Len(quarantined) \in Nat /\ QuarantineLimit \in Nat
    BY CacheAssumption
  <1>2. (IF Len(quarantined) < QuarantineLimit THEN Len(quarantined) ELSE QuarantineLimit) = Len(quarantined)
    BY <1>1
  <1>3. SubSeq(quarantined, 1, Len(quarantined)) = quarantined
    OBVIOUS
  <1> QED BY <1>2, <1>3 DEF quarantine_retraction_for

\* An issue of a quarantined text is its retraction.
LEMMA Withheld ==
  ASSUME IInv, [Next]_vars
  PROVE  WithholdStep
  <1>1. SUFFICES ASSUME last' # last, last'.text \in Range(quarantined), Len(quarantined) <= QuarantineLimit
                 PROVE  last'.how = "retraction"
    BY DEF WithholdStep
  <1>2. PICK p \in Procs : Decide(p)
    BY <1>1 DEF Next, vars, ghosts, Compress, Retrieve, Store, CountEntries, EvictLRU, Cleanup,
                Validate,
       Fetch, Touch, Quarantine
  <1>3. PICK how \in Shown :
           /\ Shows(proc[p].call, proc[p].row, how)
           /\ how \in {"raw", "redacted"} => ~quarantine_retraction_for(proc[p].row.text)
    BY <1>2, DecideOutcome
  <1>4. how # "nothing" /\ last'.text = proc[p].row.text /\ last'.how = how
    BY <1>1, <1>3 DEF Shows
  <1>5. quarantine_retraction_for(proc[p].row.text)
    BY <1>1, <1>4, WholeList DEF IInv, OtherTypes
  <1> QED BY <1>3, <1>4, <1>5 DEF Shown

\* Ledger A2 and quarantine: no step changes the issuer of a row that stays in
\* the table, and while the lookup sees the whole quarantine no step issues a
\* quarantined text other than as a retraction.
THEOREM CacheSteps == Spec => [][IssuerStep /\ WithholdStep]_vars
  <1>1. Spec => []IInv
    BY Initially, StepKeeps, PTL DEF Spec
  <1>2. IInv /\ [Next]_vars => [IssuerStep /\ WithholdStep]_vars
    BY IssuerKept, Withheld
  <1> QED BY <1>1, <1>2, PTL DEF Spec

-----------------------------------------------------------------------------
(* The federation pull: any threads, topics, projects, records and limits. *)

\* The instance's operators on finite sets are those of the standard modules.
LEMMA PullLibrary ==
  /\ \A S : Pull!Cardinality(S) = Cardinality(S)
  /\ \A S : Pull!IsFiniteSet(S) <=> IsFiniteSet(S)
  BY DEF Pull!Cardinality, Cardinality, Pull!IsFiniteSet, IsFiniteSet

\* The history a pull is judged by: one number per slot of the log and per answer.
PullHistories ==
  /\ shipped \in [1..MaxPulls -> SUBSET Records]
  /\ posted \in [1..MaxPulls -> Nat] /\ \A n \in 1..MaxPulls : posted[n] <= Len(log)
  /\ clock \in Nat

PullBusy(t) == req[t].pc # "free"

\* Every request has a time of its own, and the log has no entry from later.
PullOwnTime ==
  /\ \A t \in Threads : PullBusy(t) => req[t].ts \in 1..clock
  /\ \A i \in DOMAIN log : log[i].ts \in 1..clock

\* A request that is about to be answered is in the log, unless the append failed.
PullLoggedFirst ==
  \A t \in Threads : Pull!at(t, "answer") /\ req[t].ts \notin lostLog =>
    \E i \in DOMAIN log : log[i].ts = req[t].ts /\ log[i].ids = req[t].ids

\* The entry at k came at the time of the one at i or later, on the same topic.
PullSupersedes(k, i) == log[k].topic = log[i].topic /\ log[k].ts >= log[i].ts

\* Every full answer on the topic that was in the log when the request came has been
\* superseded.
PullSuperseded(topic, ts) ==
  \A i \in DOMAIN log : i <= posted[ts] /\ log[i].topic = topic /\ log[i].code = "EXHAUSTIVE" =>
    \E k \in DOMAIN log \ {i} : PullSupersedes(k, i)

\* A request that may be answered in full has seen that.
PullMayAnswer(r) == r.pc = "search" \/ (r.pc = "log" /\ r.code = "EXHAUSTIVE")
PullFoundSuperseded ==
  \A t \in Threads : PullMayAnswer(req[t]) => PullSuperseded(req[t].topic, req[t].ts)

\* The requests that have not reached the limiter.
PullWaiting == {t \in Threads : Pull!at(t, "limit")}

\* What the limiter has counted are other requests than these.
PullWindowIsCounted == window + Cardinality(PullWaiting) <= clock

PullIInv ==
  /\ Pull!TypeOK /\ PullHistories /\ PullOwnTime /\ PullLoggedFirst /\ PullFoundSuperseded
  /\ Pull!ShippedIsLogged /\ Pull!NoBackToBackAnswer /\ Pull!AdmittedWithinLimit
  /\ PullWindowIsCounted

-----------------------------------------------------------------------------
\* Where a request is.
PullRequests == [pc : {"free", "limit", "acl", "query", "search", "log", "answer"},
             topic : Topics, scope : Realms, ts : 0..MaxPulls,
             code : Pull!Codes, ids : SUBSET Records]

\* A thread between requests has a request of its type.
LEMMA PullFreeFits ==
  ASSUME Pull!LimitsOK
  PROVE  Pull!Free \in PullRequests /\ Pull!Free.pc = "free"
  BY DEF Pull!LimitsOK, Pull!Free, PullRequests, Pull!Codes

\* Every set of threads is finite.
LEMMA PullWaitingCount ==
  ASSUME Pull!LimitsOK
  PROVE  \A S \in SUBSET Threads : IsFiniteSet(S) /\ Cardinality(S) \in Nat
  BY FS_Subset, FS_CardinalityType, PullLibrary DEF Pull!LimitsOK

\* Nobody comes to the limiter, and it counts at most the one who leaves it.
LEMMA PullCounts ==
  ASSUME Pull!LimitsOK, PullIInv, NEW t \in Threads, clock' = clock, window' \in Nat,
         window' <= window \/ (Pull!at(t, "limit") /\ window' = window + 1),
         PullWaiting' = PullWaiting \ {t}
  PROVE  PullWindowIsCounted' /\ window' \in 0..MaxPulls
  <1>1. /\ IsFiniteSet(PullWaiting) /\ Cardinality(PullWaiting) \in Nat
        /\ Cardinality(PullWaiting') \in Nat
    BY PullWaitingCount DEF PullWaiting
  <1>2. window \in Nat /\ clock \in Nat /\ clock <= MaxPulls /\ MaxPulls \in Nat
    BY DEF Pull!LimitsOK, PullIInv, Pull!TypeOK
  <1>3. CASE t \in PullWaiting
    <2>1. Cardinality(PullWaiting') = Cardinality(PullWaiting) - 1
      BY <1>1, <1>3, FS_RemoveElement
    <2> QED BY <1>1, <1>2, <2>1 DEF PullIInv, PullWindowIsCounted
  <1>4. CASE t \notin PullWaiting
    <2>1. PullWaiting' = PullWaiting /\ ~Pull!at(t, "limit")
      BY <1>4 DEF PullWaiting
    <2> QED BY <1>1, <1>2, <2>1 DEF PullIInv, PullWindowIsCounted
  <1> QED BY <1>3, <1>4

\* The log and what is known of its answers stay as they are.
LEMMA PullLogQuiet ==
  ASSUME PullIInv, UNCHANGED <<log, shipped, posted, lostLog>>, clock' \in Nat, clock <= clock'
  PROVE  /\ PullHistories' /\ Pull!ShippedIsLogged' /\ Pull!NoBackToBackAnswer'
         /\ \A i \in DOMAIN log' : log'[i].ts \in 1..(clock')
  <1>1. \A i \in DOMAIN log : log[i].ts \in 1..clock
    BY DEF PullIInv, PullOwnTime
  <1>2. clock \in Nat
    BY DEF PullIInv, PullHistories
  <1> QED BY <1>1, <1>2 DEF PullIInv, PullHistories, Pull!ShippedIsLogged, Pull!NoBackToBackAnswer

\* A request goes on, but not to its answer.
LEMMA PullMoves ==
  ASSUME Pull!LimitsOK, PullIInv, NEW t \in Threads,
         NEW r \in PullRequests, req' = [req EXCEPT ![t] = r],
         r.ts = req[t].ts, r.pc \notin {"limit", "answer", "free"}, PullBusy(t),
         PullMayAnswer(r) => PullSuperseded(r.topic, r.ts),
         window' <= window \/ (Pull!at(t, "limit") /\ window' = window + 1),
         window' \in Nat, window' <= RateLimit,
         UNCHANGED <<noFederate, log, client, lostLog, shipped, posted, clock>>
  PROVE  PullIInv'
  <1>1. req \in [Threads -> PullRequests] /\ clock \in Nat
    BY DEF PullIInv, Pull!TypeOK, PullHistories, PullRequests
  <1>2. req'[t] = r /\ \A u \in Threads \ {t} : req'[u] = req[u]
    BY <1>1
  <1>9. PullWaiting' = PullWaiting \ {t}
    BY <1>2 DEF PullWaiting, Pull!at
  <1>10. PullWindowIsCounted' /\ window' \in 0..MaxPulls
    BY <1>9, PullCounts
  <1>3. Pull!TypeOK'
    BY <1>1, <1>10 DEF PullIInv, Pull!TypeOK, PullRequests
  <1>4. /\ PullHistories' /\ Pull!ShippedIsLogged' /\ Pull!NoBackToBackAnswer'
        /\ \A i \in DOMAIN log' : log'[i].ts \in 1..(clock')
    BY <1>1, PullLogQuiet
  <1>5. PullOwnTime'
    BY <1>1, <1>2, <1>4 DEF PullIInv, PullOwnTime, PullBusy
  <1>6. PullLoggedFirst'
    BY <1>2 DEF PullIInv, PullLoggedFirst, Pull!at
  <1>7. PullFoundSuperseded'
    <2>1. \A topic, ts : PullSuperseded(topic, ts) => PullSuperseded(topic, ts)'
      BY DEF PullSuperseded, PullSupersedes
    <2>2. ASSUME NEW u \in Threads, PullMayAnswer(req'[u])
          PROVE  PullSuperseded(req'[u].topic, req'[u].ts)
      BY <1>2, <2>2 DEF PullIInv, PullFoundSuperseded
    <2>3. ASSUME NEW u \in Threads, PullMayAnswer(req'[u])
          PROVE  \A i \in DOMAIN log' :
                   i <= posted'[req'[u].ts] /\ log'[i].topic = req'[u].topic /\ log'[i].code = "EXHAUSTIVE" =>
                     \E k \in DOMAIN log' \ {i} : log'[k].topic = log'[i].topic /\ log'[k].ts >= log'[i].ts
      BY <2>2, <2>3 DEF PullSuperseded, PullSupersedes
    <2> QED BY <2>3 DEF PullFoundSuperseded, PullSuperseded, PullSupersedes, PullMayAnswer
  <1>8. Pull!AdmittedWithinLimit'
    BY DEF Pull!AdmittedWithinLimit
  <1> QED BY <1>3, <1>4, <1>5, <1>6, <1>7, <1>8, <1>10 DEF PullIInv

\* What a busy thread has in hand is of its type, and its time has passed.
LEMMA PullRequestFacts ==
  ASSUME Pull!LimitsOK, PullIInv, NEW t \in Threads
  PROVE  /\ req[t] \in PullRequests /\ req \in [Threads -> PullRequests]
         /\ window \in 0..MaxPulls /\ window <= RateLimit /\ clock \in 0..MaxPulls
         /\ MaxPulls \in Nat /\ RateLimit \in Nat
         /\ PullBusy(t) => req[t].ts \in 1..clock
  BY DEF Pull!LimitsOK, PullIInv, Pull!TypeOK, PullRequests, Pull!AdmittedWithinLimit, PullOwnTime

\* A request takes its time and its topic, and asks for nothing yet.
LEMMA PullPostKeeps ==
  ASSUME Pull!LimitsOK, PullIInv, NEW t \in Threads, NEW topic \in Topics, NEW scope \in Realms,
         Pull!Post(t, topic, scope)
  PROVE  PullIInv'
  <1> DEFINE r == [Pull!Free EXCEPT !.pc = "limit", !.topic = topic, !.scope = scope, !.ts = clock + 1]
  <1>1. /\ clock \in Nat /\ clock < MaxPulls /\ clock' = clock + 1 /\ MaxPulls \in Nat
        /\ req' = [req EXCEPT ![t] = r] /\ posted' = [posted EXCEPT ![clock + 1] = Len(log)]
        /\ UNCHANGED <<noFederate, window, log, client, lostLog, shipped>>
    BY PullRequestFacts DEF Pull!Post
  <1>2. r \in PullRequests /\ r.pc = "limit" /\ r.ts = clock + 1
    <2>1. clock + 1 \in 0..MaxPulls
      BY <1>1
    <2>2. Pull!Free \in PullRequests
      BY PullFreeFits
    <2> QED BY <2>1, <2>2 DEF PullRequests
  <1> HIDE DEF r
  <1>3. req'[t] = r /\ \A u \in Threads \ {t} : req'[u] = req[u]
    BY <1>1, PullRequestFacts
  <1>4. req' \in [Threads -> PullRequests]
    BY <1>1, <1>2, PullRequestFacts
  <1>5. clock' \in 0..MaxPulls
    BY <1>1
  <1>6. Pull!TypeOK'
    BY <1>1, <1>4, <1>5 DEF PullIInv, Pull!TypeOK, PullRequests
  <1>7. Len(log) \in Nat /\ posted \in [1..MaxPulls -> Nat] /\ clock + 1 \in 1..MaxPulls
    BY <1>1 DEF PullIInv, Pull!TypeOK, PullHistories
  <1>8. posted'[clock + 1] = Len(log) /\ \A n \in 1..MaxPulls \ {clock + 1} : posted'[n] = posted[n]
    BY <1>1, <1>7
  <1>9. PullHistories'
    BY <1>1, <1>5, <1>7, <1>8 DEF PullIInv, PullHistories
  <1>10. \A i \in DOMAIN log : log[i].ts \in 1..clock /\ posted'[log[i].ts] = posted[log[i].ts]
    <2>1. \A i \in DOMAIN log : log[i].ts \in 1..clock
      BY DEF PullIInv, PullOwnTime
    <2>2. \A n \in 1..clock : n \in 1..MaxPulls \ {clock + 1}
      BY <1>1
    <2> QED BY <2>1, <2>2, <1>8
  <1>11. \A u \in Threads \ {t} : PullBusy(u) => req[u].ts \in 1..clock /\ posted'[req[u].ts] = posted[req[u].ts]
    <2>1. \A u \in Threads : PullBusy(u) => req[u].ts \in 1..clock
      BY DEF PullIInv, PullOwnTime
    <2>2. \A n \in 1..clock : n \in 1..MaxPulls \ {clock + 1}
      BY <1>1
    <2> QED BY <2>1, <2>2, <1>8
  <1>12. PullOwnTime'
    <2>1. \A n \in 1..clock : n \in 1..(clock + 1)
      BY <1>1
    <2>2. clock + 1 \in 1..(clock + 1)
      BY <1>1
    <2> QED BY <1>1, <1>2, <1>3, <1>10, <1>11, <2>1, <2>2 DEF PullOwnTime, PullBusy
  <1>13. PullLoggedFirst'
    BY <1>1, <1>2, <1>3 DEF PullIInv, PullLoggedFirst, Pull!at
  <1>14. PullFoundSuperseded'
    <2>1. ASSUME NEW u \in Threads, PullMayAnswer(req'[u])
          PROVE  /\ req'[u] = req[u] /\ PullSuperseded(req[u].topic, req[u].ts)
                 /\ posted'[req[u].ts] = posted[req[u].ts]
      <3>1. u # t
        BY <1>2, <1>3, <2>1 DEF PullMayAnswer
      <3>2. req'[u] = req[u] /\ PullBusy(u)
        BY <1>3, <2>1, <3>1 DEF PullMayAnswer, PullBusy
      <3> QED BY <1>11, <2>1, <3>1, <3>2 DEF PullIInv, PullFoundSuperseded
    <2>3. ASSUME NEW u \in Threads, PullMayAnswer(req'[u])
          PROVE  \A i \in DOMAIN log' :
                   i <= posted'[req'[u].ts] /\ log'[i].topic = req'[u].topic /\ log'[i].code = "EXHAUSTIVE" =>
                     \E k \in DOMAIN log' \ {i} : log'[k].topic = log'[i].topic /\ log'[k].ts >= log'[i].ts
      BY <1>1, <2>1, <2>3 DEF PullSuperseded, PullSupersedes
    <2> QED BY <2>3 DEF PullFoundSuperseded, PullSuperseded, PullSupersedes, PullMayAnswer
  <1>15. Pull!ShippedIsLogged' /\ Pull!AdmittedWithinLimit'
    BY <1>1 DEF PullIInv, Pull!ShippedIsLogged, Pull!AdmittedWithinLimit
  <1>16. Pull!NoBackToBackAnswer'
    BY <1>1, <1>10 DEF PullIInv, Pull!NoBackToBackAnswer
  <1>17. PullWindowIsCounted'
    <2>1. PullWaiting' = PullWaiting \cup {t} /\ t \notin PullWaiting
      BY <1>2, <1>3 DEF PullWaiting, Pull!at, Pull!Post
    <2>2. IsFiniteSet(PullWaiting) /\ Cardinality(PullWaiting) \in Nat
      BY PullWaitingCount DEF PullWaiting
    <2>3. Cardinality(PullWaiting') = Cardinality(PullWaiting) + 1
      BY <2>1, <2>2, FS_AddElement
    <2> QED BY <1>1, <2>2, <2>3, PullRequestFacts DEF PullIInv, PullWindowIsCounted
  <1> QED BY <1>6, <1>9, <1>12, <1>13, <1>14, <1>15, <1>16, <1>17 DEF PullIInv

\* A request over the limit or outside the peer's scopes ends with a refusal.
LEMMA PullRefuseKeeps ==
  ASSUME Pull!LimitsOK, PullIInv, NEW t \in Threads, Pull!RateCheck(t) \/ Pull!CheckAcl(t)
  PROVE  PullIInv'
  <1> DEFINE c == req[t]
             on == [c EXCEPT !.pc = "acl"]
             in == [c EXCEPT !.pc = "query"]
             no == [c EXCEPT !.pc = "log", !.code = "REFUSED", !.ids = {}]
  <1>1. /\ c \in PullRequests /\ window \in 0..MaxPulls /\ window <= RateLimit /\ PullBusy(t)
        /\ MaxPulls \in Nat /\ RateLimit \in Nat
    BY PullRequestFacts DEF Pull!RateCheck, Pull!CheckAcl, PullBusy, Pull!at
  <1>2. /\ on \in PullRequests /\ on.pc = "acl" /\ on.ts = c.ts
        /\ in \in PullRequests /\ in.pc = "query" /\ in.ts = c.ts
        /\ no \in PullRequests /\ no.pc = "log" /\ no.ts = c.ts /\ no.code = "REFUSED"
    BY <1>1 DEF PullRequests, Pull!Codes
  <1>3. /\ req' = [req EXCEPT ![t] = on] \/ req' = [req EXCEPT ![t] = in] \/ req' = [req EXCEPT ![t] = no]
        /\ UNCHANGED <<noFederate, log, client, lostLog, shipped, posted, clock>>
    BY PullRequestFacts DEF Pull!RateCheck, Pull!CheckAcl, Pull!go, Pull!Decide, PullRequests
  <1> HIDE DEF on, in, no
  <1>4. window' \in Nat /\ window' <= RateLimit
        /\ (window' <= window \/ (Pull!at(t, "limit") /\ window' = window + 1))
    BY <1>1 DEF Pull!RateCheck, Pull!CheckAcl, Pull!UnderLimit
  <1>5. PICK r \in {on, in, no} : req' = [req EXCEPT ![t] = r]
    BY <1>3
  <1>6. /\ r \in PullRequests /\ r.ts = c.ts /\ r.pc \notin {"limit", "answer", "free"}
        /\ ~PullMayAnswer(r)
    BY <1>2, <1>5 DEF PullMayAnswer
  <1> HIDE DEF c
  <1> QED BY <1>1, <1>3, <1>4, <1>5, <1>6, PullMoves DEF c

\* Among the entries of a topic there is one with the greatest time.
LEMMA PullLatest ==
  ASSUME Pull!LimitsOK, PullIInv, NEW S \in SUBSET DOMAIN log, S # {}
  PROVE  \E m \in S : \A j \in S : log[j].ts <= log[m].ts
  <1> DEFINE T == {MaxPulls - log[x].ts : x \in S}
  <1>1. \A x \in S : log[x].ts \in Nat /\ MaxPulls - log[x].ts \in Nat
    <2>1. \A x \in DOMAIN log : log[x].ts \in 1..clock
      BY DEF PullIInv, PullOwnTime
    <2>2. MaxPulls \in Nat /\ clock \in 0..MaxPulls
      BY DEF Pull!LimitsOK, PullIInv, Pull!TypeOK
    <2> QED BY <2>1, <2>2
  <1>2. T \subseteq Nat /\ T # {}
    BY <1>1
  <1>3. PICK y \in T : \A z \in T : ~(<<z, y>> \in OpToRel(<, Nat))
    BY <1>2, NatLessThanWellFounded, WFMin
  <1>4. PICK m \in S : y = MaxPulls - log[m].ts
    OBVIOUS
  <1>5. ASSUME NEW j \in S PROVE log[j].ts <= log[m].ts
    <2>1. MaxPulls - log[j].ts \in T /\ MaxPulls - log[j].ts \in Nat /\ y \in Nat
      BY <1>1, <1>2
    <2>2. ~(MaxPulls - log[j].ts < y)
      BY <1>3, <2>1 DEF OpToRel
    <2> QED BY <1>1, <1>4, <2>2 DEF Pull!LimitsOK
  <1> QED BY <1>5

\* The look at the log finds the last full answer to the topic, if there is one.
LEMMA PullQueryKeeps ==
  ASSUME Pull!LimitsOK, PullIInv, NEW t \in Threads, Pull!QueryLog(t)
  PROVE  PullIInv'
  <1> DEFINE c == req[t]
             go_on == [c EXCEPT !.pc = "search"]
             no == [c EXCEPT !.pc = "log", !.code = "ALREADY_EXHAUSTED", !.ids = {}]
  <1>1. /\ c \in PullRequests /\ window \in Nat /\ window <= RateLimit /\ PullBusy(t)
        /\ UNCHANGED <<noFederate, window, log, client, lostLog, shipped, posted, clock>>
    BY PullRequestFacts DEF Pull!QueryLog, PullBusy, Pull!at
  <1>4. window' \in Nat /\ window' <= RateLimit /\ window' <= window
    BY <1>1
  <1>2. CASE Pull!Exhausted(c.topic)
    <2>1. /\ no \in PullRequests /\ no.pc = "log" /\ no.ts = c.ts /\ no.code = "ALREADY_EXHAUSTED"
      BY <1>1 DEF PullRequests, Pull!Codes
    <2>2. req' = [req EXCEPT ![t] = no] /\ ~PullMayAnswer(no)
      BY <1>2, <2>1, PullRequestFacts DEF Pull!QueryLog, Pull!Decide, PullRequests, PullMayAnswer
    <2>3. no.pc \notin {"limit", "answer", "free"}
      BY <2>1
    <2> HIDE DEF no, c
    <2> QED BY <1>1, <1>4, <2>1, <2>2, <2>3, PullMoves DEF c
  <1>3. CASE ~Pull!Exhausted(c.topic)
    <2>1. /\ go_on \in PullRequests /\ go_on.pc = "search" /\ go_on.ts = c.ts
          /\ go_on.topic = c.topic
      BY <1>1 DEF PullRequests
    <2>2. req' = [req EXCEPT ![t] = go_on]
      BY <1>3, PullRequestFacts DEF Pull!QueryLog, Pull!go, PullRequests
    <2>3. PullSuperseded(c.topic, c.ts)
      <3>1. ASSUME NEW i \in DOMAIN log, log[i].topic = c.topic, log[i].code = "EXHAUSTIVE"
            PROVE  \E k \in DOMAIN log \ {i} : PullSupersedes(k, i)
        <4> DEFINE of == {n \in DOMAIN log : log[n].topic = c.topic}
        <4>1. PICK m \in of : \A j \in of : log[j].ts <= log[m].ts
          BY <3>1, PullLatest
        <4>2. log[m] \in Pull!LastEntry(c.topic)
          BY <4>1 DEF Pull!LastEntry
        <4>3. log[m].code # "EXHAUSTIVE"
          BY <1>3, <4>2 DEF Pull!Exhausted
        <4>4. log[i].ts \in Nat /\ log[m].ts \in Nat
          BY <4>1 DEF PullIInv, PullOwnTime
        <4> QED BY <3>1, <4>1, <4>3, <4>4 DEF PullSupersedes
      <3> QED BY <3>1 DEF PullSuperseded
    <2>4. go_on.pc \notin {"limit", "answer", "free"} /\ PullSuperseded(go_on.topic, go_on.ts)
      BY <2>1, <2>3
    <2> HIDE DEF go_on, c
    <2> QED BY <1>1, <1>4, <2>1, <2>2, <2>4, PullMoves DEF c
  <1> QED BY <1>2, <1>3

\* A search picks the records of the scope that no rule refuses.
LEMMA PullSearchKeeps ==
  ASSUME Pull!LimitsOK, PullIInv, NEW t \in Threads, Pull!Search(t)
  PROVE  PullIInv'
  <1> DEFINE c == req[t]
             found == Pull!Candidates(c.scope)
             clean == found \ Refusing
             code == Pull!select_trigger_code(found, clean)
             r == [c EXCEPT !.pc = "log", !.code = code, !.ids = clean]
  <1>1. /\ c \in PullRequests /\ window \in Nat /\ window <= RateLimit /\ PullBusy(t)
        /\ c.pc = "search"
        /\ UNCHANGED <<noFederate, window, log, client, lostLog, shipped, posted, clock>>
    BY PullRequestFacts DEF Pull!Search, PullBusy, Pull!at
  <1>2. clean \subseteq Records /\ code \in Pull!Codes
    BY DEF Pull!Candidates, Pull!select_trigger_code, Pull!Codes
  <1>3. r \in PullRequests /\ r.pc = "log" /\ r.ts = c.ts /\ r.topic = c.topic
    BY <1>1, <1>2 DEF PullRequests
  <1>4. req' = [req EXCEPT ![t] = r]
    BY PullRequestFacts DEF Pull!Search, Pull!Decide, PullRequests
  <1>5. PullSuperseded(c.topic, c.ts)
    BY <1>1 DEF PullIInv, PullFoundSuperseded, PullMayAnswer
  <1>6. window' \in Nat /\ window' <= RateLimit /\ window' <= window
    BY <1>1
  <1>7. r.pc \notin {"limit", "answer", "free"} /\ PullSuperseded(r.topic, r.ts)
    BY <1>3, <1>5
  <1> HIDE DEF r, c
  <1> QED BY <1>1, <1>3, <1>4, <1>6, <1>7, PullMoves DEF c

\* The log entry is there before the answer leaves, unless its append failed.
LEMMA PullLogKeeps ==
  ASSUME Pull!LimitsOK, PullIInv, NEW t \in Threads, Pull!LogAccess(t)
  PROVE  PullIInv'
  <1> DEFINE c == req[t]
             r == [c EXCEPT !.pc = "answer"]
             e == [topic |-> c.topic, scope |-> c.scope, ts |-> c.ts, code |-> c.code, ids |-> c.ids]
  <1>1. /\ c \in PullRequests /\ PullBusy(t) /\ c.pc = "log" /\ c.ts \in 1..clock
        /\ clock \in 0..MaxPulls
        /\ MaxPulls \in Nat /\ c.ts \in 1..MaxPulls
        /\ UNCHANGED <<noFederate, window, client, shipped, posted, clock>>
    BY PullRequestFacts DEF Pull!LogAccess, PullBusy, Pull!at
  <1>2. /\ r \in PullRequests /\ r.pc = "answer" /\ r.ts = c.ts /\ r.ids = c.ids
        /\ r.topic = c.topic
    BY <1>1 DEF PullRequests
  <1>3. req' = [req EXCEPT ![t] = r]
    BY PullRequestFacts DEF Pull!LogAccess, Pull!go, PullRequests
  <1>4. e \in Pull!Entry /\ e.ts = c.ts /\ e.ids = c.ids /\ e.topic = c.topic /\ e.code = c.code
    BY <1>1 DEF Pull!Entry, PullRequests
  <1>5. \/ log' = Append(log, e) /\ lostLog' = lostLog
        \/ log' = log /\ lostLog' = lostLog \cup {c.ts}
    BY DEF Pull!LogAccess
  <1> HIDE DEF r, e
  <1>6. /\ req'[t] = r /\ \A u \in Threads \ {t} : req'[u] = req[u]
        /\ req' \in [Threads -> PullRequests]
    BY <1>2, <1>3, PullRequestFacts
  <1> DEFINE L == Len(log)
  <1>7. /\ log \in Seq(Pull!Entry) /\ L \in Nat /\ DOMAIN log = 1..L /\ log' \in Seq(Pull!Entry)
        /\ DOMAIN log \subseteq DOMAIN log' /\ Len(log') \in Nat /\ L <= Len(log')
        /\ \A i \in DOMAIN log : log'[i] = log[i] /\ i <= L
        /\ \A i \in DOMAIN log' : i \in DOMAIN log \/ (i = L + 1 /\ log'[i] = e /\ log' = Append(log, e))
    <2>1. log \in Seq(Pull!Entry) /\ L \in Nat /\ DOMAIN log = 1..L
      BY DEF PullIInv, Pull!TypeOK
    <2>2. CASE log' = log
      <3>1. (\A i \in 1..L : i <= L) /\ L <= L /\ Len(log') = L
        BY <2>1, <2>2
      <3> HIDE DEF L
      <3> QED BY <2>1, <2>2, <3>1
    <2>3. CASE log' = Append(log, e)
      <3>1. /\ log' \in Seq(Pull!Entry) /\ Len(log') = L + 1 /\ DOMAIN log' = 1..(L + 1)
            /\ log'[L + 1] = e /\ \A i \in 1..L : log'[i] = log[i]
        BY <1>4, <2>1, <2>3
      <3>2. \A i \in 1..L : i \in 1..(L + 1) /\ i <= L
        BY <2>1
      <3>3. \A i \in 1..(L + 1) : i \in 1..L \/ i = L + 1
        BY <2>1
      <3>4. L <= Len(log') /\ Len(log') \in Nat
        BY <2>1, <3>1
      <3> HIDE DEF L
      <3> QED BY <2>1, <2>3, <3>1, <3>2, <3>3, <3>4
    <2> QED BY <1>5, <2>1, <2>2, <2>3
  <1>8. log' = Append(log, e) => L + 1 \in DOMAIN log' /\ log'[L + 1] = e
    BY <1>4, <1>7
  <1> HIDE DEF L
  <1>9. Pull!TypeOK'
    BY <1>1, <1>6, <1>7 DEF PullIInv, Pull!TypeOK, PullRequests
  <1>10. PullHistories'
    <2>1. \A n \in 1..MaxPulls : posted[n] \in Nat /\ posted[n] <= Len(log)
      BY DEF PullIInv, PullHistories
    <2>2. \A n \in 1..MaxPulls : posted[n] <= Len(log')
      BY <1>7, <2>1 DEF L
    <2> QED BY <1>1, <2>2 DEF PullIInv, PullHistories
  <1>11. \A i \in DOMAIN log' : log'[i].ts \in 1..clock
    BY <1>1, <1>4, <1>7 DEF PullIInv, PullOwnTime
  <1>12. PullOwnTime'
    BY <1>1, <1>2, <1>6, <1>11 DEF PullIInv, PullOwnTime, PullBusy
  <1>13. PullLoggedFirst'
    <2>1. ASSUME NEW u \in Threads, req'[u].pc = "answer", req'[u].ts \notin lostLog'
          PROVE  \E i \in DOMAIN log' : log'[i].ts = req'[u].ts /\ log'[i].ids = req'[u].ids
      <3>1. CASE u = t
        <4>1. log' = Append(log, e)
          BY <1>2, <1>5, <1>6, <2>1, <3>1
        <4> QED BY <1>2, <1>4, <1>6, <1>8, <3>1, <4>1
      <3>2. CASE u # t
        <4>1. req'[u] = req[u] /\ req[u].ts \notin lostLog
          BY <1>5, <1>6, <2>1, <3>2
        <4>2. PICK i \in DOMAIN log : log[i].ts = req[u].ts /\ log[i].ids = req[u].ids
          BY <2>1, <4>1 DEF PullIInv, PullLoggedFirst, Pull!at
        <4> QED BY <1>7, <4>1, <4>2
      <3> QED BY <3>1, <3>2
    <2> QED BY <2>1 DEF PullLoggedFirst, Pull!at
  <1>14. Pull!ShippedIsLogged'
    <2>1. ASSUME NEW n \in 1..MaxPulls, shipped[n] # {}, n \notin lostLog'
          PROVE  \E i \in DOMAIN log' : log'[i].ts = n /\ log'[i].ids = shipped[n]
      <3>1. n \notin lostLog
        BY <1>5, <2>1
      <3>2. PICK i \in DOMAIN log : log[i].ts = n /\ log[i].ids = shipped[n]
        BY <2>1, <3>1 DEF PullIInv, Pull!ShippedIsLogged
      <3> QED BY <1>7, <3>2
    <2> QED BY <1>1, <2>1 DEF Pull!ShippedIsLogged
  <1>15. ASSUME NEW topic, NEW ts \in 1..MaxPulls, PullSuperseded(topic, ts),
                NEW i \in DOMAIN log', i <= posted[ts], log'[i].topic = topic, log'[i].code = "EXHAUSTIVE"
         PROVE  i \in DOMAIN log /\ \E k \in DOMAIN log \ {i} : log'[k].topic = log'[i].topic /\ log'[k].ts >= log'[i].ts
    <2>1. posted[ts] \in Nat /\ posted[ts] <= L
      BY DEF PullIInv, PullHistories, L
    <2>2. i \in DOMAIN log
      BY <1>7, <1>15, <2>1
    <2>3. PICK k \in DOMAIN log \ {i} : log[k].topic = log[i].topic /\ log[k].ts >= log[i].ts
      BY <1>7, <1>15, <2>2 DEF PullSuperseded, PullSupersedes
    <2> QED BY <1>7, <2>2, <2>3
  <1>16. PullFoundSuperseded'
    <2>1. ASSUME NEW u \in Threads, PullMayAnswer(req'[u])
          PROVE  /\ req'[u] = req[u] /\ PullSuperseded(req[u].topic, req[u].ts)
                 /\ req[u].ts \in 1..MaxPulls
      <3>1. u # t
        BY <1>2, <1>6, <2>1 DEF PullMayAnswer
      <3>2. req'[u] = req[u] /\ PullBusy(u)
        BY <1>6, <2>1, <3>1 DEF PullMayAnswer, PullBusy
      <3>3. req[u].ts \in 1..MaxPulls
        BY <1>1, <3>2, PullRequestFacts
      <3> QED BY <2>1, <3>2, <3>3 DEF PullIInv, PullFoundSuperseded
    <2>2. ASSUME NEW u \in Threads, PullMayAnswer(req'[u]), NEW i \in DOMAIN log',
                 i <= posted'[req'[u].ts], log'[i].topic = req'[u].topic, log'[i].code = "EXHAUSTIVE"
          PROVE  \E k \in DOMAIN log' \ {i} : log'[k].topic = log'[i].topic /\ log'[k].ts >= log'[i].ts
      <3>1. /\ req[u].ts \in 1..MaxPulls /\ PullSuperseded(req[u].topic, req[u].ts)
            /\ i <= posted[req[u].ts] /\ log'[i].topic = req[u].topic
        BY <1>1, <2>1, <2>2
      <3>2. PICK k \in DOMAIN log \ {i} : log'[k].topic = log'[i].topic /\ log'[k].ts >= log'[i].ts
        BY <1>15, <2>2, <3>1
      <3> QED BY <1>7, <3>2
    <2> QED BY <2>2 DEF PullFoundSuperseded, PullSuperseded, PullSupersedes, PullMayAnswer
  <1>17. Pull!NoBackToBackAnswer'
    <2>1. ASSUME NEW i \in DOMAIN log', NEW j \in DOMAIN log', i <= posted[log'[j].ts],
                 log'[i].topic = log'[j].topic, log'[i].code = "EXHAUSTIVE", log'[j].code = "EXHAUSTIVE"
          PROVE  \E k \in DOMAIN log' \ {i, j} : log'[k].topic = log'[i].topic /\ log'[k].ts >= log'[i].ts
      <3>1. CASE j \in DOMAIN log
        <4>1. log[j].ts \in 1..MaxPulls
          BY <1>1, <3>1 DEF PullIInv, PullOwnTime
        <4>2. posted[log[j].ts] \in Nat /\ posted[log[j].ts] <= L
          BY <4>1 DEF PullIInv, PullHistories, L
        <4>3. i \in DOMAIN log
          BY <1>7, <2>1, <3>1, <4>2
        <4>4. log'[i] = log[i] /\ log'[j] = log[j]
          BY <1>7, <3>1, <4>3
        <4>5. /\ i <= posted[log[j].ts] /\ log[i].topic = log[j].topic
              /\ log[i].code = "EXHAUSTIVE" /\ log[j].code = "EXHAUSTIVE"
          BY <2>1, <4>4
        <4>6. Pull!NoBackToBackAnswer
          BY DEF PullIInv
        <4>7. PICK k \in DOMAIN log \ {i, j} : log[k].topic = log[i].topic /\ log[k].ts >= log[i].ts
          BY <3>1, <4>3, <4>5, <4>6 DEF Pull!NoBackToBackAnswer
        <4> QED BY <1>7, <4>3, <4>7
      <3>2. CASE j \notin DOMAIN log
        <4>1. j = L + 1 /\ log'[j] = e
          BY <1>7, <3>2
        <4>2. c.code = "EXHAUSTIVE" /\ log'[i].topic = c.topic /\ i <= posted[c.ts]
          BY <1>4, <2>1, <4>1
        <4>3. PullSuperseded(c.topic, c.ts)
          BY <1>1, <4>2 DEF PullIInv, PullFoundSuperseded, PullMayAnswer
        <4>4. PICK k \in DOMAIN log \ {i} : log'[k].topic = log'[i].topic
              /\ log'[k].ts >= log'[i].ts
          BY <1>1, <1>15, <2>1, <4>2, <4>3
        <4> QED BY <1>7, <3>2, <4>4
      <3> QED BY <3>1, <3>2
    <2> QED BY <1>1, <2>1 DEF Pull!NoBackToBackAnswer
  <1>18. Pull!AdmittedWithinLimit' /\ PullWindowIsCounted'
    <2>1. PullWaiting' = PullWaiting
      BY <1>1, <1>2, <1>6 DEF PullWaiting, Pull!at
    <2> QED BY <1>1, <2>1 DEF PullIInv, Pull!AdmittedWithinLimit, PullWindowIsCounted
  <1> QED BY <1>9, <1>10, <1>12, <1>13, <1>14, <1>16, <1>17, <1>18 DEF PullIInv

\* An answer leaves with what was logged for it.
LEMMA PullAnswerKeeps ==
  ASSUME Pull!LimitsOK, PullIInv, NEW t \in Threads, Pull!Answer(t)
  PROVE  PullIInv'
  <1> DEFINE c == req[t]
  <1>1. /\ c \in PullRequests /\ PullBusy(t) /\ Pull!at(t, "answer") /\ c.ts \in 1..clock
        /\ clock \in 0..MaxPulls
        /\ MaxPulls \in Nat /\ c.ts \in 1..MaxPulls /\ c.ids \subseteq Records
        /\ c.code \in Pull!Codes
        /\ shipped' = [shipped EXCEPT ![c.ts] = c.ids] /\ req' = [req EXCEPT ![t] = Pull!Free]
        /\ UNCHANGED <<noFederate, window, log, lostLog, posted, clock>>
    BY PullRequestFacts DEF Pull!Answer, PullBusy, Pull!at, PullRequests
  <1>2. Pull!Free \in PullRequests /\ Pull!Free.pc = "free"
    BY PullFreeFits
  <1>3. /\ req'[t] = Pull!Free /\ \A u \in Threads \ {t} : req'[u] = req[u]
        /\ req' \in [Threads -> PullRequests]
    BY <1>1, <1>2, PullRequestFacts
  <1>4. client' \in [action : {"none", "use", "noop", "fallback"}, ids : SUBSET Records]
    BY <1>1 DEF Pull!Answer, Pull!Outcome, Pull!Codes
  <1>5. Pull!TypeOK'
    BY <1>1, <1>3, <1>4 DEF PullIInv, Pull!TypeOK, PullRequests
  <1>6. /\ shipped' \in [1..MaxPulls -> SUBSET Records] /\ shipped'[c.ts] = c.ids
        /\ \A n \in 1..MaxPulls \ {c.ts} : shipped'[n] = shipped[n]
    BY <1>1 DEF PullIInv, PullHistories
  <1>7. PullHistories'
    BY <1>1, <1>6 DEF PullIInv, PullHistories
  <1>8. PullOwnTime'
    BY <1>1, <1>2, <1>3 DEF PullIInv, PullOwnTime, PullBusy
  <1>9. PullLoggedFirst'
    BY <1>1, <1>2, <1>3 DEF PullIInv, PullLoggedFirst, Pull!at
  <1>10. PullFoundSuperseded'
    <2>1. ASSUME NEW u \in Threads, PullMayAnswer(req'[u])
          PROVE  req'[u] = req[u] /\ PullSuperseded(req[u].topic, req[u].ts)
      BY <1>2, <1>3, <2>1 DEF PullIInv, PullFoundSuperseded, PullMayAnswer
    <2>2. ASSUME NEW u \in Threads, PullMayAnswer(req'[u])
          PROVE  \A i \in DOMAIN log' :
                   i <= posted'[req'[u].ts] /\ log'[i].topic = req'[u].topic /\ log'[i].code = "EXHAUSTIVE" =>
                     \E k \in DOMAIN log' \ {i} : log'[k].topic = log'[i].topic /\ log'[k].ts >= log'[i].ts
      BY <1>1, <2>1, <2>2 DEF PullSuperseded, PullSupersedes
    <2> QED BY <2>2 DEF PullFoundSuperseded, PullSuperseded, PullSupersedes, PullMayAnswer
  <1>11. Pull!ShippedIsLogged'
    <2>1. ASSUME NEW n \in 1..MaxPulls, shipped'[n] # {}, n \notin lostLog
          PROVE  \E i \in DOMAIN log : log[i].ts = n /\ log[i].ids = shipped'[n]
      <3>1. CASE n = c.ts
        BY <1>1, <1>6, <2>1, <3>1 DEF PullIInv, PullLoggedFirst
      <3>2. CASE n # c.ts
        BY <1>6, <2>1, <3>2 DEF PullIInv, Pull!ShippedIsLogged
      <3> QED BY <3>1, <3>2
    <2> QED BY <1>1, <2>1 DEF Pull!ShippedIsLogged
  <1>12. Pull!NoBackToBackAnswer' /\ Pull!AdmittedWithinLimit'
    BY <1>1 DEF PullIInv, Pull!NoBackToBackAnswer, Pull!AdmittedWithinLimit
  <1>13. PullWindowIsCounted'
    <2>1. PullWaiting' = PullWaiting
      BY <1>1, <1>2, <1>3 DEF PullWaiting, Pull!at
    <2> QED BY <1>1, <2>1 DEF PullIInv, PullWindowIsCounted
  <1> QED BY <1>5, <1>7, <1>8, <1>9, <1>10, <1>11, <1>12, <1>13 DEF PullIInv

\* A record is tagged, the minute passes, or nothing happens.
LEMMA PullAroundKeeps ==
  ASSUME Pull!LimitsOK, PullIInv, (\E r \in Records : Pull!Tag(r)) \/ Pull!Minute \/ UNCHANGED Pull!pvars
  PROVE  PullIInv'
  <1>1. /\ noFederate' \subseteq Records /\ (window' = window \/ window' = 0)
        /\ UNCHANGED <<log, req, client, lostLog, shipped, posted, clock>>
    BY DEF Pull!Tag, Pull!Minute, Pull!pvars, PullIInv, Pull!TypeOK
  <1>2. /\ window \in 0..MaxPulls /\ window <= RateLimit /\ clock \in 0..MaxPulls
        /\ MaxPulls \in Nat /\ RateLimit \in Nat
    BY DEF Pull!LimitsOK, PullIInv, Pull!TypeOK, Pull!AdmittedWithinLimit
  <1>3. window' \in 0..MaxPulls /\ window' <= RateLimit /\ window' <= window
    BY <1>1, <1>2
  <1>4. Pull!TypeOK'
    BY <1>1, <1>3 DEF PullIInv, Pull!TypeOK
  <1>5. PullHistories' /\ Pull!ShippedIsLogged' /\ Pull!NoBackToBackAnswer'
    BY <1>1, <1>2, PullLogQuiet
  <1>6. PullOwnTime' /\ PullLoggedFirst'
    BY <1>1 DEF PullIInv, PullOwnTime, PullLoggedFirst, PullBusy, Pull!at
  <1>7. PullFoundSuperseded'
    BY <1>1 DEF PullIInv, PullFoundSuperseded, PullSuperseded, PullSupersedes, PullMayAnswer
  <1>8. Pull!AdmittedWithinLimit'
    BY <1>3 DEF Pull!AdmittedWithinLimit
  <1>9. PullWindowIsCounted'
    <2>1. PullWaiting' = PullWaiting
      BY <1>1 DEF PullWaiting, Pull!at
    <2>2. Cardinality(PullWaiting) \in Nat
      BY PullWaitingCount DEF PullWaiting
    <2> QED BY <1>1, <1>2, <1>3, <2>1, <2>2 DEF PullIInv, PullWindowIsCounted
  <1> QED BY <1>4, <1>5, <1>6, <1>7, <1>8, <1>9 DEF PullIInv

-----------------------------------------------------------------------------

\* No request is under way and the log is empty at the start.
LEMMA PullInitHolds ==
  ASSUME Pull!LimitsOK, Pull!Init
  PROVE  PullIInv
  <1>1. Pull!Free \in PullRequests /\ Pull!Free.pc = "free"
    BY PullFreeFits
  <1>2. /\ MaxPulls \in Nat /\ RateLimit \in Nat /\ log = <<>> /\ window = 0 /\ clock = 0
        /\ req = [t \in Threads |-> Pull!Free] /\ noFederate = {}
        /\ client = [action |-> "none", ids |-> {}]
        /\ shipped = [n \in 1..MaxPulls |-> {}] /\ posted = [n \in 1..MaxPulls |-> 0]
    BY DEF Pull!Init, Pull!LimitsOK
  <1>3. req \in [Threads -> PullRequests] /\ \A t \in Threads : req[t].pc = "free"
    BY <1>1, <1>2
  <1>4. log \in Seq(Pull!Entry) /\ DOMAIN log = {} /\ Len(log) = 0
    BY <1>2
  <1>5. Pull!TypeOK
    BY <1>2, <1>3, <1>4 DEF Pull!TypeOK, PullRequests
  <1>6. PullHistories
    BY <1>2, <1>4 DEF PullHistories
  <1>7. PullOwnTime /\ PullLoggedFirst /\ PullFoundSuperseded
    BY <1>3, <1>4 DEF PullOwnTime, PullLoggedFirst, PullFoundSuperseded, PullMayAnswer, PullBusy,
                      Pull!at
  <1>8. Pull!ShippedIsLogged /\ Pull!NoBackToBackAnswer /\ Pull!AdmittedWithinLimit
    BY <1>2, <1>4 DEF Pull!ShippedIsLogged, Pull!NoBackToBackAnswer, Pull!AdmittedWithinLimit
  <1>9. PullWindowIsCounted
    <2>1. PullWaiting = {} /\ Cardinality({}) = 0
      BY <1>3, FS_EmptySet DEF PullWaiting, Pull!at
    <2> QED BY <1>2, <2>1 DEF PullWindowIsCounted
  <1> QED BY <1>5, <1>6, <1>7, <1>8, <1>9 DEF PullIInv

\* Every step of the threads serving pulls keeps the invariant.
LEMMA PullStepKeeps ==
  ASSUME Pull!LimitsOK, PullIInv, [Pull!Next]_Pull!pvars
  PROVE  PullIInv'
  <1>1. ASSUME NEW t \in Threads, NEW topic \in Topics, NEW scope \in Realms, Pull!Post(t, topic, scope)
        PROVE  PullIInv'
    BY <1>1, PullPostKeeps
  <1>2. ASSUME NEW t \in Threads,
               Pull!RateCheck(t) \/ Pull!CheckAcl(t) \/ Pull!QueryLog(t) \/ Pull!Search(t) \/ Pull!LogAccess(t) \/ Pull!Answer(t)
        PROVE  PullIInv'
    BY <1>2, PullRefuseKeeps, PullQueryKeeps, PullSearchKeeps, PullLogKeeps, PullAnswerKeeps
  <1> QED BY <1>1, <1>2, PullAroundKeeps DEF Pull!Next

\* The step that decides a search takes no record that carries the tag.
LEMMA PullSearchHeeds ==
  ASSUME PullIInv, [Pull!Next]_Pull!pvars
  PROVE  [Pull!NoFederateStep]_Pull!pvars
  <1> SUFFICES ASSUME Pull!Next, NEW t \in Threads, Pull!at(t, "search"), req'[t].pc = "log"
               PROVE  req'[t].ids \cap noFederate = {}
    BY DEF Pull!NoFederateStep
  <1>1. req \in [Threads -> PullRequests]
    BY DEF PullIInv, Pull!TypeOK, PullRequests
  <1>2. CASE Pull!Search(t)
    <2> DEFINE clean == Pull!Candidates(req[t].scope) \ Refusing
    <2>1. req'[t].ids = clean
      BY <1>1, <1>2 DEF Pull!Search, Pull!Decide, PullRequests
    <2> QED BY <2>1 DEF Pull!Candidates
  <1>3. req'[t] # req[t]
    BY DEF Pull!at
  <1>4. ASSUME NEW u \in Threads, ~Pull!Search(u),
               (\E topic \in Topics, scope \in Realms : Pull!Post(u, topic, scope)) \/ Pull!RateCheck(u)
               \/ Pull!CheckAcl(u) \/ Pull!QueryLog(u) \/ Pull!LogAccess(u) \/ Pull!Answer(u)
        PROVE  FALSE
    <2>1. CASE u = t
      BY <1>4, <2>1 DEF Pull!at, Pull!Post, Pull!RateCheck, Pull!CheckAcl, Pull!QueryLog,
                        Pull!LogAccess, Pull!Answer
    <2>2. CASE u # t
      BY <1>1, <1>3, <1>4, <2>2 DEF Pull!Post, Pull!RateCheck, Pull!CheckAcl, Pull!QueryLog,
                                    Pull!LogAccess, Pull!Answer, Pull!go, Pull!Decide
    <2> QED BY <2>1, <2>2
  <1>5. ASSUME NEW u \in Threads, Pull!Search(u)
        PROVE  u = t
    BY <1>1, <1>3, <1>5 DEF Pull!Search, Pull!Decide
  <1>6. CASE (\E r \in Records : Pull!Tag(r)) \/ Pull!Minute
    BY <1>3, <1>6 DEF Pull!Tag, Pull!Minute
  <1> QED BY <1>2, <1>4, <1>5, <1>6 DEF Pull!Next

\* What leaves the node is in its log before the peer has it, or its append failed; a
\* topic answered in full is answered in full again only after another entry, however
\* requests overlap; the limiter lets no more through than its limit; and no search
\* returns what carries no-federate.
THEOREM PullSafety ==
  Pull!LimitsOK => (Pull!Spec => []Pull!PullSafe /\ [][Pull!NoFederateStep]_Pull!pvars)
  <1> SUFFICES ASSUME Pull!LimitsOK
               PROVE  Pull!Spec => []Pull!PullSafe /\ [][Pull!NoFederateStep]_Pull!pvars
    OBVIOUS
  <1>1. Pull!Init => PullIInv
    BY PullInitHolds
  <1>2. PullIInv /\ [Pull!Next]_Pull!pvars => PullIInv'
    BY PullStepKeeps
  <1>3. PullIInv => Pull!PullSafe
    BY DEF PullIInv, Pull!PullSafe
  <1>4. PullIInv /\ [Pull!Next]_Pull!pvars => [Pull!NoFederateStep]_Pull!pvars
    BY PullSearchHeeds
  <1> QED BY <1>1, <1>2, <1>3, <1>4, PTL DEF Pull!Spec

-----------------------------------------------------------------------------
(* The rewrites: any handlers, events, sessions, targets and limits.       *)

\* The instance's operators on finite sets are those of the standard modules.
LEMMA RewriteLibrary ==
  /\ \A S : Rewrite!Cardinality(S) = Cardinality(S)
  /\ \A S : Rewrite!IsFiniteSet(S) <=> IsFiniteSet(S)
  BY DEF Rewrite!Cardinality, Cardinality, Rewrite!IsFiniteSet, IsFiniteSet

\* What the library says of finite sets, for those operators.
LEMMA RewriteAddElement ==
  ASSUME NEW S, NEW x, Rewrite!IsFiniteSet(S)
  PROVE  /\ Rewrite!IsFiniteSet(S \cup {x})
         /\ Rewrite!Cardinality(S \cup {x}) =
              IF x \in S THEN Rewrite!Cardinality(S) ELSE Rewrite!Cardinality(S) + 1
  BY RewriteLibrary, FS_AddElement
\* The size of a finite set is a natural number.
LEMMA RewriteCardinalityType ==
  ASSUME NEW S, Rewrite!IsFiniteSet(S)
  PROVE  Rewrite!Cardinality(S) \in Nat
  BY RewriteLibrary, FS_CardinalityType
\* The empty set has no element.
LEMMA RewriteEmptySet == Rewrite!IsFiniteSet({}) /\ Rewrite!Cardinality({}) = 0
  BY RewriteLibrary, FS_EmptySet
\* An interval is finite.
LEMMA RewriteInterval == ASSUME NEW m \in Int, NEW n \in Int PROVE Rewrite!IsFiniteSet(m..n)
  BY RewriteLibrary, FS_Interval
\* A removed element makes a finite set smaller by one.
LEMMA RewriteRemoveElement ==
  ASSUME NEW S, NEW x, Rewrite!IsFiniteSet(S)
  PROVE  /\ Rewrite!IsFiniteSet(S \ {x})
         /\ Rewrite!Cardinality(S \ {x}) =
              IF x \in S THEN Rewrite!Cardinality(S) - 1 ELSE Rewrite!Cardinality(S)
  BY RewriteLibrary, FS_RemoveElement
\* A set of one element has one.
LEMMA RewriteSingleton ==
  ASSUME NEW x
  PROVE  Rewrite!IsFiniteSet({x}) /\ Rewrite!Cardinality({x}) = 1
  BY RewriteLibrary, FS_Singleton
\* A part of a finite set is finite and no larger.
LEMMA RewriteSubset ==
  ASSUME NEW S, Rewrite!IsFiniteSet(S), NEW T \in SUBSET S
  PROVE  Rewrite!IsFiniteSet(T) /\ Rewrite!Cardinality(T) <= Rewrite!Cardinality(S)
  BY RewriteLibrary, FS_Subset

RewriteWorker == [pc : Rewrite!Stages, event : Events, id : 0..MaxDeliveries]
\* A stored original.
RewriteOriginal == [event : Events, fresh : BOOLEAN]

RewriteTypes ==
  /\ worker \in [Workers -> RewriteWorker]
  /\ edges \subseteq (1..MaxDeliveries) \X {TargetOf[e] : e \in Events}
  /\ acked \subseteq Events \X (1..MaxDeliveries)
  /\ NoTarget \notin targets

\* Handlers that may still store, that found nothing stored, and that passed the
\* session's limit.
RewriteStoring == {"lookup", "session", "project", "target", "add"}
RewriteMissed  == {"session", "project", "target", "add"}
RewritePassed  == {"project", "target", "add"}
RewritePending == {w \in Workers : worker[w].pc \in RewriteStoring}
RewritePast(e) ==
  {w \in Workers : worker[w].pc \in RewritePassed /\ SessionOf[worker[w].event] = SessionOf[e]}
RewriteFreshOf(e) ==
  {i \in DOMAIN memories : memories[i].fresh /\ memories[i].event \in Rewrite!SameSession(e)}

\* The ids are given out in order, and every handler that may still store has one left.
RewriteStored ==
  \E n \in 0..MaxDeliveries :
    /\ DOMAIN memories = 1..n /\ \A i \in 1..n : memories[i] \in RewriteOriginal
    /\ nextId \in 0..MaxDeliveries /\ n + Rewrite!Cardinality(RewritePending) <= nextId

\* Of an event nobody delivered twice at once, one handler at most has it in hand, it
\* is not stored while that handler has found it missing, and it is stored once.
RewriteAlone ==
  \A v, w \in Workers :
    /\ worker[v].pc # "idle" /\ worker[w].pc # "idle" /\ worker[v].event = worker[w].event
    /\ worker[v].event \notin overlapped
    => v = w
RewriteUnknown ==
  \A w \in Workers : worker[w].pc \in RewriteMissed /\ worker[w].event \notin overlapped
                       => \A i \in DOMAIN memories : memories[i].event # worker[w].event
RewriteOnce ==
  \A i, j \in DOMAIN memories :
    memories[i].event = memories[j].event /\ memories[i].event \notin overlapped => i = j

\* Whoever has passed the limit has its place within the overshoot.
RewriteRoom ==
  SessionLimit > 0 =>
    \A e \in Events :
      Rewrite!Cardinality(RewriteFreshOf(e)) + Rewrite!Cardinality(RewritePast(e))
        <= SessionLimit + Rewrite!Cardinality(Workers) - 1

RewriteIInv ==
  /\ RewriteTypes /\ RewriteStored /\ RewriteAlone /\ RewriteUnknown /\ RewriteOnce /\ RewriteRoom
  /\ Rewrite!ReceiptMeansLinked

-----------------------------------------------------------------------------
(* Facts about the handlers and the sets they are counted in.              *)

\* A handler between deliveries is of its type.
LEMMA RewriteIdleIs ==
  ASSUME Rewrite!LimitsOK
  PROVE  Rewrite!Idle \in RewriteWorker /\ Rewrite!Idle.pc = "idle"
  <1>1. (CHOOSE e \in Events : TRUE) \in Events
    BY DEF Rewrite!LimitsOK
  <1>2. 0 \in 0..MaxDeliveries
    BY DEF Rewrite!LimitsOK
  <1> QED BY <1>1, <1>2 DEF Rewrite!Idle, RewriteWorker, Rewrite!Stages

\* What the sets that are counted have in common: they are finite.
LEMMA RewriteCounted ==
  ASSUME Rewrite!LimitsOK, RewriteIInv, NEW e \in Events
  PROVE  /\ Rewrite!IsFiniteSet(RewritePending) /\ Rewrite!Cardinality(RewritePending) \in Nat
         /\ Rewrite!IsFiniteSet(RewritePast(e)) /\ Rewrite!Cardinality(RewritePast(e)) \in Nat
         /\ Rewrite!IsFiniteSet(RewriteFreshOf(e)) /\ Rewrite!Cardinality(RewriteFreshOf(e)) \in Nat
         /\ Rewrite!Cardinality(Workers) \in Nat
  <1>1. RewritePending \in SUBSET Workers /\ RewritePast(e) \in SUBSET Workers
    BY DEF RewritePending, RewritePast
  <1>2. PICK n \in 0..MaxDeliveries : DOMAIN memories = 1..n
    BY DEF RewriteIInv, RewriteStored
  <1>3. Rewrite!IsFiniteSet(DOMAIN memories)
    BY <1>2, RewriteInterval DEF Rewrite!LimitsOK
  <1>4. RewriteFreshOf(e) \in SUBSET (DOMAIN memories)
    BY DEF RewriteFreshOf
  <1>5. Rewrite!IsFiniteSet(RewritePending) /\ Rewrite!IsFiniteSet(RewritePast(e))
        /\ Rewrite!IsFiniteSet(RewriteFreshOf(e)) /\ Rewrite!IsFiniteSet(Workers)
    BY <1>1, <1>3, <1>4, RewriteSubset DEF Rewrite!LimitsOK
  <1> QED BY <1>5, RewriteCardinalityType

\* A step of one handler.
LEMMA RewriteSteps ==
  ASSUME worker \in [Workers -> RewriteWorker], NEW w \in Workers,
         NEW pc \in Rewrite!Stages, Rewrite!go(w, pc)
  PROVE  /\ worker' \in [Workers -> RewriteWorker] /\ worker'[w].pc = pc
         /\ worker'[w].event = worker[w].event
         /\ \A v \in Workers \ {w} : worker'[v] = worker[v]
  <1>1. worker[w] \in RewriteWorker
    OBVIOUS
  <1>2. [worker[w] EXCEPT !.pc = pc] \in RewriteWorker /\ [worker[w] EXCEPT !.pc = pc].pc = pc
        /\ [worker[w] EXCEPT !.pc = pc].event = worker[w].event
    BY <1>1 DEF RewriteWorker
  <1>3. worker' = [worker EXCEPT ![w] = [worker[w] EXCEPT !.pc = pc]]
    BY DEF Rewrite!go
  <1> QED BY <1>2, <1>3

\* A handler that returns leaves the others as they are.
LEMMA RewriteReturns ==
  ASSUME Rewrite!LimitsOK, worker \in [Workers -> RewriteWorker],
         NEW w \in Workers, Rewrite!return(w)
  PROVE  /\ worker' \in [Workers -> RewriteWorker] /\ worker'[w].pc = "idle"
         /\ \A v \in Workers \ {w} : worker'[v] = worker[v]
  BY RewriteIdleIs DEF Rewrite!return

\* A step after which the handler is to link what it found or stored.
LEMMA RewriteToLink ==
  ASSUME worker \in [Workers -> RewriteWorker], NEW w \in Workers, NEW i \in 0..MaxDeliveries,
         worker' = [worker EXCEPT ![w].pc = "link", ![w].id = i]
  PROVE  /\ worker' \in [Workers -> RewriteWorker] /\ worker'[w].pc = "link"
         /\ worker'[w].event = worker[w].event
         /\ \A v \in Workers \ {w} : worker'[v] = worker[v]
  <1>1. worker[w] \in RewriteWorker
    OBVIOUS
  <1> DEFINE r == [worker[w] EXCEPT !.pc = "link", !.id = i]
  <1>2. r \in RewriteWorker /\ r.pc = "link" /\ r.event = worker[w].event
    BY <1>1 DEF RewriteWorker, Rewrite!Stages
  <1>3. worker' = [worker EXCEPT ![w] = r]
    OBVIOUS
  <1> HIDE DEF r
  <1> QED BY <1>2, <1>3

-----------------------------------------------------------------------------
(* A step that stores nothing.                                             *)

\* It goes on with its event or rests; it has found nothing stored before it is past
\* the look-up, and has found room before it is past the limit.
LEMMA RewriteControlKeeps ==
  ASSUME Rewrite!LimitsOK, RewriteIInv,
         NEW w \in Workers, UNCHANGED <<memories, overlapped, nextId>>,
         worker' \in [Workers -> RewriteWorker], \A v \in Workers \ {w} : worker'[v] = worker[v],
         worker[w].pc # "idle",
         worker'[w].pc # "idle" => worker'[w].event = worker[w].event,
         worker'[w].pc \in RewriteStoring => worker[w].pc \in RewriteStoring,
         worker'[w].pc \in RewriteMissed => \/ worker[w].pc \in RewriteMissed
                                     \/ \A i \in DOMAIN memories : memories[i].event # worker[w].event,
         worker'[w].pc \in RewritePassed => \/ worker[w].pc \in RewritePassed
                                     \/ SessionLimit = 0
                                     \/ Rewrite!Cardinality(RewriteFreshOf(worker[w].event)) < SessionLimit
  PROVE  RewriteStored' /\ RewriteAlone' /\ RewriteUnknown' /\ RewriteOnce' /\ RewriteRoom'
  <1>1. RewriteStored'
    <2>1. PICK n \in 0..MaxDeliveries :
            /\ DOMAIN memories = 1..n /\ \A i \in 1..n : memories[i] \in RewriteOriginal
            /\ nextId \in 0..MaxDeliveries /\ n + Rewrite!Cardinality(RewritePending) <= nextId
      BY DEF RewriteIInv, RewriteStored
    <2>2. RewritePending' \in SUBSET RewritePending
      BY DEF RewritePending
    <2>3. Rewrite!IsFiniteSet(RewritePending) /\ Rewrite!Cardinality(RewritePending) \in Nat
      BY RewriteCounted DEF Rewrite!LimitsOK
    <2>4. Rewrite!Cardinality(RewritePending') <= Rewrite!Cardinality(RewritePending)
          /\ Rewrite!Cardinality(RewritePending') \in Nat
      BY <2>2, <2>3, RewriteSubset, RewriteCardinalityType
    <2>5. n + Rewrite!Cardinality(RewritePending') <= nextId
      BY <2>1, <2>3, <2>4 DEF Rewrite!LimitsOK
    <2> QED BY <2>1, <2>5 DEF RewriteStored
  <1>2. RewriteAlone'
    BY DEF RewriteIInv, RewriteAlone
  <1>3. RewriteUnknown'
    <2>1. \A v \in Workers : worker'[v].pc \in RewriteMissed => worker'[v].pc # "idle"
      BY DEF RewriteMissed
    <2> QED BY <2>1 DEF RewriteIInv, RewriteUnknown
  <1>4. RewriteOnce'
    BY DEF RewriteIInv, RewriteOnce
  <1>5. RewriteRoom'
    <2>1. SUFFICES ASSUME SessionLimit > 0, NEW e \in Events
                   PROVE  Rewrite!Cardinality(RewriteFreshOf(e)') + Rewrite!Cardinality(RewritePast(e)')
                            <= SessionLimit + Rewrite!Cardinality(Workers) - 1
      BY DEF RewriteRoom
    <2>2. RewriteFreshOf(e)' = RewriteFreshOf(e)
      BY DEF RewriteFreshOf, Rewrite!SameSession
    <2>3. /\ Rewrite!IsFiniteSet(RewritePast(e))
          /\ Rewrite!Cardinality(RewritePast(e)) \in Nat /\ Rewrite!Cardinality(RewriteFreshOf(e)) \in Nat
          /\ Rewrite!Cardinality(Workers) \in Nat
      BY RewriteCounted
    <2>4. RewritePast(e)' \in SUBSET Workers
      BY DEF RewritePast
    <2>5. Rewrite!IsFiniteSet(Workers) /\ SessionLimit \in Nat
      BY DEF Rewrite!LimitsOK
    <2>6. Rewrite!Cardinality(RewritePast(e)') <= Rewrite!Cardinality(Workers)
          /\ Rewrite!Cardinality(RewritePast(e)') \in Nat
      BY <2>4, <2>5, RewriteSubset, RewriteCardinalityType
    <2>7. CASE RewritePast(e)' \in SUBSET RewritePast(e)
      <3>1. Rewrite!Cardinality(RewritePast(e)') <= Rewrite!Cardinality(RewritePast(e))
        BY <2>3, <2>7, RewriteSubset
      <3>2. Rewrite!Cardinality(RewriteFreshOf(e)) + Rewrite!Cardinality(RewritePast(e))
              <= SessionLimit + Rewrite!Cardinality(Workers) - 1
        BY <2>1 DEF RewriteIInv, RewriteRoom
      <3> QED BY <2>2, <2>3, <2>5, <2>6, <3>1, <3>2
    <2>8. CASE ~(RewritePast(e)' \in SUBSET RewritePast(e))
      <3>1. /\ worker'[w].pc \in RewritePassed /\ SessionOf[worker'[w].event] = SessionOf[e]
            /\ ~(worker[w].pc \in RewritePassed /\ SessionOf[worker[w].event] = SessionOf[e])
        BY <2>8 DEF RewritePast
      <3>2. worker'[w].pc # "idle"
        BY <3>1 DEF RewritePassed
      <3>3. SessionOf[worker[w].event] = SessionOf[e]
            /\ Rewrite!Cardinality(RewriteFreshOf(worker[w].event)) < SessionLimit
        BY <2>1, <3>1, <3>2
      <3>4. RewriteFreshOf(worker[w].event) = RewriteFreshOf(e)
        BY <3>3 DEF RewriteFreshOf, Rewrite!SameSession
      <3> QED BY <2>2, <2>3, <2>5, <2>6, <3>3, <3>4
    <2> QED BY <2>7, <2>8
  <1> QED BY <1>1, <1>2, <1>3, <1>4, <1>5

\* A step that touches no receipt, edge or target leaves every receipt linked.
LEMMA RewriteReceiptsKept ==
  ASSUME RewriteIInv, UNCHANGED <<edges, acked, targets>>, worker' \in [Workers -> RewriteWorker]
  PROVE  RewriteTypes' /\ Rewrite!ReceiptMeansLinked'
  BY DEF RewriteIInv, RewriteTypes, Rewrite!ReceiptMeansLinked

\* The checks of the limits and of the target let a handler on or send it back.
LEMMA RewriteCheckKeeps ==
  ASSUME Rewrite!LimitsOK, RewriteIInv,
         NEW w \in Workers, Rewrite!CheckSession(w) \/ Rewrite!CheckProject(w) \/ Rewrite!CheckTarget(w)
  PROVE  RewriteIInv'
  <1>1. worker \in [Workers -> RewriteWorker] /\ worker[w] \in RewriteWorker /\ SessionLimit \in Nat
    BY DEF RewriteIInv, RewriteTypes, Rewrite!LimitsOK
  <1>2. UNCHANGED <<memories, targets, edges, acked, overlapped, nextId>>
    BY DEF Rewrite!CheckSession, Rewrite!CheckProject, Rewrite!CheckTarget
  <1>3. worker[w].pc \in {"session", "project", "target"}
    BY DEF Rewrite!CheckSession, Rewrite!CheckProject, Rewrite!CheckTarget, Rewrite!at
  <1>4. \/ Rewrite!return(w)
        \/ Rewrite!go(w, "project") /\ ~Rewrite!Limited(SessionLimit, Rewrite!Fresh(Rewrite!SameSession(worker[w].event)))
        \/ Rewrite!go(w, "target") /\ worker[w].pc = "project"
        \/ Rewrite!go(w, "add") /\ worker[w].pc = "target"
    BY DEF Rewrite!CheckSession, Rewrite!CheckProject, Rewrite!CheckTarget, Rewrite!at
  <1>5. CASE Rewrite!return(w)
    <2>1. /\ worker' \in [Workers -> RewriteWorker] /\ worker'[w].pc = "idle"
          /\ \A v \in Workers \ {w} : worker'[v] = worker[v]
      BY <1>1, <1>5, RewriteReturns
    <2>2. RewriteStored' /\ RewriteAlone' /\ RewriteUnknown' /\ RewriteOnce' /\ RewriteRoom'
      BY <1>2, <1>3, <2>1, RewriteControlKeeps DEF RewriteStoring, RewriteMissed, RewritePassed
    <2> QED BY <1>2, <2>1, <2>2, RewriteReceiptsKept DEF RewriteIInv
  <1>6. CASE Rewrite!go(w, "project")
        /\ ~Rewrite!Limited(SessionLimit, Rewrite!Fresh(Rewrite!SameSession(worker[w].event)))
    <2>1. /\ worker' \in [Workers -> RewriteWorker] /\ worker'[w].pc = "project"
          /\ worker'[w].event = worker[w].event /\ \A v \in Workers \ {w} : worker'[v] = worker[v]
      BY <1>1, <1>6, RewriteSteps DEF Rewrite!Stages
    <2>2. Rewrite!Cardinality(RewriteFreshOf(worker[w].event)) \in Nat
      BY <1>1, RewriteCounted DEF RewriteWorker
    <2>3. SessionLimit = 0 \/ Rewrite!Cardinality(RewriteFreshOf(worker[w].event)) < SessionLimit
      BY <1>1, <1>6, <2>2 DEF Rewrite!Limited, Rewrite!Fresh, RewriteFreshOf
    <2>4. RewriteStored' /\ RewriteAlone' /\ RewriteUnknown' /\ RewriteOnce' /\ RewriteRoom'
      BY <1>2, <1>3, <2>1, <2>3, RewriteControlKeeps DEF RewriteStoring, RewriteMissed
    <2> QED BY <1>2, <2>1, <2>4, RewriteReceiptsKept DEF RewriteIInv
  <1>7. CASE \/ Rewrite!go(w, "target") /\ worker[w].pc = "project"
             \/ Rewrite!go(w, "add") /\ worker[w].pc = "target"
    <2>1. /\ worker' \in [Workers -> RewriteWorker] /\ worker'[w].pc \in {"target", "add"}
          /\ worker'[w].event = worker[w].event /\ \A v \in Workers \ {w} : worker'[v] = worker[v]
      BY <1>1, <1>7, RewriteSteps DEF Rewrite!Stages
    <2>2. RewriteStored' /\ RewriteAlone' /\ RewriteUnknown' /\ RewriteOnce' /\ RewriteRoom'
      BY <1>2, <1>7, <2>1, RewriteControlKeeps DEF RewriteStoring, RewriteMissed, RewritePassed
    <2> QED BY <1>2, <2>1, <2>2, RewriteReceiptsKept DEF RewriteIInv
  <1> QED BY <1>4, <1>5, <1>6, <1>7

\* The handler dies.
LEMMA RewriteCrashKeeps ==
  ASSUME Rewrite!LimitsOK, RewriteIInv, NEW w \in Workers, Rewrite!Crash(w)
  PROVE  RewriteIInv'
  <1>1. /\ UNCHANGED <<memories, targets, edges, acked, overlapped, nextId>>
        /\ worker \in [Workers -> RewriteWorker] /\ worker[w].pc # "idle" /\ Rewrite!return(w)
    BY DEF RewriteIInv, RewriteTypes, Rewrite!Crash, Rewrite!at
  <1>2. /\ worker' \in [Workers -> RewriteWorker] /\ worker'[w].pc = "idle"
        /\ \A v \in Workers \ {w} : worker'[v] = worker[v]
    BY <1>1, RewriteReturns
  <1>3. RewriteStored' /\ RewriteAlone' /\ RewriteUnknown' /\ RewriteOnce' /\ RewriteRoom'
    BY <1>1, <1>2, RewriteControlKeeps DEF RewriteStoring, RewriteMissed, RewritePassed
  <1> QED BY <1>1, <1>2, <1>3, RewriteReceiptsKept DEF RewriteIInv

\* An event already stored is answered with what is stored.
LEMMA RewriteLookupKeeps ==
  ASSUME Rewrite!LimitsOK, RewriteIInv, NEW w \in Workers, Rewrite!Lookup(w)
  PROVE  RewriteIInv'
  <1>1. /\ UNCHANGED <<memories, targets, edges, overlapped, nextId>>
        /\ worker \in [Workers -> RewriteWorker] /\ worker[w] \in RewriteWorker
        /\ worker[w].pc = "lookup"
        /\ worker[w].event \in Events
    BY DEF RewriteIInv, RewriteTypes, Rewrite!Lookup, Rewrite!at, RewriteWorker
  <1>2. CASE Rewrite!Known(worker[w].event) = {}
    <2>1. Rewrite!go(w, "session") /\ UNCHANGED acked
      BY <1>2 DEF Rewrite!Lookup
    <2>2. /\ worker' \in [Workers -> RewriteWorker] /\ worker'[w].pc = "session"
          /\ worker'[w].event = worker[w].event /\ \A v \in Workers \ {w} : worker'[v] = worker[v]
      BY <1>1, <2>1, RewriteSteps DEF Rewrite!Stages
    <2>3. \A i \in DOMAIN memories : memories[i].event # worker[w].event
      BY <1>2 DEF Rewrite!Known
    <2>4. RewriteStored' /\ RewriteAlone' /\ RewriteUnknown' /\ RewriteOnce' /\ RewriteRoom'
      BY <1>1, <2>2, <2>3, RewriteControlKeeps DEF RewriteStoring, RewritePassed
    <2> QED BY <1>1, <2>1, <2>2, <2>4, RewriteReceiptsKept DEF RewriteIInv
  <1>3. CASE Rewrite!Known(worker[w].event) # {}
    <2>1. PICK i \in Rewrite!Known(worker[w].event) : Rewrite!AfterDedupe(w, i)
      BY <1>3 DEF Rewrite!Lookup
    <2>2. i \in 1..MaxDeliveries /\ i \in 0..MaxDeliveries
      <3>1. PICK n \in 0..MaxDeliveries : DOMAIN memories = 1..n
        BY DEF RewriteIInv, RewriteStored
      <3>2. i \in 1..n
        BY <2>1, <3>1 DEF Rewrite!Known
      <3> QED BY <3>2 DEF Rewrite!LimitsOK
    <2>3. CASE TargetOf[worker[w].event] = NoTarget
      <3>1. Rewrite!return(w) /\ acked' = acked \cup {<<worker[w].event, i>>}
        BY <2>1, <2>3 DEF Rewrite!AfterDedupe, Rewrite!Receipt
      <3>2. /\ worker' \in [Workers -> RewriteWorker] /\ worker'[w].pc = "idle"
            /\ \A v \in Workers \ {w} : worker'[v] = worker[v]
        BY <1>1, <3>1, RewriteReturns
      <3>3. RewriteStored' /\ RewriteAlone' /\ RewriteUnknown' /\ RewriteOnce' /\ RewriteRoom'
        BY <1>1, <3>2, RewriteControlKeeps DEF RewriteStoring, RewriteMissed, RewritePassed
      <3>4. RewriteTypes'
        BY <1>1, <2>2, <3>1, <3>2 DEF RewriteIInv, RewriteTypes
      <3>5. Rewrite!ReceiptMeansLinked'
        BY <1>1, <2>3, <3>1 DEF RewriteIInv, RewriteTypes, Rewrite!ReceiptMeansLinked
      <3> QED BY <3>3, <3>4, <3>5 DEF RewriteIInv
    <2>4. CASE TargetOf[worker[w].event] # NoTarget
      <3>1. worker' = [worker EXCEPT ![w].pc = "link", ![w].id = i] /\ UNCHANGED acked
        BY <2>1, <2>4 DEF Rewrite!AfterDedupe
      <3>2. /\ worker' \in [Workers -> RewriteWorker] /\ worker'[w].pc = "link"
            /\ worker'[w].event = worker[w].event
            /\ \A v \in Workers \ {w} : worker'[v] = worker[v]
        BY <1>1, <2>2, <3>1, RewriteToLink
      <3>3. RewriteStored' /\ RewriteAlone' /\ RewriteUnknown' /\ RewriteOnce' /\ RewriteRoom'
        BY <1>1, <3>2, RewriteControlKeeps DEF RewriteStoring, RewriteMissed, RewritePassed
      <3> QED BY <1>1, <3>1, <3>2, <3>3, RewriteReceiptsKept DEF RewriteIInv
    <2> QED BY <2>3, <2>4
  <1> QED BY <1>2, <1>3

\* The edge and the receipt.
LEMMA RewriteLinkKeeps ==
  ASSUME Rewrite!LimitsOK, RewriteIInv, NEW w \in Workers, Rewrite!Link(w)
  PROVE  RewriteIInv'
  <1>1. /\ UNCHANGED <<memories, targets, overlapped, nextId>> /\ Rewrite!return(w)
        /\ worker \in [Workers -> RewriteWorker] /\ worker[w].pc = "link"
        /\ worker[w].event \in Events
    BY DEF RewriteIInv, RewriteTypes, Rewrite!Link, Rewrite!at, RewriteWorker
  <1>2. /\ worker' \in [Workers -> RewriteWorker] /\ worker'[w].pc = "idle"
        /\ \A v \in Workers \ {w} : worker'[v] = worker[v]
    BY <1>1, RewriteReturns
  <1>3. RewriteStored' /\ RewriteAlone' /\ RewriteUnknown' /\ RewriteOnce' /\ RewriteRoom'
    BY <1>1, <1>2, RewriteControlKeeps DEF RewriteStoring, RewriteMissed, RewritePassed
  <1>4. CASE UNCHANGED <<edges, acked>>
    BY <1>1, <1>2, <1>3, <1>4, RewriteReceiptsKept DEF RewriteIInv
  <1>5. CASE ~(UNCHANGED <<edges, acked>>)
    <2>1. PICK i, to : i = worker[w].id /\ to = TargetOf[worker[w].event]
      OBVIOUS
    <2>2. /\ i \in DOMAIN memories /\ edges' = edges \cup {<<i, to>>}
          /\ acked' = acked \cup {<<worker[w].event, i>>}
      BY <1>5, <2>1 DEF Rewrite!Link, Rewrite!Receipt
    <2>3. i \in 1..MaxDeliveries
      <3>1. PICK n \in 0..MaxDeliveries : DOMAIN memories = 1..n
        BY DEF RewriteIInv, RewriteStored
      <3> QED BY <2>2, <3>1 DEF Rewrite!LimitsOK
    <2>4. RewriteTypes'
      BY <1>1, <1>2, <2>1, <2>2, <2>3 DEF RewriteIInv, RewriteTypes
    <2>5. Rewrite!ReceiptMeansLinked'
      BY <1>1, <2>1, <2>2 DEF RewriteIInv, Rewrite!ReceiptMeansLinked
    <2> QED BY <1>3, <2>4, <2>5 DEF RewriteIInv
  <1> QED BY <1>4, <1>5

\* A delivery takes an id of those that are left; the event is overlapped if another
\* handler has it.
LEMMA RewriteDeliverKeeps ==
  ASSUME Rewrite!LimitsOK, RewriteIInv, NEW w \in Workers, NEW e \in Events, Rewrite!Deliver(w, e)
  PROVE  RewriteIInv'
  <1> DEFINE new == [pc |-> "lookup", event |-> e, id |-> 0]
  <1>1. /\ UNCHANGED <<memories, targets, edges, acked>> /\ worker' = [worker EXCEPT ![w] = new]
        /\ nextId < MaxDeliveries /\ nextId' = nextId + 1 /\ worker[w].pc = "idle"
        /\ overlapped \subseteq overlapped' /\ (Rewrite!InFlight(e) # {} => e \in overlapped')
        /\ worker \in [Workers -> RewriteWorker]
    BY DEF RewriteIInv, RewriteTypes, Rewrite!Deliver, Rewrite!at
  <1>2. new \in RewriteWorker /\ new.pc = "lookup" /\ new.event = e
    BY DEF RewriteWorker, Rewrite!Stages, Rewrite!LimitsOK
  <1> HIDE DEF new
  <1>3. /\ worker' \in [Workers -> RewriteWorker] /\ worker'[w].pc = "lookup"
        /\ worker'[w].event = e
        /\ \A v \in Workers \ {w} : worker'[v] = worker[v]
    BY <1>1, <1>2
  <1>4. RewriteStored'
    <2>1. PICK n \in 0..MaxDeliveries :
            /\ DOMAIN memories = 1..n /\ \A i \in 1..n : memories[i] \in RewriteOriginal
            /\ nextId \in 0..MaxDeliveries /\ n + Rewrite!Cardinality(RewritePending) <= nextId
      BY DEF RewriteIInv, RewriteStored
    <2>2. RewritePending' = RewritePending \cup {w}
      BY <1>3 DEF RewritePending, RewriteStoring
    <2>3. Rewrite!IsFiniteSet(RewritePending) /\ Rewrite!Cardinality(RewritePending) \in Nat
      BY RewriteCounted DEF Rewrite!LimitsOK
    <2>4. Rewrite!Cardinality(RewritePending') <= Rewrite!Cardinality(RewritePending) + 1
          /\ Rewrite!Cardinality(RewritePending') \in Nat
      <3>1. w \notin RewritePending
        BY <1>1 DEF RewritePending, RewriteStoring
      <3>2. Rewrite!Cardinality(RewritePending \cup {w}) = Rewrite!Cardinality(RewritePending) + 1
        BY <2>3, <3>1, RewriteAddElement
      <3> QED BY <2>2, <2>3, <3>2
    <2>5. nextId' \in 0..MaxDeliveries /\ n + Rewrite!Cardinality(RewritePending') <= nextId'
      BY <1>1, <2>1, <2>3, <2>4 DEF Rewrite!LimitsOK
    <2> QED BY <1>1, <2>1, <2>5 DEF RewriteStored
  <1>5. RewriteAlone'
    <2>1. SUFFICES ASSUME NEW u \in Workers, NEW v \in Workers, u # v,
                          worker'[u].pc # "idle", worker'[v].pc # "idle",
                          worker'[u].event = worker'[v].event, worker'[u].event \notin overlapped'
                   PROVE  FALSE
      BY DEF RewriteAlone
    <2>2. u # w /\ v # w
      BY <1>1, <1>3, <2>1 DEF Rewrite!InFlight
    <2> QED BY <1>1, <1>3, <2>1, <2>2 DEF RewriteIInv, RewriteAlone
  <1>6. RewriteUnknown'
    <2>1. \A v \in Workers : worker'[v].pc \in RewriteMissed => v # w
      BY <1>3 DEF RewriteMissed
    <2> QED BY <1>1, <1>3, <2>1 DEF RewriteIInv, RewriteUnknown
  <1>7. RewriteOnce'
    BY <1>1 DEF RewriteIInv, RewriteOnce
  <1>8. RewriteRoom'
    <2>1. SUFFICES ASSUME SessionLimit > 0, NEW f \in Events
                   PROVE  Rewrite!Cardinality(RewriteFreshOf(f)') + Rewrite!Cardinality(RewritePast(f)')
                            <= SessionLimit + Rewrite!Cardinality(Workers) - 1
      BY DEF RewriteRoom
    <2>2. RewriteFreshOf(f)' = RewriteFreshOf(f)
      BY <1>1 DEF RewriteFreshOf, Rewrite!SameSession
    <2>3. RewritePast(f)' \in SUBSET RewritePast(f)
      BY <1>3 DEF RewritePast, RewritePassed
    <2>4. /\ Rewrite!IsFiniteSet(RewritePast(f))
          /\ Rewrite!Cardinality(RewritePast(f)) \in Nat /\ Rewrite!Cardinality(RewriteFreshOf(f)) \in Nat
          /\ Rewrite!Cardinality(Workers) \in Nat /\ SessionLimit \in Nat
      BY RewriteCounted DEF Rewrite!LimitsOK
    <2>5. Rewrite!Cardinality(RewritePast(f)') <= Rewrite!Cardinality(RewritePast(f))
          /\ Rewrite!Cardinality(RewritePast(f)') \in Nat
      BY <2>3, <2>4, RewriteSubset, RewriteCardinalityType
    <2>6. Rewrite!Cardinality(RewriteFreshOf(f)) + Rewrite!Cardinality(RewritePast(f))
            <= SessionLimit + Rewrite!Cardinality(Workers) - 1
      BY <2>1 DEF RewriteIInv, RewriteRoom
    <2> QED BY <2>2, <2>4, <2>5, <2>6
  <1> QED BY <1>1, <1>3, <1>4, <1>5, <1>6, <1>7, <1>8, RewriteReceiptsKept DEF RewriteIInv

-----------------------------------------------------------------------------
(* The step that stores.                                                   *)

\* The id is the next one, and there is one: the handler had it left.
LEMMA RewriteNextOne ==
  ASSUME Rewrite!LimitsOK, RewriteIInv, NEW w \in Workers, worker[w].pc = "add",
         NEW n \in 0..MaxDeliveries, DOMAIN memories = 1..n, nextId \in 0..MaxDeliveries,
         n + Rewrite!Cardinality(RewritePending) <= nextId
  PROVE  /\ n + 1 \in 1..MaxDeliveries
         /\ (CHOOSE i \in 1..MaxDeliveries : i \notin DOMAIN memories /\
               \A j \in 1..MaxDeliveries : j < i => j \in DOMAIN memories) = n + 1
         /\ Rewrite!Cardinality(RewritePending \ {w}) = Rewrite!Cardinality(RewritePending) - 1
         /\ Rewrite!Cardinality(RewritePending) \in Nat
  <1>1. w \in RewritePending
    BY DEF RewritePending, RewriteStoring
  <1>2. Rewrite!IsFiniteSet(RewritePending) /\ Rewrite!Cardinality(RewritePending) \in Nat
    BY RewriteCounted DEF Rewrite!LimitsOK
  <1>3. Rewrite!Cardinality(RewritePending \ {w}) = Rewrite!Cardinality(RewritePending) - 1
        /\ Rewrite!Cardinality(RewritePending \ {w}) \in Nat
    BY <1>1, <1>2, RewriteRemoveElement, RewriteCardinalityType
  <1>4. n + 1 \in 1..MaxDeliveries
    BY <1>2, <1>3 DEF Rewrite!LimitsOK
  <1>5. n + 1 \notin DOMAIN memories /\ \A j \in 1..MaxDeliveries : j < n + 1 => j \in DOMAIN memories
    BY <1>4 DEF Rewrite!LimitsOK
  <1>6. \A i \in 1..MaxDeliveries :
          (i \notin DOMAIN memories /\ \A j \in 1..MaxDeliveries : j < i => j \in DOMAIN memories)
            => i = n + 1
    BY <1>4, <1>5 DEF Rewrite!LimitsOK
  <1> QED BY <1>2, <1>3, <1>4, <1>5, <1>6

\* An added original takes the next id, and the place of a handler that had passed the
\* limits.
LEMMA RewriteAddKeeps ==
  ASSUME Rewrite!LimitsOK, RewriteIInv, NEW w \in Workers, Rewrite!Add(w)
  PROVE  RewriteIInv'
  <1>1. PICK n \in 0..MaxDeliveries :
          /\ DOMAIN memories = 1..n /\ \A i \in 1..n : memories[i] \in RewriteOriginal
          /\ nextId \in 0..MaxDeliveries /\ n + Rewrite!Cardinality(RewritePending) <= nextId
    BY DEF RewriteIInv, RewriteStored
  <1>2. PICK ev : ev = worker[w].event
    OBVIOUS
  <1>3. /\ worker \in [Workers -> RewriteWorker] /\ worker[w].pc = "add" /\ ev \in Events
        /\ UNCHANGED <<targets, edges, overlapped, nextId>>
    BY <1>2 DEF RewriteIInv, RewriteTypes, Rewrite!Add, Rewrite!at, RewriteWorker
  <1>4. /\ n + 1 \in 1..MaxDeliveries
        /\ (CHOOSE i \in 1..MaxDeliveries : i \notin DOMAIN memories /\
              \A j \in 1..MaxDeliveries : j < i => j \in DOMAIN memories) = n + 1
        /\ Rewrite!Cardinality(RewritePending \ {w}) = Rewrite!Cardinality(RewritePending) - 1
        /\ Rewrite!Cardinality(RewritePending) \in Nat
    BY <1>1, <1>3, RewriteNextOne
  <1>5. memories' = [i \in DOMAIN memories \cup {n + 1} |->
                       IF i = n + 1 THEN [event |-> ev, fresh |-> TRUE] ELSE memories[i]]
    BY <1>2, <1>4 DEF Rewrite!Add
  <1>6. \/ TargetOf[ev] = NoTarget /\ Rewrite!return(w) /\ acked' = acked \cup {<<ev, n + 1>>}
        \/ worker' = [worker EXCEPT ![w].pc = "link", ![w].id = n + 1] /\ UNCHANGED acked
    BY <1>2, <1>4 DEF Rewrite!Add, Rewrite!Receipt
  <1>7. /\ worker' \in [Workers -> RewriteWorker] /\ worker'[w].pc \in {"idle", "link"}
        /\ worker'[w].pc # "idle" => worker'[w].event = ev
        /\ \A v \in Workers \ {w} : worker'[v] = worker[v]
    <2>1. CASE Rewrite!return(w)
      BY <1>3, <2>1, RewriteReturns
    <2>2. CASE worker' = [worker EXCEPT ![w].pc = "link", ![w].id = n + 1]
      <3>1. n + 1 \in 0..MaxDeliveries
        BY <1>4 DEF Rewrite!LimitsOK
      <3> QED BY <1>2, <1>3, <2>2, <3>1, RewriteToLink
    <2> QED BY <1>6, <2>1, <2>2
  <1>8. /\ DOMAIN memories' = 1..(n + 1) /\ memories'[n + 1] = [event |-> ev, fresh |-> TRUE]
        /\ \A i \in 1..n : i # n + 1 /\ memories'[i] = memories[i]
        /\ 1..(n + 1) = 1..n \cup {n + 1} /\ n + 1 \notin 1..n
    <2>1. 1..(n + 1) = 1..n \cup {n + 1} /\ n + 1 \notin 1..n
      BY DEF Rewrite!LimitsOK
    <2>2. n + 1 \in DOMAIN memories \cup {n + 1} /\ \A i \in 1..n : i \in DOMAIN memories \cup {n + 1}
      BY <1>1
    <2>3. DOMAIN memories' = DOMAIN memories \cup {n + 1}
      BY <1>5
    <2>4. memories'[n + 1] = [event |-> ev, fresh |-> TRUE]
      BY <1>5, <2>2
    <2>5. \A i \in 1..n : memories'[i] = memories[i]
      BY <1>5, <2>1, <2>2
    <2> QED BY <1>1, <2>1, <2>3, <2>4, <2>5
  <1>9. RewriteStored'
    <2>1. RewritePending' = RewritePending \ {w}
      BY <1>7 DEF RewritePending, RewriteStoring
    <2>2. (n + 1) + Rewrite!Cardinality(RewritePending') <= nextId'
      BY <1>1, <1>3, <1>4, <2>1 DEF Rewrite!LimitsOK
    <2>3. \A i \in 1..(n + 1) : memories'[i] \in RewriteOriginal
      <3>1. memories'[n + 1] \in RewriteOriginal
        BY <1>3, <1>8 DEF RewriteOriginal
      <3>2. \A i \in 1..n : memories'[i] \in RewriteOriginal
        BY <1>1, <1>8
      <3> QED BY <1>8, <3>1, <3>2
    <2>4. n + 1 \in 0..MaxDeliveries
      BY <1>4 DEF Rewrite!LimitsOK
    <2> QED BY <1>1, <1>3, <1>8, <2>2, <2>3, <2>4 DEF RewriteStored
  <1>10. RewriteAlone'
    BY <1>2, <1>3, <1>7 DEF RewriteIInv, RewriteAlone
  <1>11. RewriteUnknown'
    <2>1. SUFFICES ASSUME NEW v \in Workers, worker'[v].pc \in RewriteMissed,
                          worker'[v].event \notin overlapped', NEW i \in DOMAIN memories'
                   PROVE  memories'[i].event # worker'[v].event
      BY DEF RewriteUnknown
    <2>2. v # w /\ worker'[v] = worker[v] /\ worker[v].pc # "idle"
      BY <1>7, <2>1 DEF RewriteMissed
    <2>3. CASE i = n + 1
      BY <1>2, <1>3, <1>8, <2>1, <2>2, <2>3 DEF RewriteIInv, RewriteAlone
    <2>4. CASE i # n + 1
      <3>1. i \in DOMAIN memories /\ memories'[i] = memories[i]
        BY <1>1, <1>8, <2>1, <2>4
      <3> QED BY <1>3, <2>1, <2>2, <3>1 DEF RewriteIInv, RewriteUnknown
    <2> QED BY <2>3, <2>4
  <1>12. RewriteOnce'
    <2>1. \A i \in 1..n : ev \notin overlapped => memories[i].event # ev
      BY <1>1, <1>2, <1>3 DEF RewriteIInv, RewriteUnknown, RewriteMissed
    <2>2. SUFFICES ASSUME NEW i \in 1..(n + 1), NEW j \in 1..(n + 1),
                          memories'[i].event = memories'[j].event,
                          memories'[i].event \notin overlapped
                   PROVE  i = j
      BY <1>3, <1>8 DEF RewriteOnce
    <2>3. CASE i = n + 1 \/ j = n + 1
      BY <1>8, <2>1, <2>2, <2>3
    <2>4. CASE i # n + 1 /\ j # n + 1
      BY <1>1, <1>8, <2>2, <2>4 DEF RewriteIInv, RewriteOnce
    <2> QED BY <2>3, <2>4
  <1>13. RewriteRoom'
    <2>1. SUFFICES ASSUME SessionLimit > 0, NEW f \in Events
                   PROVE  Rewrite!Cardinality(RewriteFreshOf(f)') + Rewrite!Cardinality(RewritePast(f)')
                            <= SessionLimit + Rewrite!Cardinality(Workers) - 1
      BY DEF RewriteRoom
    <2>2. /\ Rewrite!IsFiniteSet(RewritePast(f)) /\ Rewrite!Cardinality(RewritePast(f)) \in Nat
          /\ Rewrite!IsFiniteSet(RewriteFreshOf(f))
          /\ Rewrite!Cardinality(RewriteFreshOf(f)) \in Nat
          /\ Rewrite!Cardinality(Workers) \in Nat /\ SessionLimit \in Nat
      BY RewriteCounted DEF Rewrite!LimitsOK
    <2>3. Rewrite!Cardinality(RewriteFreshOf(f)) + Rewrite!Cardinality(RewritePast(f))
            <= SessionLimit + Rewrite!Cardinality(Workers) - 1
      BY <2>1 DEF RewriteIInv, RewriteRoom
    <2>4. RewritePast(f)' = RewritePast(f) \ {w}
      BY <1>7 DEF RewritePast, RewritePassed
    <2>5. CASE ev \in Rewrite!SameSession(f)
      <3>1. w \in RewritePast(f)
        BY <1>2, <1>3, <2>5 DEF RewritePast, RewritePassed, Rewrite!SameSession
      <3>2. Rewrite!Cardinality(RewritePast(f)') = Rewrite!Cardinality(RewritePast(f)) - 1
        BY <2>2, <2>4, <3>1, RewriteRemoveElement
      <3>3. RewriteFreshOf(f)' = RewriteFreshOf(f) \cup {n + 1} /\ n + 1 \notin RewriteFreshOf(f)
        BY <1>1, <1>8, <2>5 DEF RewriteFreshOf, Rewrite!SameSession
      <3>4. Rewrite!Cardinality(RewriteFreshOf(f)') = Rewrite!Cardinality(RewriteFreshOf(f)) + 1
        BY <2>2, <3>3, RewriteAddElement
      <3> QED BY <2>2, <2>3, <3>2, <3>4
    <2>6. CASE ev \notin Rewrite!SameSession(f)
      <3>1. RewriteFreshOf(f)' = RewriteFreshOf(f)
        BY <1>1, <1>8, <2>6 DEF RewriteFreshOf, Rewrite!SameSession
      <3>2. Rewrite!Cardinality(RewritePast(f)') <= Rewrite!Cardinality(RewritePast(f))
            /\ Rewrite!Cardinality(RewritePast(f)') \in Nat
        BY <2>2, <2>4, RewriteSubset, RewriteCardinalityType
      <3> QED BY <2>2, <2>3, <3>1, <3>2
    <2> QED BY <2>5, <2>6
  <1>14. RewriteTypes'
    BY <1>3, <1>4, <1>6, <1>7 DEF RewriteIInv, RewriteTypes
  <1>15. Rewrite!ReceiptMeansLinked'
    BY <1>3, <1>6 DEF RewriteIInv, RewriteTypes, Rewrite!ReceiptMeansLinked
  <1> QED BY <1>9, <1>10, <1>11, <1>12, <1>13, <1>14, <1>15 DEF RewriteIInv

-----------------------------------------------------------------------------
(* The steps around the handlers, and the theorem.                         *)

\* A superseded memory is deleted with its edges.
LEMMA RewriteDeleteTargetKeeps ==
  ASSUME Rewrite!LimitsOK, RewriteIInv, NEW m \in targets, Rewrite!DeleteTarget(m)
  PROVE  RewriteIInv'
  <1>1. /\ UNCHANGED <<memories, worker, acked, overlapped, nextId>>
        /\ targets' = targets \ {m} /\ edges' = {x \in edges : x[2] # m}
    BY DEF Rewrite!DeleteTarget
  <1>2. RewriteTypes'
    BY <1>1 DEF RewriteIInv, RewriteTypes
  <1>3. RewriteStored'
    <2>1. RewritePending' = RewritePending
      BY <1>1 DEF RewritePending
    <2> QED BY <1>1, <2>1 DEF RewriteIInv, RewriteStored
  <1>4. RewriteAlone' /\ RewriteUnknown' /\ RewriteOnce'
    BY <1>1 DEF RewriteIInv, RewriteAlone, RewriteUnknown, RewriteOnce
  <1>5. RewriteRoom'
    <2>1. \A e \in Events : RewriteFreshOf(e)' = RewriteFreshOf(e) /\ RewritePast(e)' = RewritePast(e)
      BY <1>1 DEF RewriteFreshOf, RewritePast, Rewrite!SameSession
    <2> QED BY <2>1 DEF RewriteIInv, RewriteRoom
  <1>6. Rewrite!ReceiptMeansLinked'
    BY <1>1 DEF RewriteIInv, Rewrite!ReceiptMeansLinked
  <1> QED BY <1>2, <1>3, <1>4, <1>5, <1>6 DEF RewriteIInv

\* The minute ends: nothing stored counts any more.
LEMMA RewriteMinuteKeeps ==
  ASSUME Rewrite!LimitsOK, RewriteIInv, Rewrite!Minute
  PROVE  RewriteIInv'
  <1>1. /\ UNCHANGED <<targets, edges, worker, acked, overlapped, nextId>>
        /\ memories' = [i \in DOMAIN memories |-> [memories[i] EXCEPT !.fresh = FALSE]]
    BY DEF Rewrite!Minute
  <1>2. PICK n \in 0..MaxDeliveries :
          /\ DOMAIN memories = 1..n /\ \A i \in 1..n : memories[i] \in RewriteOriginal
          /\ nextId \in 0..MaxDeliveries /\ n + Rewrite!Cardinality(RewritePending) <= nextId
    BY DEF RewriteIInv, RewriteStored
  <1>3. /\ DOMAIN memories' = DOMAIN memories
        /\ \A i \in DOMAIN memories :
             /\ memories'[i] \in RewriteOriginal /\ memories'[i].event = memories[i].event
             /\ ~memories'[i].fresh
    BY <1>1, <1>2 DEF RewriteOriginal
  <1>4. RewriteTypes' /\ Rewrite!ReceiptMeansLinked'
    BY <1>1, RewriteReceiptsKept DEF RewriteIInv, RewriteTypes
  <1>5. RewriteStored'
    <2>1. RewritePending' = RewritePending
      BY <1>1 DEF RewritePending
    <2> QED BY <1>1, <1>2, <1>3, <2>1 DEF RewriteStored
  <1>6. RewriteAlone' /\ RewriteUnknown' /\ RewriteOnce'
    BY <1>1, <1>3 DEF RewriteIInv, RewriteAlone, RewriteUnknown, RewriteOnce
  <1>7. RewriteRoom'
    <2>1. SUFFICES ASSUME SessionLimit > 0, NEW e \in Events
                   PROVE  Rewrite!Cardinality(RewriteFreshOf(e)') + Rewrite!Cardinality(RewritePast(e)')
                            <= SessionLimit + Rewrite!Cardinality(Workers) - 1
      BY DEF RewriteRoom
    <2>2. RewriteFreshOf(e)' = {}
      BY <1>3 DEF RewriteFreshOf
    <2>3. RewritePast(e)' = RewritePast(e)
      BY <1>1 DEF RewritePast
    <2>4. /\ Rewrite!Cardinality(RewritePast(e)) \in Nat
          /\ Rewrite!Cardinality(RewriteFreshOf(e)) \in Nat
          /\ Rewrite!Cardinality(Workers) \in Nat /\ SessionLimit \in Nat
      BY RewriteCounted DEF Rewrite!LimitsOK
    <2>5. Rewrite!Cardinality(RewriteFreshOf(e)) + Rewrite!Cardinality(RewritePast(e))
            <= SessionLimit + Rewrite!Cardinality(Workers) - 1
      BY <2>1 DEF RewriteIInv, RewriteRoom
    <2>6. Rewrite!Cardinality(RewriteFreshOf(e)') = 0
      BY <2>2, RewriteEmptySet
    <2> QED BY <2>3, <2>4, <2>5, <2>6
  <1> QED BY <1>4, <1>5, <1>6, <1>7 DEF RewriteIInv

\* Nothing is stored, linked or acknowledged at the start.
LEMMA RewriteInitHolds == ASSUME Rewrite!LimitsOK, Rewrite!Init PROVE RewriteIInv
  <1>1. \A w \in Workers : worker[w] \in RewriteWorker /\ worker[w].pc = "idle"
    BY RewriteIdleIs DEF Rewrite!Init
  <1>2. RewriteTypes
    BY RewriteIdleIs DEF Rewrite!Init, RewriteTypes
  <1>3. DOMAIN memories = {} /\ RewritePending = {} /\ \A e \in Events : RewriteFreshOf(e) = {} /\ RewritePast(e) = {}
    BY <1>1 DEF Rewrite!Init, RewritePending, RewriteStoring, RewriteFreshOf, RewritePast,
                RewritePassed
  <1>4. Rewrite!Cardinality({}) = 0 /\ Rewrite!Cardinality(Workers) \in Nat
    BY RewriteEmptySet, RewriteCardinalityType DEF Rewrite!LimitsOK
  <1>5. RewriteStored
    <2>1. 0 \in 0..MaxDeliveries /\ 1..0 = {} /\ nextId = 0
      BY DEF Rewrite!LimitsOK, Rewrite!Init
    <2> QED BY <1>3, <1>4, <2>1 DEF RewriteStored
  <1>6. RewriteRoom
    <2>1. SUFFICES ASSUME SessionLimit > 0, NEW e \in Events
                   PROVE  Rewrite!Cardinality(RewriteFreshOf(e)) + Rewrite!Cardinality(RewritePast(e))
                            <= SessionLimit + Rewrite!Cardinality(Workers) - 1
      BY DEF RewriteRoom
    <2>2. Rewrite!Cardinality(RewriteFreshOf(e)) = 0
          /\ Rewrite!Cardinality(RewritePast(e)) = 0 /\ SessionLimit \in Nat
      BY <1>3, <1>4 DEF Rewrite!LimitsOK
    <2> QED BY <1>4, <2>1, <2>2
  <1>7. RewriteAlone /\ RewriteUnknown /\ RewriteOnce /\ Rewrite!ReceiptMeansLinked
    BY <1>1, <1>3 DEF RewriteAlone, RewriteUnknown, RewriteOnce, Rewrite!ReceiptMeansLinked,
                      RewriteMissed, Rewrite!Init
  <1> QED BY <1>2, <1>5, <1>6, <1>7 DEF RewriteIInv

\* Every step of the handlers and of the deletions keeps the invariant.
LEMMA RewriteStepKeeps ==
  ASSUME Rewrite!LimitsOK, RewriteIInv, [Rewrite!Next]_Rewrite!rvars
  PROVE  RewriteIInv'
  <1>1. CASE UNCHANGED Rewrite!rvars
    <2>1. /\ UNCHANGED <<memories, targets, edges, worker, acked, overlapped, nextId>>
      BY <1>1 DEF Rewrite!rvars
    <2>2. RewritePending' = RewritePending /\ \A e \in Events : RewriteFreshOf(e)' = RewriteFreshOf(e) /\ RewritePast(e)' = RewritePast(e)
      BY <2>1 DEF RewritePending, RewriteFreshOf, RewritePast, Rewrite!SameSession
    <2>3. RewriteStored' /\ RewriteRoom'
      BY <2>1, <2>2 DEF RewriteIInv, RewriteStored, RewriteRoom
    <2>4. RewriteTypes' /\ RewriteAlone' /\ RewriteUnknown' /\ RewriteOnce'
          /\ Rewrite!ReceiptMeansLinked'
      BY <2>1 DEF RewriteIInv, RewriteTypes, RewriteAlone, RewriteUnknown, RewriteOnce,
                  Rewrite!ReceiptMeansLinked
    <2> QED BY <2>3, <2>4 DEF RewriteIInv
  <1>2. CASE Rewrite!Next
    <2>1. ASSUME NEW w \in Workers, NEW e \in Events, Rewrite!Deliver(w, e) PROVE RewriteIInv'
      BY <2>1, RewriteDeliverKeeps
    <2>2. ASSUME NEW w \in Workers, Rewrite!Lookup(w) PROVE RewriteIInv'
      BY <2>2, RewriteLookupKeeps
    <2>3. ASSUME NEW w \in Workers, Rewrite!CheckSession(w) \/ Rewrite!CheckProject(w) \/ Rewrite!CheckTarget(w)
          PROVE  RewriteIInv'
      BY <2>3, RewriteCheckKeeps
    <2>4. ASSUME NEW w \in Workers, Rewrite!Add(w) PROVE RewriteIInv'
      BY <2>4, RewriteAddKeeps
    <2>5. ASSUME NEW w \in Workers, Rewrite!Link(w) PROVE RewriteIInv'
      BY <2>5, RewriteLinkKeeps
    <2>6. ASSUME NEW w \in Workers, Rewrite!Crash(w) PROVE RewriteIInv'
      BY <2>6, RewriteCrashKeeps
    <2>7. ASSUME NEW m \in targets, Rewrite!DeleteTarget(m) PROVE RewriteIInv'
      BY <2>7, RewriteDeleteTargetKeeps
    <2>8. CASE Rewrite!Minute
      BY <2>8, RewriteMinuteKeeps
    <2> QED BY <1>2, <2>1, <2>2, <2>3, <2>4, <2>5, <2>6, <2>7, <2>8, Zenon DEF Rewrite!Next
  <1> QED BY <1>1, <1>2

\* The invariant gives what a rewrite promises.
LEMMA RewritePromised == ASSUME Rewrite!LimitsOK, RewriteIInv PROVE Rewrite!RewriteSafe
  <1>1. PICK n \in 0..MaxDeliveries : DOMAIN memories = 1..n /\ \A i \in 1..n : memories[i] \in RewriteOriginal
    BY DEF RewriteIInv, RewriteStored
  <1>2. Rewrite!TypeOK
    <2>1. 1..n \subseteq 1..MaxDeliveries
      BY DEF Rewrite!LimitsOK
    <2> QED BY <1>1, <2>1 DEF RewriteIInv, RewriteTypes, Rewrite!TypeOK, RewriteOriginal,
                              RewriteWorker
  <1>3. Rewrite!RedeliveryStoresOnce
    <2>1. SUFFICES ASSUME NEW e \in Events, e \notin overlapped
                   PROVE  Rewrite!Cardinality({i \in DOMAIN memories : memories[i].event = e}) <= 1
      BY DEF Rewrite!RedeliveryStoresOnce
    <2> DEFINE S == {i \in DOMAIN memories : memories[i].event = e}
    <2>2. \A i, j \in S : i = j
      BY <2>1 DEF RewriteIInv, RewriteOnce
    <2>3. S = {} \/ \E i : S = {i}
      BY <2>2
    <2>4. Rewrite!Cardinality(S) = 0 \/ Rewrite!Cardinality(S) = 1
      BY <2>3, RewriteEmptySet, RewriteSingleton
    <2> QED BY <2>4
  <1>4. Rewrite!RewriteOvershootBounded
    <2>1. SUFFICES ASSUME SessionLimit > 0, NEW e \in Events
                   PROVE  Rewrite!Cardinality(RewriteFreshOf(e))
                            <= SessionLimit + Rewrite!Cardinality(Workers) - 1
      BY DEF Rewrite!RewriteOvershootBounded, Rewrite!Fresh, RewriteFreshOf
    <2>2. /\ Rewrite!Cardinality(RewritePast(e)) \in Nat
          /\ Rewrite!Cardinality(RewriteFreshOf(e)) \in Nat
          /\ Rewrite!Cardinality(Workers) \in Nat /\ SessionLimit \in Nat
      BY RewriteCounted DEF Rewrite!LimitsOK
    <2>3. Rewrite!Cardinality(RewriteFreshOf(e)) + Rewrite!Cardinality(RewritePast(e))
            <= SessionLimit + Rewrite!Cardinality(Workers) - 1
      BY <2>1 DEF RewriteIInv, RewriteRoom
    <2> QED BY <2>2, <2>3
  <1> QED BY <1>2, <1>3, <1>4 DEF RewriteIInv, Rewrite!RewriteSafe

\* One original an event that no two handlers had at once, a link behind every
\* receipt, and a session's limit passed by one less than there are handlers:
\* for any events, handlers and limits, with crashes and deletions between any
\* two statements of on_context_rewrite.
THEOREM RewriteSafety == Rewrite!LimitsOK => (Rewrite!Spec => []Rewrite!RewriteSafe)
  <1> SUFFICES ASSUME Rewrite!LimitsOK PROVE Rewrite!Spec => []Rewrite!RewriteSafe
    OBVIOUS
  <1>1. Rewrite!Init => RewriteIInv
    BY RewriteInitHolds
  <1>2. RewriteIInv /\ [Rewrite!Next]_Rewrite!rvars => RewriteIInv'
    BY RewriteStepKeeps
  <1>3. RewriteIInv => Rewrite!RewriteSafe
    BY RewritePromised
  <1> QED BY <1>1, <1>2, <1>3, PTL DEF Rewrite!Spec

-----------------------------------------------------------------------------
(* The mesh server: any corpora, pages, records, handlers and moves.       *)

\* The instance's operators on finite sets are those of the standard modules.
LEMMA MeshLibrary ==
  /\ \A S : Mesh!Cardinality(S) = Cardinality(S)
  /\ \A S : Mesh!IsFiniteSet(S) <=> IsFiniteSet(S)
  BY DEF Mesh!Cardinality, Cardinality, Mesh!IsFiniteSet, IsFiniteSet

\* What the library says of finite sets, for those operators.
LEMMA MeshCardinalityType == ASSUME NEW S, Mesh!IsFiniteSet(S) PROVE Mesh!Cardinality(S) \in Nat
  BY MeshLibrary, FS_CardinalityType
\* What is taken from a finite set makes it smaller by what they share.
LEMMA MeshDifference ==
  ASSUME NEW S, NEW T, Mesh!IsFiniteSet(S)
  PROVE  Mesh!Cardinality(S \ T) = Mesh!Cardinality(S) - Mesh!Cardinality(S \cap T)
  BY MeshLibrary, FS_Difference
\* The empty set has no element.
LEMMA MeshEmptySet == Mesh!IsFiniteSet({}) /\ Mesh!Cardinality({}) = 0
  BY MeshLibrary, FS_EmptySet
\* An interval is finite.
LEMMA MeshInterval == ASSUME NEW m \in Int, NEW n \in Int PROVE Mesh!IsFiniteSet(m..n)
  BY MeshLibrary, FS_Interval
\* A removed element makes a finite set smaller by one.
LEMMA MeshRemoveElement ==
  ASSUME NEW S, NEW x, Mesh!IsFiniteSet(S)
  PROVE  /\ Mesh!IsFiniteSet(S \ {x})
         /\ Mesh!Cardinality(S \ {x}) =
              IF x \in S THEN Mesh!Cardinality(S) - 1 ELSE Mesh!Cardinality(S)
  BY MeshLibrary, FS_RemoveElement
\* A set of one element has one.
LEMMA MeshSingleton == ASSUME NEW x PROVE Mesh!IsFiniteSet({x}) /\ Mesh!Cardinality({x}) = 1
  BY MeshLibrary, FS_Singleton
\* A part of a finite set is finite and no larger.
LEMMA MeshSubset ==
  ASSUME NEW S, Mesh!IsFiniteSet(S), NEW T \in SUBSET S
  PROVE  Mesh!IsFiniteSet(T) /\ Mesh!Cardinality(T) <= Mesh!Cardinality(S)
  BY MeshLibrary, FS_Subset

MeshHandler == [pc : {"idle", "found"}, rec : FedIds, dup : BOOLEAN, by : {"rpc", "fetch"}]
MeshJob ==
  [pc : {"idle", "confirm", "fetch", "done"}, todo : SUBSET FedIds, got : SUBSET FedIds,
   asked : Nat, skipped : Nat, fetched : Nat, notFound : Nat, errors : Nat,
   imported : Nat, duplicates : Nat, gated : Nat]

\* The walk: what was delivered is behind the cursor.
MeshWalkTypes ==
  /\ DOMAIN rows \subseteq 1..MaxRowid /\ \A r \in DOMAIN rows : rows[r] \in Mesh!Row
  /\ delivered \in [1..MaxRowid -> 0..1]
  /\ cursor \in 0..MaxRowid
  /\ answer.ids \subseteq 1..MaxRowid /\ answer.more \in BOOLEAN
MeshBehind == \A r \in 1..MaxRowid : delivered[r] > 0 => r <= cursor
MeshWalkInv == MeshWalkTypes /\ MeshBehind /\ Mesh!CursorCovers

MeshServerInv == up \in BOOLEAN /\ socket \in BOOLEAN /\ tcp \in BOOLEAN /\ Mesh!NoHalfStart

\* Imports in flight, and the one the fetch is in.
MeshAdding(f) == {h \in Handlers : imp[h].pc = "found" /\ imp[h].rec = f /\ ~imp[h].dup}
MeshFetching  == {h \in Handlers : imp[h].by = "fetch"}
MeshImportTypes ==
  /\ copies \in [FedIds -> Nat] /\ imp \in [Handlers -> MeshHandler]
  /\ state \in [FedIds -> {"available", "tombstoned"}] /\ job \in MeshJob
  /\ \A h \in Handlers : imp[h].pc = "idle" => imp[h].by = "rpc"
MeshOneFetch ==
  /\ \A g, h \in MeshFetching : g = h
  /\ MeshFetching # {} => job.pc = "fetch"

\* Every id the fetch was asked for is counted, in the plan, in the answer or in hand.
MeshCounted(j, n) ==
  /\ j.skipped + j.notFound + j.errors + j.imported + j.duplicates + j.gated
       + Mesh!Cardinality(j.todo) + Mesh!Cardinality(j.got) + n = j.asked
  /\ j.fetched + Mesh!Cardinality(j.todo) <= j.asked /\ j.asked <= Mesh!Cardinality(FedIds)
MeshSums ==
  /\ IF job.pc = "idle" THEN job = Mesh!NoJob ELSE MeshCounted(job, Mesh!Cardinality(MeshFetching))
  /\ job.pc = "done" => job.todo = {} /\ job.got = {}

MeshImportInv == MeshImportTypes /\ Mesh!ImportsBounded /\ MeshOneFetch /\ MeshSums
MeshIInv == MeshWalkInv /\ MeshServerInv /\ MeshImportInv

-----------------------------------------------------------------------------
(* The walk.                                                               *)

\* A bounded set of rowids has a greatest one.
LEMMA MeshGreatestExists ==
  ASSUME NEW N \in Nat, NEW S \in SUBSET (0..N), S # {}
  PROVE  \E m \in S : \A x \in S : x <= m
  <1> DEFINE T == {N - x : x \in S}
  <1>1. T \in SUBSET Nat /\ T # {}
    <2>1. \A x \in S : N - x \in Nat
      OBVIOUS
    <2>2. T \subseteq Nat
      BY <2>1
    <2>3. PICK x \in S : TRUE
      OBVIOUS
    <2>4. N - x \in T
      BY <2>3
    <2> QED BY <2>2, <2>4
  <1> HIDE DEF T
  <1>2. PICK y \in T : \A z \in T : y <= z
    BY <1>1, LeastExists
  <1>3. PICK m \in S : y = N - m
    BY DEF T
  <1>4. ASSUME NEW x \in S PROVE x <= m
    <2>1. N - m <= N - x
      BY <1>2, <1>3 DEF T
    <2> QED BY <2>1
  <1> QED BY <1>4

\* The next rowid is past every row there is.
LEMMA MeshNextIsFree == ASSUME Mesh!LimitsOK, MeshWalkTypes PROVE Mesh!NextRowid \in Nat \ {0}
  <1> DEFINE S == {0} \cup DOMAIN rows
  <1>1. S \in SUBSET (0..MaxRowid) /\ S # {} /\ MaxRowid \in Nat
    BY DEF Mesh!LimitsOK, MeshWalkTypes
  <1>2. PICK m \in S : \A x \in S : x <= m
    BY <1>1, MeshGreatestExists
  <1>3. S \subseteq Nat
    BY <1>1
  <1> HIDE DEF S
  <1>4. m \in S /\ \A x \in S : m >= x
    BY <1>2, <1>3
  <1>5. (CHOOSE x \in S : \A y \in S : x >= y) \in S
    BY <1>4
  <1>6. Mesh!Max(S) \in Nat
    BY <1>3, <1>5 DEF Mesh!Max
  <1>7. Mesh!NextRowid = 1 + Mesh!Max(S)
    BY DEF Mesh!NextRowid, S
  <1> QED BY <1>6, <1>7

\* A page holds rows after the cursor, and every exportable one up to its last.
LEMMA MeshPageFacts ==
  ASSUME Mesh!LimitsOK, MeshWalkTypes, NEW W, W = Mesh!list_all_for_mesh(cursor, walker)
  PROVE  /\ Mesh!Page(W).ids \subseteq 1..MaxRowid /\ \A r \in Mesh!Page(W).ids : r > cursor
         /\ Mesh!Page(W).more \in BOOLEAN
         /\ \A m \in Mesh!Page(W).ids, r \in DOMAIN rows :
              /\ r > cursor /\ r <= m /\ Mesh!Exportable(r)
              /\ rows[r].project \in Mesh!EffectiveProjects(walker)
              => r \in Mesh!Page(W).ids
  <1> DEFINE of == {r \in DOMAIN rows : r > cursor /\ rows[r].project \in Mesh!EffectiveProjects(walker)}
             before(r) == {q \in of : q < r}
             first == {r \in W : \E q \in W : r < q}
             full  == Mesh!Cardinality(W) > PageLimit /\ \A r \in first : Mesh!Exportable(r)
  <1>1. W = {r \in of : Mesh!Cardinality(before(r)) <= PageLimit}
    BY DEF Mesh!list_all_for_mesh
  <1>2. of \in SUBSET (1..MaxRowid) /\ MaxRowid \in Nat /\ PageLimit \in Nat
    BY DEF MeshWalkTypes, Mesh!LimitsOK
  <1>3. \A r \in of : Mesh!IsFiniteSet(before(r)) /\ Mesh!Cardinality(before(r)) \in Nat
    <2>1. \A r \in of : before(r) \in SUBSET (1..MaxRowid)
      BY <1>2
    <2>2. Mesh!IsFiniteSet(1..MaxRowid)
      BY <1>2, MeshInterval
    <2> HIDE DEF before
    <2> QED BY <2>1, <2>2, MeshSubset, MeshCardinalityType
  <1>4. ASSUME NEW r \in of, NEW m \in W, r <= m PROVE r \in W
    <2>1. m \in of /\ Mesh!Cardinality(before(m)) <= PageLimit
      BY <1>1
    <2>2. before(r) \in SUBSET before(m)
      <3>1. of \subseteq Nat
        BY <1>2
      <3>2. r \in Nat /\ m \in Nat
        BY <2>1, <3>1
      <3> QED BY <1>4, <3>1, <3>2
    <2>3. Mesh!Cardinality(before(r)) <= Mesh!Cardinality(before(m))
      <3> HIDE DEF before
      <3> QED BY <1>3, <2>1, <2>2, MeshSubset
    <2>4. Mesh!Cardinality(before(r)) <= PageLimit
      <3> HIDE DEF before
      <3> QED BY <1>2, <1>3, <2>1, <2>3
    <2> QED BY <1>1, <2>4
  <1>5. W \in SUBSET of
    BY <1>1
  <1>6. Mesh!Page(W).ids = {r \in (IF full THEN first ELSE W) : Mesh!Exportable(r)} /\ Mesh!Page(W).more = full
    BY DEF Mesh!Page
  <1> HIDE DEF full
  <1>7. Mesh!Page(W).ids \in SUBSET W
    BY <1>6
  <1>8. \A r \in of : r \in 1..MaxRowid /\ r > cursor
    BY <1>2
  <1>9. full \in BOOLEAN
    BY DEF full
  <1>10. ASSUME NEW m \in Mesh!Page(W).ids, NEW r \in DOMAIN rows, r > cursor, r <= m, Mesh!Exportable(r),
                rows[r].project \in Mesh!EffectiveProjects(walker)
         PROVE  r \in Mesh!Page(W).ids
    <2>1. r \in W
      BY <1>4, <1>7, <1>10
    <2>2. CASE full
      <3>1. PICK q \in W : m < q
        BY <1>6, <2>2
      <3>2. r \in Nat /\ m \in Nat /\ q \in Nat
        BY <1>2, <1>5, <1>7, <2>1, <3>1
      <3>3. r < q
        BY <1>10, <3>1, <3>2
      <3> QED BY <1>6, <1>10, <2>1, <2>2, <3>1, <3>3
    <2>3. CASE ~full
      BY <1>6, <1>10, <2>1, <2>3
    <2> QED BY <2>2, <2>3
  <1>11. Mesh!Page(W).ids \subseteq 1..MaxRowid /\ \A r \in Mesh!Page(W).ids : r > cursor
    BY <1>5, <1>7, <1>8
  <1> HIDE DEF of, before, first
  <1> QED BY <1>6, <1>9, <1>10, <1>11

\* A page holds the rows just past the cursor, and the cursor moves to its end.
LEMMA MeshListKeeps ==
  ASSUME Mesh!LimitsOK, MeshWalkInv, Mesh!ListMemories
  PROVE  MeshWalkInv'
  <1>1. PICK W : W = Mesh!list_all_for_mesh(cursor, walker)
    OBVIOUS
  <1>2. PICK page : page = Mesh!Page(W)
    OBVIOUS
  <1>3. /\ answer' = page /\ UNCHANGED <<rows, reused, walker>>
        /\ cursor' = IF Mesh!MintCursor(W, page.ids) = 0 THEN cursor ELSE Mesh!MintCursor(W, page.ids)
        /\ delivered' = [r \in 1..MaxRowid |->
                           IF r \in page.ids /\ delivered[r] < 2 THEN delivered[r] + 1 ELSE delivered[r]]
    BY <1>1, <1>2 DEF Mesh!ListMemories
  <1>4. MeshWalkTypes /\ MeshBehind /\ Mesh!CursorCovers /\ MaxRowid \in Nat
    BY DEF MeshWalkInv, Mesh!LimitsOK
  <1>5. /\ page.ids \subseteq 1..MaxRowid /\ \A r \in page.ids : r > cursor
        /\ page.more \in BOOLEAN
        /\ \A m \in page.ids, r \in DOMAIN rows :
             /\ r > cursor /\ r <= m /\ Mesh!Exportable(r)
             /\ rows[r].project \in Mesh!EffectiveProjects(walker)
             => r \in page.ids
    BY <1>1, <1>2, <1>4, MeshPageFacts
  <1>6. \A r \in page.ids : delivered[r] = 0
    <2>1. SUFFICES ASSUME NEW r \in page.ids PROVE delivered[r] = 0
      OBVIOUS
    <2>2. r \in 1..MaxRowid /\ delivered[r] \in 0..1 /\ cursor \in 0..MaxRowid /\ r > cursor
      BY <1>4, <1>5 DEF MeshWalkTypes
    <2>3. ~(r <= cursor)
      BY <1>4, <2>2
    <2> QED BY <1>4, <2>2, <2>3 DEF MeshBehind
  <1>7. delivered' \in [1..MaxRowid -> 0..1]
        /\ \A r \in 1..MaxRowid : delivered'[r] = IF r \in page.ids THEN 1 ELSE delivered[r]
    <2>1. \A r \in 1..MaxRowid : delivered[r] \in 0..1
      BY <1>4 DEF MeshWalkTypes
    <2>2. \A r \in 1..MaxRowid :
            (IF r \in page.ids /\ delivered[r] < 2 THEN delivered[r] + 1 ELSE delivered[r])
              = IF r \in page.ids THEN 1 ELSE delivered[r]
      BY <1>6
    <2> QED BY <1>3, <2>1, <2>2
  <1>8. /\ cursor' \in 0..MaxRowid /\ cursor <= cursor' /\ \A r \in page.ids : r <= cursor'
        /\ cursor' # cursor => cursor' \in page.ids
    <2>1. cursor \in 0..MaxRowid
      BY <1>4 DEF MeshWalkTypes
    <2>2. CASE page.ids = {}
      <3>1. Mesh!MintCursor(W, page.ids) = 0
        BY <2>2 DEF Mesh!MintCursor
      <3> QED BY <1>3, <1>4, <2>1, <2>2, <3>1
    <2>3. CASE page.ids # {}
      <3>1. page.ids \in SUBSET (0..MaxRowid)
        BY <1>4, <1>5
      <3>2. \E m \in page.ids : \A x \in page.ids : x <= m
        BY <1>4, <2>3, <3>1, MeshGreatestExists
      <3>3. PICK m : m = (CHOOSE r \in page.ids : \A s \in page.ids : s <= r)
        OBVIOUS
      <3>4. m \in page.ids /\ \A s \in page.ids : s <= m
        BY <3>2, <3>3
      <3>5. Mesh!MintCursor(W, page.ids) = m
        BY <2>3, <3>3 DEF Mesh!MintCursor
      <3>6. m \in 1..MaxRowid /\ m > cursor
        BY <1>5, <3>4
      <3>7. m # 0 /\ m \in 0..MaxRowid /\ cursor <= m
        BY <1>4, <2>1, <3>6
      <3>8. cursor' = m
        BY <1>3, <3>5, <3>7
      <3> QED BY <3>4, <3>7, <3>8
    <2> QED BY <2>2, <2>3
  <1>9. MeshWalkTypes'
    BY <1>3, <1>4, <1>5, <1>7, <1>8 DEF MeshWalkTypes
  <1>10. MeshBehind'
    <2>1. SUFFICES ASSUME NEW r \in 1..MaxRowid, delivered'[r] > 0 PROVE r <= cursor'
      BY DEF MeshBehind
    <2>2. CASE r \in page.ids
      BY <1>8, <2>2
    <2>3. CASE r \notin page.ids
      <3>1. delivered[r] > 0
        BY <1>7, <2>1, <2>3
      <3>2. r <= cursor /\ cursor \in 0..MaxRowid
        BY <1>4, <3>1 DEF MeshBehind, MeshWalkTypes
      <3> QED BY <1>4, <1>8, <3>2
    <2> QED BY <2>2, <2>3
  <1>11. Mesh!CursorCovers'
    <2>1. SUFFICES ASSUME NEW r \in DOMAIN rows, r <= cursor', Mesh!Exportable(r),
                          rows[r].project \in Mesh!EffectiveProjects(walker), r \notin reused
                   PROVE  delivered'[r] > 0
      BY <1>3 DEF Mesh!CursorCovers, Mesh!Exportable, Mesh!EffectiveProjects
    <2>2. r \in 1..MaxRowid /\ cursor \in 0..MaxRowid /\ delivered[r] \in 0..1
      BY <1>4 DEF MeshWalkTypes
    <2>3. CASE r <= cursor
      <3>1. delivered[r] > 0
        BY <1>4, <2>1, <2>3 DEF Mesh!CursorCovers
      <3> QED BY <1>7, <2>2, <3>1
    <2>4. CASE ~(r <= cursor)
      <3>1. r > cursor
        BY <1>4, <2>2, <2>4
      <3>2. cursor' \in page.ids
        BY <1>8, <2>1, <2>4
      <3>3. r \in page.ids
        BY <1>5, <2>1, <3>1, <3>2
      <3> QED BY <1>7, <2>2, <3>3
    <2> QED BY <2>3, <2>4
  <1> QED BY <1>9, <1>10, <1>11 DEF MeshWalkInv

\* A row takes the next free rowid, and one behind the cursor is on record as reused.
LEMMA MeshAddRowKeeps ==
  ASSUME Mesh!LimitsOK, MeshWalkInv, NEW row \in Mesh!Row, Mesh!AddRow(row)
  PROVE  MeshWalkInv'
  <1>1. PICK n : n = Mesh!NextRowid
    OBVIOUS
  <1>2. /\ n <= MaxRowid /\ UNCHANGED <<cursor, answer, walker>>
        /\ rows' = [r \in DOMAIN rows \cup {n} |-> IF r = n THEN row ELSE rows[r]]
        /\ delivered' = [delivered EXCEPT ![n] = 0]
        /\ reused' = IF n <= cursor THEN reused \cup {n} ELSE reused \ {n}
    BY <1>1 DEF Mesh!AddRow
  <1>3. MeshWalkTypes /\ MeshBehind /\ Mesh!CursorCovers
    BY DEF MeshWalkInv
  <1>4. n \in 1..MaxRowid
    <2>1. n \in Nat \ {0} /\ MaxRowid \in Nat
      BY <1>1, <1>3, MeshNextIsFree DEF Mesh!LimitsOK
    <2> QED BY <1>2, <2>1
  <1>5. /\ DOMAIN rows' = DOMAIN rows \cup {n} /\ rows'[n] = row
        /\ \A r \in DOMAIN rows \ {n} : rows'[r] = rows[r]
    BY <1>2
  <1>6. /\ delivered' \in [1..MaxRowid -> 0..1] /\ delivered'[n] = 0
        /\ \A r \in 1..MaxRowid \ {n} : delivered'[r] = delivered[r]
    BY <1>2, <1>3, <1>4 DEF MeshWalkTypes
  <1>7. MeshWalkTypes'
    BY <1>2, <1>3, <1>4, <1>5, <1>6 DEF MeshWalkTypes
  <1>8. MeshBehind'
    BY <1>2, <1>3, <1>6 DEF MeshBehind
  <1>9. Mesh!CursorCovers'
    <2>1. SUFFICES ASSUME NEW r \in DOMAIN rows', r <= cursor, Mesh!Exportable(r)',
                          rows'[r].project \in Mesh!EffectiveProjects(walker), r \notin reused'
                   PROVE  delivered'[r] > 0
      BY <1>2 DEF Mesh!CursorCovers, Mesh!EffectiveProjects
    <2>2. r # n
      BY <1>2, <2>1
    <2>3. r \in DOMAIN rows /\ rows'[r] = rows[r] /\ r \notin reused
      BY <1>2, <1>5, <2>1, <2>2
    <2>4. Mesh!Exportable(r)
      BY <2>1, <2>3 DEF Mesh!Exportable
    <2>5. delivered[r] > 0
      BY <1>3, <2>1, <2>3, <2>4 DEF Mesh!CursorCovers
    <2>6. r \in 1..MaxRowid \ {n}
      BY <1>3, <2>2, <2>3 DEF MeshWalkTypes
    <2> QED BY <1>6, <2>5, <2>6
  <1> QED BY <1>7, <1>8, <1>9 DEF MeshWalkInv

\* A deleted row leaves, and one retagged behind the cursor is on record.
LEMMA MeshRowChangeKeeps ==
  ASSUME Mesh!LimitsOK, MeshWalkInv, NEW x \in 1..MaxRowid, Mesh!DeleteRow(x) \/ Mesh!Retag(x)
  PROVE  MeshWalkInv'
  <1>1. MeshWalkTypes /\ MeshBehind /\ Mesh!CursorCovers
    BY DEF MeshWalkInv
  <1>2. CASE Mesh!DeleteRow(x)
    <2>1. /\ rows' = [s \in DOMAIN rows \ {x} |-> rows[s]] /\ reused' = reused \ {x}
          /\ UNCHANGED <<delivered, cursor, answer, walker>>
      BY <1>2 DEF Mesh!DeleteRow
    <2>2. DOMAIN rows' = DOMAIN rows \ {x} /\ \A r \in DOMAIN rows' : rows'[r] = rows[r]
      BY <2>1
    <2>3. MeshWalkTypes' /\ MeshBehind'
      BY <1>1, <2>1, <2>2 DEF MeshWalkTypes, MeshBehind
    <2>4. Mesh!CursorCovers'
      BY <1>1, <2>1, <2>2 DEF Mesh!CursorCovers, Mesh!Exportable, Mesh!EffectiveProjects
    <2> QED BY <2>3, <2>4 DEF MeshWalkInv
  <1>3. CASE Mesh!Retag(x)
    <2>1. /\ x \in DOMAIN rows /\ rows' = [rows EXCEPT ![x].nofed = ~rows[x].nofed]
          /\ reused' = IF x <= cursor THEN reused \cup {x} ELSE reused
          /\ UNCHANGED <<delivered, cursor, answer, walker>>
      BY <1>3 DEF Mesh!Retag
    <2>2. DOMAIN rows' = DOMAIN rows /\ \A r \in DOMAIN rows \ {x} : rows'[r] = rows[r]
      BY <2>1
    <2>3. rows[x] \in Mesh!Row
      BY <1>1, <2>1 DEF MeshWalkTypes
    <2>4. rows'[x] \in Mesh!Row
      BY <2>1, <2>3 DEF Mesh!Row
    <2>5. MeshWalkTypes' /\ MeshBehind'
      BY <1>1, <2>1, <2>2, <2>4 DEF MeshWalkTypes, MeshBehind
    <2>6. Mesh!CursorCovers'
      BY <1>1, <2>1, <2>2 DEF Mesh!CursorCovers, Mesh!Exportable, Mesh!EffectiveProjects
    <2> QED BY <2>5, <2>6 DEF MeshWalkInv
  <1> QED BY <1>2, <1>3

\* Every step of the walk and of the rows keeps its invariant.
LEMMA MeshWalkKeeps ==
  ASSUME Mesh!LimitsOK, MeshWalkInv, Mesh!WalkNext
  PROVE  MeshWalkInv'
  BY MeshAddRowKeeps, MeshRowChangeKeeps, MeshListKeeps DEF Mesh!WalkNext

-----------------------------------------------------------------------------
(* The server.                                                             *)

\* A start whose second leg fails takes the first down with it.
LEMMA MeshServerKeeps ==
  ASSUME MeshServerInv, Mesh!ServerNext
  PROVE  MeshServerInv'
  <1>1. ASSUME NEW ok \in BOOLEAN, Mesh!Start(ok) PROVE MeshServerInv'
    <2>1. up' = ok /\ socket' = ok /\ tcp' = ok
      <3>1. CASE ok
        BY <1>1, <3>1 DEF Mesh!Start
      <3>2. CASE ~ok
        BY <1>1, <3>2 DEF Mesh!Start, Mesh!AbortFailedStart
      <3> QED BY <3>1, <3>2
    <2> QED BY <2>1, Zenon DEF MeshServerInv, Mesh!NoHalfStart
  <1>2. CASE Mesh!Stop
    BY <1>2 DEF Mesh!Stop, MeshServerInv, Mesh!NoHalfStart
  <1>3. CASE Mesh!Crash
    BY <1>3 DEF Mesh!Crash, MeshServerInv, Mesh!NoHalfStart
  <1> QED BY <1>1, <1>2, <1>3 DEF Mesh!ServerNext

-----------------------------------------------------------------------------
(* Imports.                                                                *)

\* Sets of ids and of handlers are finite.
LEMMA MeshCounts ==
  ASSUME Mesh!LimitsOK
  PROVE  /\ \A S \in SUBSET FedIds : Mesh!IsFiniteSet(S) /\ Mesh!Cardinality(S) \in Nat
         /\ \A S \in SUBSET Handlers :
              /\ Mesh!IsFiniteSet(S) /\ Mesh!Cardinality(S) \in Nat
              /\ Mesh!Cardinality(S) <= Mesh!Cardinality(Handlers)
  <1>1. Mesh!IsFiniteSet(FedIds) /\ Mesh!IsFiniteSet(Handlers)
    BY DEF Mesh!LimitsOK
  <1> QED BY <1>1, MeshSubset, MeshCardinalityType

\* A finite set is as large as its parts together.
LEMMA MeshSplitCount ==
  ASSUME NEW S, Mesh!IsFiniteSet(S), NEW T \in SUBSET S
  PROVE  Mesh!Cardinality(S) = Mesh!Cardinality(T) + Mesh!Cardinality(S \ T)
  <1>1. S \cap T = T
    OBVIOUS
  <1>2. Mesh!Cardinality(S \ T) = Mesh!Cardinality(S) - Mesh!Cardinality(T)
    BY <1>1, MeshDifference
  <1>3. Mesh!Cardinality(S) \in Nat /\ Mesh!Cardinality(T) \in Nat
        /\ Mesh!Cardinality(S \ T) \in Nat
    BY MeshSubset, MeshCardinalityType
  <1> QED BY <1>2, <1>3

\* A handler between records is of its type.
LEMMA MeshIdleIs ==
  ASSUME Mesh!LimitsOK
  PROVE  Mesh!Idle \in MeshHandler /\ Mesh!Idle.pc = "idle" /\ Mesh!Idle.by = "rpc"
  <1>1. FedIds # {}
    BY DEF Mesh!LimitsOK
  <1>2. (CHOOSE f \in FedIds : TRUE) \in FedIds
    BY <1>1
  <1> QED BY <1>2 DEF Mesh!Idle, MeshHandler

\* A lookup adds to the imports that will add only when no copy is there yet.
LEMMA MeshLookupKeeps ==
  ASSUME Mesh!LimitsOK, MeshImportTypes, Mesh!ImportsBounded, NEW h \in Handlers, NEW f \in FedIds,
         NEW by \in {"rpc", "fetch"}, imp[h].pc = "idle", Mesh!Lookup(h, f, by), UNCHANGED copies
  PROVE  /\ imp' \in [Handlers -> MeshHandler] /\ imp'[h].pc = "found" /\ imp'[h].by = by
         /\ \A g \in Handlers \ {h} : imp'[g] = imp[g]
         /\ Mesh!ImportsBounded'
  <1>1. imp' = [imp EXCEPT ![h] = [pc |-> "found", rec |-> f, by |-> by,
                                   dup |-> Mesh!find_federated_duplicate(f)]]
    BY DEF Mesh!Lookup
  <1>2. imp \in [Handlers -> MeshHandler] /\ Mesh!find_federated_duplicate(f) \in BOOLEAN
        /\ copies \in [FedIds -> Nat]
    BY DEF MeshImportTypes, Mesh!find_federated_duplicate
  <1>3. /\ imp'[h] = [pc |-> "found", rec |-> f, by |-> by, dup |-> Mesh!find_federated_duplicate(f)]
        /\ \A g \in Handlers \ {h} : imp'[g] = imp[g]
    BY <1>1, <1>2
  <1>4. imp'[h] \in MeshHandler
    BY <1>2, <1>3 DEF MeshHandler
  <1>5. imp' \in [Handlers -> MeshHandler]
    BY <1>1, <1>2, <1>4
  <1>6. Mesh!ImportsBounded'
    <2>1. SUFFICES ASSUME NEW e \in FedIds
                   PROVE  copies[e] + Mesh!Cardinality(MeshAdding(e)') <= Mesh!Cardinality(Handlers)
      BY DEF Mesh!ImportsBounded, MeshAdding
    <2>2. /\ MeshAdding(e) \in SUBSET Handlers /\ MeshAdding(e)' \in SUBSET Handlers
          /\ copies[e] + Mesh!Cardinality(MeshAdding(e)) <= Mesh!Cardinality(Handlers)
      BY DEF Mesh!ImportsBounded, MeshAdding
    <2>3. CASE e = f /\ copies[f] = 0
      <3>1. Mesh!Cardinality(MeshAdding(e)') \in Nat
            /\ Mesh!Cardinality(MeshAdding(e)') <= Mesh!Cardinality(Handlers)
        BY <2>2, MeshCounts
      <3> QED BY <2>3, <3>1
    <2>4. CASE ~(e = f /\ copies[f] = 0)
      <3>1. e = f => Mesh!find_federated_duplicate(f)
        BY <1>2, <2>4 DEF Mesh!find_federated_duplicate
      <3>2. h \notin MeshAdding(e) /\ h \notin MeshAdding(e)'
        BY <1>3, <3>1 DEF MeshAdding
      <3>3. MeshAdding(e)' = MeshAdding(e)
        BY <1>3, <3>2 DEF MeshAdding
      <3> QED BY <2>2, <3>3
    <2> QED BY <2>3, <2>4
  <1> QED BY <1>3, <1>5, <1>6

\* A handler looks for copies before it writes one.
LEMMA MeshWriteKeeps ==
  ASSUME Mesh!LimitsOK, MeshImportInv, NEW h \in Handlers, NEW f \in FedIds, Mesh!WriteMemory(h, f)
  PROVE  MeshImportInv'
  <1>1. MeshImportTypes /\ Mesh!ImportsBounded /\ MeshOneFetch /\ MeshSums
    BY DEF MeshImportInv
  <1>2. imp[h].pc = "idle" /\ Mesh!Lookup(h, f, "rpc") /\ UNCHANGED <<copies, state, job>>
    BY DEF Mesh!WriteMemory
  <1>3. /\ imp' \in [Handlers -> MeshHandler] /\ imp'[h].pc = "found" /\ imp'[h].by = "rpc"
        /\ \A g \in Handlers \ {h} : imp'[g] = imp[g]
        /\ Mesh!ImportsBounded'
    BY <1>1, <1>2, MeshLookupKeeps
  <1>4. imp[h].by = "rpc"
    BY <1>1, <1>2 DEF MeshImportTypes
  <1>5. MeshFetching' = MeshFetching
    BY <1>3, <1>4 DEF MeshFetching
  <1>6. MeshImportTypes'
    BY <1>1, <1>2, <1>3 DEF MeshImportTypes
  <1>7. MeshOneFetch' /\ MeshSums'
    BY <1>1, <1>2, <1>5 DEF MeshOneFetch, MeshSums
  <1> QED BY <1>3, <1>6, <1>7 DEF MeshImportInv

\* An import that ends adds the copy it was counted for.
LEMMA MeshFinishBounded ==
  ASSUME Mesh!LimitsOK, MeshImportInv, NEW h \in Handlers, Mesh!FinishImport(h)
  PROVE  /\ imp' \in [Handlers -> MeshHandler] /\ copies' \in [FedIds -> Nat]
         /\ imp'[h] = Mesh!Idle /\ \A g \in Handlers \ {h} : imp'[g] = imp[g]
         /\ Mesh!ImportsBounded'
  <1> DEFINE f == imp[h].rec
  <1>1. /\ imp[h].pc = "found" /\ imp' = [imp EXCEPT ![h] = Mesh!Idle]
        /\ copies' = IF imp[h].dup THEN copies ELSE [copies EXCEPT ![f] = @ + 1]
    BY DEF Mesh!FinishImport
  <1>2. imp \in [Handlers -> MeshHandler] /\ copies \in [FedIds -> Nat] /\ Mesh!Idle \in MeshHandler
        /\ Mesh!Idle.pc = "idle"
    BY MeshIdleIs DEF MeshImportInv, MeshImportTypes
  <1>3. f \in FedIds /\ imp[h].dup \in BOOLEAN
    BY <1>2 DEF MeshHandler
  <1>4. /\ imp' \in [Handlers -> MeshHandler] /\ imp'[h] = Mesh!Idle
        /\ \A g \in Handlers \ {h} : imp'[g] = imp[g]
    BY <1>1, <1>2
  <1>5. /\ copies' \in [FedIds -> Nat] /\ \A e \in FedIds \ {f} : copies'[e] = copies[e]
        /\ copies'[f] = IF imp[h].dup THEN copies[f] ELSE copies[f] + 1
    BY <1>1, <1>2, <1>3
  <1>6. Mesh!ImportsBounded'
    <2>1. SUFFICES ASSUME NEW e \in FedIds
                   PROVE  copies'[e] + Mesh!Cardinality(MeshAdding(e)') <= Mesh!Cardinality(Handlers)
      BY DEF Mesh!ImportsBounded, MeshAdding
    <2>2. /\ MeshAdding(e) \in SUBSET Handlers /\ MeshAdding(e)' \in SUBSET Handlers
          /\ copies[e] + Mesh!Cardinality(MeshAdding(e)) <= Mesh!Cardinality(Handlers)
      BY DEF MeshImportInv, Mesh!ImportsBounded, MeshAdding
    <2>3. Mesh!IsFiniteSet(MeshAdding(e)) /\ Mesh!Cardinality(MeshAdding(e)) \in Nat
          /\ Mesh!Cardinality(Handlers) \in Nat
      BY <2>2, MeshCounts
    <2>4. CASE e = f /\ ~imp[h].dup
      <3>1. h \in MeshAdding(e)
        BY <1>1, <2>4 DEF MeshAdding
      <3>2. MeshAdding(e)' = MeshAdding(e) \ {h}
        BY <1>2, <1>4 DEF MeshAdding
      <3>3. Mesh!Cardinality(MeshAdding(e)') = Mesh!Cardinality(MeshAdding(e)) - 1
        BY <2>3, <3>1, <3>2, MeshRemoveElement
      <3>4. copies'[e] = copies[e] + 1 /\ copies[e] \in Nat
        BY <1>2, <1>5, <2>4
      <3> QED BY <2>2, <2>3, <3>3, <3>4
    <2>5. CASE ~(e = f /\ ~imp[h].dup)
      <3>1. h \notin MeshAdding(e)
        BY <2>5 DEF MeshAdding
      <3>2. h \notin MeshAdding(e)'
        BY <1>2, <1>4 DEF MeshAdding
      <3>3. MeshAdding(e)' = MeshAdding(e)
        BY <1>4, <3>1, <3>2 DEF MeshAdding
      <3>4. copies'[e] = copies[e]
        BY <1>5, <2>5
      <3> QED BY <2>2, <3>3, <3>4
    <2> QED BY <2>4, <2>5
  <1> QED BY <1>4, <1>5, <1>6

\* The fetch counts the record its import had in hand.
LEMMA MeshFinishKeeps ==
  ASSUME Mesh!LimitsOK, MeshImportInv, NEW h \in Handlers, Mesh!FinishImport(h)
  PROVE  MeshImportInv'
  <1>1. MeshImportTypes /\ MeshOneFetch /\ MeshSums
    BY DEF MeshImportInv
  <1>2. /\ imp' \in [Handlers -> MeshHandler] /\ copies' \in [FedIds -> Nat]
        /\ imp'[h] = Mesh!Idle /\ \A g \in Handlers \ {h} : imp'[g] = imp[g]
        /\ Mesh!ImportsBounded'
    BY MeshFinishBounded
  <1>3. /\ state' = state
        /\ job' = IF imp[h].by = "rpc" THEN job
                  ELSE IF imp[h].dup THEN [job EXCEPT !.duplicates = @ + 1]
                  ELSE [job EXCEPT !.imported = @ + 1]
    BY DEF Mesh!FinishImport
  <1>4. Mesh!Idle.pc = "idle" /\ Mesh!Idle.by = "rpc" /\ imp[h].by \in {"rpc", "fetch"}
        /\ job \in MeshJob
    BY <1>1, MeshIdleIs DEF MeshImportTypes, MeshHandler
  <1>5. MeshFetching' = MeshFetching \ {h}
    BY <1>2, <1>4 DEF MeshFetching
  <1>6. CASE imp[h].by = "rpc"
    <2>1. job' = job /\ h \notin MeshFetching
      BY <1>3, <1>6 DEF MeshFetching
    <2>2. MeshFetching' = MeshFetching
      BY <1>5, <2>1
    <2>3. MeshOneFetch' /\ MeshSums'
      BY <1>1, <2>1, <2>2 DEF MeshOneFetch, MeshSums
    <2>4. MeshImportTypes'
      BY <1>1, <1>2, <1>3, <1>4, <2>1 DEF MeshImportTypes
    <2> QED BY <1>2, <2>3, <2>4 DEF MeshImportInv
  <1>7. CASE imp[h].by = "fetch"
    <2>1. h \in MeshFetching /\ MeshFetching \in SUBSET Handlers
      BY <1>7 DEF MeshFetching
    <2>2. job.pc = "fetch" /\ MeshFetching = {h}
      BY <1>1, <2>1 DEF MeshOneFetch
    <2>3. MeshFetching' = {}
      BY <1>5, <2>2
    <2>4. Mesh!Cardinality(MeshFetching) = 1 /\ Mesh!Cardinality(MeshFetching') = 0
      BY <2>2, <2>3, MeshSingleton, MeshEmptySet
    <2>5. MeshCounted(job, 1)
      BY <1>1, <2>2, <2>4 DEF MeshSums
    <2>6. PICK t \in Nat, u \in Nat : t = Mesh!Cardinality(job.todo)
          /\ u = Mesh!Cardinality(job.got)
      BY <1>4, MeshCounts DEF MeshJob
    <2>7. /\ job' \in MeshJob /\ job'.pc = "fetch"
          /\ job'.todo = job.todo /\ job'.got = job.got /\ job'.asked = job.asked
          /\ job'.skipped = job.skipped /\ job'.fetched = job.fetched
          /\ job'.notFound = job.notFound /\ job'.errors = job.errors /\ job'.gated = job.gated
          /\ job'.imported + job'.duplicates = job.imported + job.duplicates + 1
      BY <1>3, <1>4, <1>7, <2>2 DEF MeshJob
    <2>8. MeshCounted(job', 0)
      BY <1>4, <2>5, <2>6, <2>7 DEF MeshCounted, MeshJob
    <2>9. MeshOneFetch' /\ MeshSums'
      BY <2>3, <2>4, <2>7, <2>8 DEF MeshOneFetch, MeshSums
    <2>10. MeshImportTypes'
      BY <1>1, <1>2, <1>3, <1>4, <2>7 DEF MeshImportTypes
    <2> QED BY <1>2, <2>9, <2>10 DEF MeshImportInv
  <1> QED BY <1>4, <1>6, <1>7

\* What the steps of the plan leave alone.
LEMMA MeshJobStep ==
  ASSUME Mesh!LimitsOK, MeshImportInv, UNCHANGED <<copies, imp, state>>, job' \in MeshJob, MeshFetching = {},
         MeshSums'
  PROVE  MeshImportInv'
  <1>1. MeshFetching' = {}
    BY DEF MeshFetching
  <1>2. MeshImportTypes'
    BY DEF MeshImportInv, MeshImportTypes
  <1>3. Mesh!ImportsBounded'
    BY DEF MeshImportInv, Mesh!ImportsBounded
  <1>4. MeshOneFetch'
    BY <1>1 DEF MeshOneFetch
  <1> QED BY <1>2, <1>3, <1>4 DEF MeshImportInv

\* Before the first fetch there is no work to account for.
LEMMA MeshNoJobIs == Mesh!NoJob \in MeshJob /\ Mesh!NoJob.pc = "idle"
  BY DEF Mesh!NoJob, MeshJob

\* The plan asks for the ids that are available and skips the others.
LEMMA MeshPlanKeeps ==
  ASSUME Mesh!LimitsOK, MeshImportInv, NEW ids \in SUBSET FedIds, Mesh!ResolvePlan(ids)
  PROVE  MeshImportInv'
  <1> DEFINE fetch == {f \in ids : state[f] = "available"}
  <1>1. /\ job.pc = "idle" /\ UNCHANGED <<copies, imp, state>>
        /\ job' = [Mesh!NoJob EXCEPT !.pc = IF fetch = {} THEN "done" ELSE "confirm", !.todo = fetch,
                                !.asked = Mesh!Cardinality(ids), !.skipped = Mesh!Cardinality(ids \ fetch)]
    BY DEF Mesh!ResolvePlan
  <1>2. fetch \in SUBSET ids /\ Mesh!IsFiniteSet(FedIds) /\ Mesh!IsFiniteSet(ids)
    BY MeshCounts DEF Mesh!LimitsOK
  <1>3. MeshFetching = {}
    BY <1>1 DEF MeshImportInv, MeshOneFetch
  <1> HIDE DEF fetch
  <1>4. /\ Mesh!Cardinality(fetch) \in Nat /\ Mesh!Cardinality(ids \ fetch) \in Nat
        /\ Mesh!Cardinality(ids) \in Nat
    BY <1>2, MeshCounts
  <1>5. Mesh!Cardinality(fetch) + Mesh!Cardinality(ids \ fetch) = Mesh!Cardinality(ids)
    BY <1>2, MeshSplitCount
  <1>6. Mesh!Cardinality(ids) <= Mesh!Cardinality(FedIds)
    BY <1>2, MeshSubset
  <1>7. /\ job' \in MeshJob /\ job'.pc = IF fetch = {} THEN "done" ELSE "confirm"
        /\ job'.todo = fetch /\ job'.got = {} /\ job'.asked = Mesh!Cardinality(ids)
        /\ job'.skipped = Mesh!Cardinality(ids \ fetch) /\ job'.fetched = 0 /\ job'.notFound = 0
        /\ job'.errors = 0 /\ job'.imported = 0 /\ job'.duplicates = 0 /\ job'.gated = 0
    BY <1>1, <1>2, <1>4 DEF Mesh!NoJob, MeshJob
  <1>8. Mesh!Cardinality({}) = 0
    BY MeshEmptySet
  <1>9. MeshCounted(job', 0)
    BY <1>4, <1>5, <1>6, <1>7, <1>8 DEF MeshCounted
  <1>10. MeshFetching' = {}
    BY <1>1, <1>3 DEF MeshFetching
  <1>11. MeshSums'
    BY <1>7, <1>8, <1>9, <1>10 DEF MeshSums
  <1> QED BY <1>1, <1>3, <1>7, <1>11, MeshJobStep

\* A confirmed plan goes on to the peers, a refused one is dropped.
LEMMA MeshConfirmKeeps ==
  ASSUME Mesh!LimitsOK, MeshImportInv, NEW yes \in BOOLEAN, Mesh!Confirm(yes)
  PROVE  MeshImportInv'
  <1>1. /\ job.pc = "confirm" /\ UNCHANGED <<copies, imp, state>>
        /\ job' = IF yes THEN [job EXCEPT !.pc = "fetch"] ELSE Mesh!NoJob
    BY DEF Mesh!Confirm
  <1>2. MeshFetching = {} /\ job \in MeshJob /\ MeshSums
    BY <1>1 DEF MeshImportInv, MeshOneFetch, MeshImportTypes
  <1>3. MeshFetching' = MeshFetching
    BY <1>1 DEF MeshFetching
  <1>4. CASE yes
    <2>1. /\ job' \in MeshJob /\ job'.pc = "fetch"
          /\ job'.todo = job.todo /\ job'.got = job.got /\ job'.asked = job.asked
          /\ job'.skipped = job.skipped /\ job'.fetched = job.fetched
          /\ job'.notFound = job.notFound /\ job'.errors = job.errors /\ job'.gated = job.gated
          /\ job'.imported = job.imported /\ job'.duplicates = job.duplicates
      BY <1>1, <1>2, <1>4 DEF MeshJob
    <2>2. MeshCounted(job, Mesh!Cardinality(MeshFetching))
      BY <1>1, <1>2 DEF MeshSums
    <2>3. MeshCounted(job', Mesh!Cardinality(MeshFetching'))
      BY <1>3, <2>1, <2>2 DEF MeshCounted
    <2>4. MeshSums'
      BY <2>1, <2>3 DEF MeshSums
    <2> QED BY <1>1, <1>2, <2>1, <2>4, MeshJobStep
  <1>5. CASE ~yes
    <2>1. job' = Mesh!NoJob /\ job' \in MeshJob /\ job'.pc = "idle"
      BY <1>1, <1>5, MeshNoJobIs
    <2>2. MeshSums'
      BY <2>1 DEF MeshSums
    <2> QED BY <1>1, <1>2, <2>1, <2>2, MeshJobStep
  <1> QED BY <1>4, <1>5

\* A peer's group leaves the plan: as errors, or as records and what is not found.
LEMMA MeshPeerKeeps ==
  ASSUME Mesh!LimitsOK, MeshImportInv, NEW p, Mesh!FetchFromPeer(p)
  PROVE  MeshImportInv'
  <1>1. /\ job.pc = "fetch" /\ job.got = {} /\ UNCHANGED <<copies, imp, state>>
        /\ \A h \in Handlers : imp[h].by # "fetch"
        /\ Mesh!FetchFails(p) \/ \E records \in SUBSET FedIds : Mesh!FetchAnswers(p, records)
    BY DEF Mesh!FetchFromPeer
  <1>2. MeshFetching = {} /\ MeshFetching' = {} /\ job \in MeshJob /\ MeshSums
    BY <1>1 DEF MeshFetching, MeshImportInv, MeshImportTypes
  <1>3. Mesh!Cardinality({}) = 0
    BY MeshEmptySet
  <1>4. MeshCounted(job, 0)
    BY <1>1, <1>2, <1>3 DEF MeshSums
  <1> DEFINE G == Mesh!Group(p)
  <1>5. G \in SUBSET job.todo /\ job.todo \in SUBSET FedIds /\ Mesh!IsFiniteSet(job.todo)
    BY <1>2, MeshCounts DEF Mesh!Group, MeshJob
  <1> HIDE DEF G
  <1>6. PICK t \in Nat, u \in Nat, g \in Nat :
          t = Mesh!Cardinality(job.todo) /\ u = Mesh!Cardinality(job.todo \ G)
          /\ g = Mesh!Cardinality(G)
    BY <1>5, MeshCounts
  <1>7. t = u + g
    <2>1. Mesh!Cardinality(job.todo) = Mesh!Cardinality(G) + Mesh!Cardinality(job.todo \ G)
      BY <1>5, MeshSplitCount
    <2> QED BY <1>6, <2>1
  <1>8. CASE Mesh!FetchFails(p)
    <2>1. job' = [job EXCEPT !.errors = @ + g, !.todo = @ \ G]
      BY <1>6, <1>8 DEF Mesh!FetchFails, G
    <2>2. /\ job' \in MeshJob /\ job'.pc = "fetch"
          /\ job'.todo = job.todo \ G /\ job'.got = job.got /\ job'.asked = job.asked
          /\ job'.skipped = job.skipped /\ job'.fetched = job.fetched
          /\ job'.notFound = job.notFound /\ job'.errors = job.errors + g
          /\ job'.gated = job.gated
          /\ job'.imported = job.imported /\ job'.duplicates = job.duplicates
      <3>1. PICK e \in Nat : e = job.errors + g
        BY <1>2 DEF MeshJob
      <3>2. PICK rest \in SUBSET FedIds : rest = job.todo \ G
        BY <1>5
      <3>3. job' = [job EXCEPT !.errors = e, !.todo = rest]
        BY <2>1, <3>1, <3>2
      <3>4. /\ job' \in MeshJob /\ job'.pc = job.pc
            /\ job'.todo = rest /\ job'.got = job.got /\ job'.asked = job.asked
            /\ job'.skipped = job.skipped /\ job'.fetched = job.fetched
            /\ job'.notFound = job.notFound /\ job'.errors = e
            /\ job'.gated = job.gated
            /\ job'.imported = job.imported /\ job'.duplicates = job.duplicates
        BY <1>2, <3>3 DEF MeshJob
      <3> QED BY <1>1, <3>1, <3>2, <3>4
    <2>3. MeshCounted(job', 0)
      BY <1>1, <1>2, <1>3, <1>4, <1>6, <1>7, <2>2 DEF MeshCounted, MeshJob
    <2>4. MeshSums'
      BY <1>2, <1>3, <2>2, <2>3 DEF MeshSums
    <2> QED BY <1>1, <1>2, <2>2, <2>4, MeshJobStep
  <1>9. ASSUME NEW records \in SUBSET FedIds, Mesh!FetchAnswers(p, records)
        PROVE  MeshImportInv'
    <2>1. records \subseteq G /\ records \in SUBSET FedIds /\ G \in SUBSET FedIds
      BY <1>5, <1>9 DEF Mesh!FetchAnswers, G
    <2>2. PICK r \in Nat, n \in Nat : r = Mesh!Cardinality(records)
          /\ n = Mesh!Cardinality(G \ records)
      BY <2>1, MeshCounts
    <2>3. g = r + n
      <3>1. records \in SUBSET G /\ Mesh!IsFiniteSet(G)
        BY <2>1, MeshCounts
      <3>2. Mesh!Cardinality(G) = Mesh!Cardinality(records) + Mesh!Cardinality(G \ records)
        BY <3>1, MeshSplitCount
      <3> QED BY <1>6, <2>2, <3>2
    <2>4. job' = [job EXCEPT !.todo = @ \ G, !.got = records, !.fetched = @ + r,
                            !.notFound = @ + n]
      BY <1>9, <2>2 DEF Mesh!FetchAnswers, G
    <2>5. /\ job' \in MeshJob /\ job'.pc = "fetch"
          /\ job'.todo = job.todo \ G /\ job'.got = records /\ job'.asked = job.asked
          /\ job'.skipped = job.skipped /\ job'.fetched = job.fetched + r
          /\ job'.notFound = job.notFound + n /\ job'.errors = job.errors
          /\ job'.gated = job.gated
          /\ job'.imported = job.imported /\ job'.duplicates = job.duplicates
      <3>1. PICK a \in Nat, b \in Nat : a = job.fetched + r /\ b = job.notFound + n
        BY <1>2 DEF MeshJob
      <3>2. PICK rest \in SUBSET FedIds : rest = job.todo \ G
        BY <1>5
      <3>3. job' = [job EXCEPT !.todo = rest, !.got = records, !.fetched = a, !.notFound = b]
        BY <2>4, <3>1, <3>2
      <3>4. /\ job' \in MeshJob /\ job'.pc = job.pc
            /\ job'.todo = rest /\ job'.got = records /\ job'.asked = job.asked
            /\ job'.skipped = job.skipped /\ job'.fetched = a
            /\ job'.notFound = b /\ job'.errors = job.errors
            /\ job'.gated = job.gated
            /\ job'.imported = job.imported /\ job'.duplicates = job.duplicates
        BY <1>2, <3>3 DEF MeshJob
      <3> QED BY <1>1, <3>1, <3>2, <3>4
    <2>6. MeshCounted(job', 0)
      BY <1>1, <1>2, <1>3, <1>4, <1>6, <1>7, <2>2, <2>3, <2>5 DEF MeshCounted, MeshJob
    <2>7. MeshSums'
      BY <1>2, <1>3, <2>5, <2>6 DEF MeshSums
    <2> QED BY <1>1, <1>2, <2>5, <2>7, MeshJobStep
  <1> QED BY <1>1, <1>8, <1>9
\* A record of the answer is gated, an error, or in hand until its import ends.
LEMMA MeshFetchedKeeps ==
  ASSUME Mesh!LimitsOK, MeshImportInv, NEW h \in Handlers,
         NEW f \in FedIds, Mesh!ImportFetched(h, f)
  PROVE  MeshImportInv'
  <1>1. /\ job.pc = "fetch" /\ f \in job.got /\ UNCHANGED <<copies, state>>
        /\ \A g \in Handlers : imp[g].by # "fetch"
    BY DEF Mesh!ImportFetched
  <1>2. MeshFetching = {} /\ job \in MeshJob /\ MeshSums /\ MeshImportTypes /\ Mesh!ImportsBounded
    BY <1>1 DEF MeshFetching, MeshImportInv, MeshImportTypes
  <1>3. Mesh!Cardinality({}) = 0
    BY MeshEmptySet
  <1>4. MeshCounted(job, 0)
    BY <1>1, <1>2, <1>3 DEF MeshSums
  <1>5. job.got \in SUBSET FedIds /\ job.todo \in SUBSET FedIds
    BY <1>2 DEF MeshJob
  <1>6. PICK t \in Nat, u \in Nat :
          t = Mesh!Cardinality(job.todo) /\ u = Mesh!Cardinality(job.got \ {f})
    BY <1>5, MeshCounts
  <1>7. Mesh!Cardinality(job.got) = u + 1
    <2>1. Mesh!IsFiniteSet(job.got) /\ Mesh!Cardinality(job.got) \in Nat
      BY <1>5, MeshCounts
    <2>2. u = Mesh!Cardinality(job.got) - 1
      BY <1>1, <1>6, <2>1, MeshRemoveElement
    <2> QED BY <1>6, <2>1, <2>2
  <1>8. CASE /\ imp' = imp
             /\ \/ job' = [job EXCEPT !.got = @ \ {f}, !.gated = @ + 1]
                \/ job' = [job EXCEPT !.got = @ \ {f}, !.errors = @ + 1]
    <2>1. /\ job' \in MeshJob /\ job'.pc = "fetch"
          /\ job'.todo = job.todo /\ job'.got = job.got \ {f} /\ job'.asked = job.asked
          /\ job'.skipped = job.skipped /\ job'.fetched = job.fetched
          /\ job'.notFound = job.notFound /\ job'.errors + job'.gated = job.errors + job.gated + 1
          /\ job'.imported = job.imported /\ job'.duplicates = job.duplicates
      <3>1. PICK e \in Nat, d \in Nat : e = job.errors + 1 /\ d = job.gated + 1
        BY <1>2 DEF MeshJob
      <3>2. PICK rest \in SUBSET FedIds : rest = job.got \ {f}
        BY <1>5
      <3>3. \/ job' = [job EXCEPT !.got = rest, !.gated = d]
            \/ job' = [job EXCEPT !.got = rest, !.errors = e]
        BY <1>8, <3>1, <3>2
      <3>4. /\ job' \in MeshJob /\ job'.pc = job.pc
            /\ job'.todo = job.todo /\ job'.got = rest /\ job'.asked = job.asked
            /\ job'.skipped = job.skipped /\ job'.fetched = job.fetched
            /\ job'.notFound = job.notFound
            /\ job'.imported = job.imported /\ job'.duplicates = job.duplicates
            /\ \/ job'.gated = d /\ job'.errors = job.errors
               \/ job'.errors = e /\ job'.gated = job.gated
        BY <1>2, <3>3 DEF MeshJob
      <3>5. job'.errors + job'.gated = job.errors + job.gated + 1
        BY <1>2, <3>1, <3>4 DEF MeshJob
      <3> QED BY <1>1, <3>2, <3>4, <3>5
    <2>2. MeshCounted(job', 0)
      <3>1. PICK e \in Nat, d \in Nat : e = job'.errors /\ d = job'.gated
        BY <2>1 DEF MeshJob
      <3>2. e + d = job.errors + job.gated + 1
        BY <2>1, <3>1
      <3>3. /\ job.skipped + job.notFound + job.errors + job.imported + job.duplicates + job.gated
                 + t + (u + 1) + 0 = job.asked
            /\ job.fetched + t <= job.asked /\ job.asked <= Mesh!Cardinality(FedIds)
        BY <1>4, <1>6, <1>7 DEF MeshCounted
      <3>4. job.errors \in Nat /\ job.gated \in Nat /\ job.skipped \in Nat /\ job.notFound \in Nat
            /\ job.imported \in Nat /\ job.duplicates \in Nat
        BY <1>2 DEF MeshJob
      <3> DEFINE sk == job.skipped
                 nf == job.notFound
                 er == job.errors
                 im == job.imported
                 du == job.duplicates
                 ga == job.gated
                 as == job.asked
      <3>5. sk + nf + e + im + du + d + t + u + 0 = as
        <4>1. /\ sk \in Nat /\ nf \in Nat /\ er \in Nat /\ im \in Nat /\ du \in Nat /\ ga \in Nat
              /\ e \in Nat /\ d \in Nat /\ e + d = er + ga + 1 /\ t \in Nat /\ u \in Nat
              /\ sk + nf + er + im + du + ga + t + (u + 1) + 0 = as
          BY <1>6, <3>1, <3>2, <3>3, <3>4
        <4> HIDE DEF sk, nf, er, im, du, ga, as
        <4>2. sk + nf + e + im + du + d + t + u + 0 = sk + nf + er + im + du + ga + t + (u + 1) + 0
          BY <4>1
        <4> QED BY <4>1, <4>2, Zenon
      <3> QED BY <1>6, <2>1, <3>1, <3>3, <3>5 DEF MeshCounted
    <2>3. MeshFetching' = {}
      <3>1. imp' = imp
        BY <1>8
      <3> QED BY <1>2, <3>1 DEF MeshFetching
    <2>4. MeshSums'
      BY <1>3, <2>1, <2>2, <2>3 DEF MeshSums
    <2>5. UNCHANGED <<copies, imp, state>>
      BY <1>1, <1>8
    <2> QED BY <1>2, <2>1, <2>4, <2>5, MeshJobStep
  <1>9. CASE imp[h].pc = "idle" /\ Mesh!Lookup(h, f, "fetch") /\ job' = [job EXCEPT !.got = @ \ {f}]
    <2>1. /\ imp' \in [Handlers -> MeshHandler] /\ imp'[h].pc = "found" /\ imp'[h].by = "fetch"
          /\ \A g \in Handlers \ {h} : imp'[g] = imp[g]
          /\ Mesh!ImportsBounded'
      BY <1>1, <1>2, <1>9, MeshLookupKeeps
    <2>2. MeshFetching' = {h}
      BY <1>1, <2>1 DEF MeshFetching
    <2>3. Mesh!Cardinality(MeshFetching') = 1
      BY <2>2, MeshSingleton
    <2>4. /\ job' \in MeshJob /\ job'.pc = "fetch"
          /\ job'.todo = job.todo /\ job'.got = job.got \ {f} /\ job'.asked = job.asked
          /\ job'.skipped = job.skipped /\ job'.fetched = job.fetched
          /\ job'.notFound = job.notFound /\ job'.errors = job.errors /\ job'.gated = job.gated
          /\ job'.imported = job.imported /\ job'.duplicates = job.duplicates
      BY <1>1, <1>2, <1>5, <1>9 DEF MeshJob
    <2>5. MeshCounted(job', 1)
      BY <1>2, <1>4, <1>6, <1>7, <2>4 DEF MeshCounted, MeshJob
    <2>6. MeshSums'
      BY <2>3, <2>4, <2>5 DEF MeshSums
    <2>7. MeshOneFetch'
      BY <2>2, <2>4 DEF MeshOneFetch
    <2>8. MeshImportTypes'
      BY <1>1, <1>2, <2>1, <2>4 DEF MeshImportTypes
    <2> QED BY <2>1, <2>6, <2>7, <2>8 DEF MeshImportInv
  <1> QED BY <1>8, <1>9 DEF Mesh!ImportFetched

\* A fetch ends when nothing is left to ask for or to import.
LEMMA MeshDoneKeeps ==
  ASSUME Mesh!LimitsOK, MeshImportInv, Mesh!FetchDone
  PROVE  MeshImportInv'
  <1>1. /\ job.pc = "fetch" /\ job.todo = {} /\ job.got = {} /\ UNCHANGED <<copies, imp, state>>
        /\ \A h \in Handlers : imp[h].by # "fetch"
        /\ job' = [job EXCEPT !.pc = "done"]
    BY DEF Mesh!FetchDone
  <1>2. MeshFetching = {} /\ MeshFetching' = MeshFetching /\ job \in MeshJob /\ MeshSums
    BY <1>1 DEF MeshFetching, MeshImportInv, MeshImportTypes
  <1>3. /\ job' \in MeshJob /\ job'.pc = "done"
        /\ job'.todo = job.todo /\ job'.got = job.got /\ job'.asked = job.asked
        /\ job'.skipped = job.skipped /\ job'.fetched = job.fetched
        /\ job'.notFound = job.notFound /\ job'.errors = job.errors /\ job'.gated = job.gated
        /\ job'.imported = job.imported /\ job'.duplicates = job.duplicates
    BY <1>1, <1>2 DEF MeshJob
  <1>4. MeshCounted(job, Mesh!Cardinality(MeshFetching))
    BY <1>1, <1>2 DEF MeshSums
  <1>5. MeshCounted(job', Mesh!Cardinality(MeshFetching'))
    BY <1>2, <1>3, <1>4 DEF MeshCounted
  <1>6. MeshSums'
    BY <1>1, <1>3, <1>5 DEF MeshSums
  <1> QED BY <1>1, <1>2, <1>3, <1>6, MeshJobStep

\* A tombstone changes no copy, only what later plans ask for.
LEMMA MeshTombstoneKeeps ==
  ASSUME Mesh!LimitsOK, MeshImportInv, NEW f \in FedIds, Mesh!Tombstone(f)
  PROVE  MeshImportInv'
  <1>1. state' = [state EXCEPT ![f] = "tombstoned"] /\ UNCHANGED <<copies, imp, job>>
    BY DEF Mesh!Tombstone
  <1>2. MeshImportTypes'
    BY <1>1 DEF MeshImportInv, MeshImportTypes
  <1>3. MeshFetching' = MeshFetching
    BY <1>1 DEF MeshFetching
  <1>4. Mesh!ImportsBounded' /\ MeshOneFetch' /\ MeshSums'
    BY <1>1, <1>3 DEF MeshImportInv, Mesh!ImportsBounded, MeshOneFetch, MeshSums
  <1> QED BY <1>2, <1>4 DEF MeshImportInv

\* Every step of the imports and of the fetch keeps its invariant.
LEMMA MeshImportKeeps ==
  ASSUME Mesh!LimitsOK, MeshImportInv, Mesh!ImportNext
  PROVE  MeshImportInv'
  BY MeshWriteKeeps, MeshFinishKeeps, MeshPlanKeeps, MeshConfirmKeeps, MeshPeerKeeps,
     MeshFetchedKeeps, MeshDoneKeeps,
     MeshTombstoneKeeps DEF Mesh!ImportNext

\* The process dies with the imports of the RPC; the fetch is the command line's.
LEMMA MeshCrashKeepsImports ==
  ASSUME Mesh!LimitsOK, MeshImportInv, Mesh!Crash
  PROVE  MeshImportInv'
  <1>1. /\ imp' = [h \in Handlers |-> IF imp[h].by = "rpc" THEN Mesh!Idle ELSE imp[h]]
        /\ UNCHANGED <<copies, state, job>>
    BY DEF Mesh!Crash
  <1>2. MeshImportTypes /\ Mesh!ImportsBounded /\ MeshOneFetch /\ MeshSums
    BY DEF MeshImportInv
  <1>3. Mesh!Idle \in MeshHandler /\ Mesh!Idle.pc = "idle" /\ Mesh!Idle.by = "rpc"
    BY MeshIdleIs
  <1>4. MeshImportTypes'
    BY <1>1, <1>2, <1>3 DEF MeshImportTypes
  <1>5. MeshFetching' = MeshFetching
    BY <1>1, <1>3 DEF MeshFetching
  <1>6. Mesh!ImportsBounded'
    <2>1. SUFFICES ASSUME NEW e \in FedIds
                   PROVE  copies[e] + Mesh!Cardinality(MeshAdding(e)') <= Mesh!Cardinality(Handlers)
      BY <1>1 DEF Mesh!ImportsBounded, MeshAdding
    <2>2. /\ MeshAdding(e) \in SUBSET Handlers
          /\ copies[e] + Mesh!Cardinality(MeshAdding(e)) <= Mesh!Cardinality(Handlers)
          /\ copies[e] \in Nat
      BY <1>2 DEF Mesh!ImportsBounded, MeshImportTypes, MeshAdding
    <2>3. MeshAdding(e)' \in SUBSET MeshAdding(e)
      BY <1>1, <1>3 DEF MeshAdding
    <2>4. Mesh!IsFiniteSet(MeshAdding(e)) /\ Mesh!Cardinality(MeshAdding(e)) \in Nat
          /\ Mesh!Cardinality(Handlers) \in Nat
      BY <2>2, MeshCounts
    <2>5. Mesh!Cardinality(MeshAdding(e)') \in Nat
          /\ Mesh!Cardinality(MeshAdding(e)') <= Mesh!Cardinality(MeshAdding(e))
      BY <2>3, <2>4, MeshSubset, MeshCardinalityType
    <2> QED BY <2>2, <2>4, <2>5
  <1> QED BY <1>1, <1>2, <1>4, <1>5, <1>6 DEF MeshImportInv, MeshOneFetch, MeshSums

-----------------------------------------------------------------------------
\* What rests keeps its invariant.
LEMMA MeshResting ==
  /\ MeshWalkInv /\ UNCHANGED Mesh!walkVars => MeshWalkInv'
  /\ MeshServerInv /\ UNCHANGED Mesh!serverVars => MeshServerInv'
  /\ MeshImportInv /\ UNCHANGED Mesh!importVars => MeshImportInv'
  <1>1. MeshWalkInv /\ UNCHANGED Mesh!walkVars => MeshWalkInv'
    BY DEF Mesh!walkVars, MeshWalkInv, MeshWalkTypes, MeshBehind, Mesh!CursorCovers,
           Mesh!Exportable, Mesh!EffectiveProjects
  <1>2. MeshServerInv /\ UNCHANGED Mesh!serverVars => MeshServerInv'
    BY DEF Mesh!serverVars, MeshServerInv, Mesh!NoHalfStart
  <1>3. ASSUME MeshImportInv, UNCHANGED Mesh!importVars PROVE MeshImportInv'
    <2>1. UNCHANGED <<copies, imp, state, job>>
      BY <1>3 DEF Mesh!importVars
    <2>2. MeshFetching' = MeshFetching
      BY <2>1 DEF MeshFetching
    <2> QED BY <1>3, <2>1, <2>2 DEF MeshImportInv, MeshImportTypes, Mesh!ImportsBounded,
                                    MeshOneFetch, MeshSums
  <1> QED BY <1>1, <1>2, <1>3

\* Nothing is walked, started, imported or fetched at the start.
LEMMA MeshInitHolds == ASSUME Mesh!LimitsOK, Mesh!Init PROVE MeshIInv
  <1>1. MeshWalkInv
    BY DEF Mesh!Init, Mesh!LimitsOK, MeshWalkInv, MeshWalkTypes, MeshBehind, Mesh!CursorCovers
  <1>2. MeshServerInv
    BY DEF Mesh!Init, MeshServerInv, Mesh!NoHalfStart
  <1>3. Mesh!Idle \in MeshHandler /\ Mesh!Idle.pc = "idle" /\ Mesh!Idle.by = "rpc"
        /\ Mesh!NoJob \in MeshJob /\ Mesh!NoJob.pc = "idle"
    BY MeshIdleIs, MeshNoJobIs
  <1>4. MeshImportTypes
    BY <1>3 DEF Mesh!Init, MeshImportTypes
  <1>5. MeshFetching = {} /\ \A f \in FedIds : MeshAdding(f) = {}
    BY <1>3 DEF Mesh!Init, MeshFetching, MeshAdding
  <1>6. Mesh!Cardinality({}) = 0 /\ Mesh!Cardinality(Handlers) \in Nat
    BY MeshCounts, MeshEmptySet
  <1>7. Mesh!ImportsBounded
    <2>1. SUFFICES ASSUME NEW f \in FedIds
                   PROVE  copies[f] + Mesh!Cardinality(MeshAdding(f)) <= Mesh!Cardinality(Handlers)
      BY DEF Mesh!ImportsBounded, MeshAdding
    <2>2. copies[f] = 0 /\ MeshAdding(f) = {}
      BY <1>5 DEF Mesh!Init
    <2> QED BY <1>6, <2>2
  <1>8. MeshOneFetch /\ MeshSums
    BY <1>3, <1>5 DEF Mesh!Init, MeshOneFetch, MeshSums
  <1> QED BY <1>1, <1>2, <1>4, <1>7, <1>8 DEF MeshIInv, MeshImportInv

\* Every step of the mesh keeps the invariant.
LEMMA MeshStepKeeps == ASSUME Mesh!LimitsOK, MeshIInv, [Mesh!Next]_Mesh!mvars PROVE MeshIInv'
  <1>1. MeshWalkInv /\ MeshServerInv /\ MeshImportInv
    BY DEF MeshIInv
  <1>2. CASE Mesh!WalkNext
    <2>1. MeshWalkInv'
      BY <1>1, <1>2, MeshWalkKeeps
    <2>2. UNCHANGED <<Mesh!serverVars, Mesh!importVars>>
      BY <1>2 DEF Mesh!WalkNext, Mesh!AddRow, Mesh!DeleteRow, Mesh!Retag, Mesh!ListMemories
    <2>3. MeshServerInv' /\ MeshImportInv'
      BY <1>1, <2>2, MeshResting
    <2> QED BY <2>1, <2>3 DEF MeshIInv
  <1>3. CASE Mesh!ServerNext
    <2>1. MeshServerInv'
      BY <1>1, <1>3, MeshServerKeeps
    <2>2. UNCHANGED Mesh!walkVars
      BY <1>3 DEF Mesh!ServerNext, Mesh!Start, Mesh!Stop, Mesh!Crash
    <2>3. UNCHANGED Mesh!importVars \/ Mesh!Crash
      BY <1>3 DEF Mesh!ServerNext, Mesh!Start, Mesh!Stop
    <2>4. MeshWalkInv' /\ MeshImportInv'
      BY <1>1, <2>2, <2>3, MeshResting, MeshCrashKeepsImports
    <2> QED BY <2>1, <2>4 DEF MeshIInv
  <1>4. CASE Mesh!ImportNext
    <2>1. MeshImportInv'
      BY <1>1, <1>4, MeshImportKeeps
    <2>2. UNCHANGED <<Mesh!walkVars, Mesh!serverVars>>
      BY <1>4 DEF Mesh!ImportNext, Mesh!WriteMemory, Mesh!FinishImport, Mesh!Tombstone,
                  Mesh!ResolvePlan, Mesh!Confirm,
                  Mesh!FetchFromPeer, Mesh!ImportFetched, Mesh!FetchDone
    <2>3. MeshWalkInv' /\ MeshServerInv'
      BY <1>1, <2>2, MeshResting
    <2> QED BY <2>1, <2>3 DEF MeshIInv
  <1>5. CASE UNCHANGED Mesh!mvars
    <2>1. UNCHANGED <<Mesh!walkVars, Mesh!serverVars, Mesh!importVars>>
      BY <1>5 DEF Mesh!mvars, Mesh!walkVars, Mesh!serverVars, Mesh!importVars
    <2> QED BY <1>1, <2>1, MeshResting DEF MeshIInv
  <1> QED BY <1>2, <1>3, <1>4, <1>5 DEF Mesh!Next

\* The invariant gives what the mesh promises.
LEMMA MeshPromised == ASSUME Mesh!LimitsOK, MeshIInv PROVE Mesh!MeshSafe
  <1>1. MeshWalkInv /\ MeshServerInv /\ MeshImportTypes /\ Mesh!ImportsBounded /\ MeshOneFetch
        /\ MeshSums
    BY DEF MeshIInv, MeshImportInv
  <1>2. Mesh!DeliveredOnce
    BY <1>1 DEF MeshWalkInv, MeshWalkTypes, Mesh!DeliveredOnce
  <1>3. job \in MeshJob
    BY <1>1 DEF MeshImportTypes
  <1>4. job.pc # "idle" => MeshCounted(job, Mesh!Cardinality(MeshFetching))
    BY <1>1 DEF MeshSums
  <1>5. MeshFetching \in SUBSET Handlers /\ Mesh!Cardinality({}) = 0
    BY MeshEmptySet DEF MeshFetching
  <1>6. PICK t \in Nat, g \in Nat, n \in Nat :
          t = Mesh!Cardinality(job.todo) /\ g = Mesh!Cardinality(job.got)
          /\ n = Mesh!Cardinality(MeshFetching)
    BY <1>3, <1>5, MeshCounts DEF MeshJob
  <1>7. Mesh!FetchAccountsForAll
    <2>1. SUFFICES ASSUME job.pc = "done"
                   PROVE  job.skipped + job.notFound + job.errors + job.imported
                            + job.duplicates + job.gated = job.asked
      BY DEF Mesh!FetchAccountsForAll
    <2>2. job.todo = {} /\ job.got = {} /\ MeshFetching = {}
      BY <1>1, <2>1 DEF MeshSums, MeshOneFetch
    <2>3. MeshCounted(job, 0) /\ t = 0 /\ g = 0
      BY <1>4, <1>5, <1>6, <2>1, <2>2
    <2> QED BY <1>3, <1>6, <2>3 DEF MeshCounted, MeshJob
  <1>8. \A c \in Mesh!Counters : job[c] \in 0..Mesh!Cardinality(FedIds)
    <2>1. Mesh!Cardinality(FedIds) \in Nat
      BY MeshCounts
    <2>2. CASE job.pc = "idle"
      <3>1. job = Mesh!NoJob
        BY <1>1, <2>2 DEF MeshSums
      <3> QED BY <2>1, <3>1 DEF Mesh!NoJob, Mesh!Counters
    <2>3. CASE job.pc # "idle"
      <3>1. MeshCounted(job, n)
        BY <1>4, <1>6, <2>3
      <3>2. /\ job.asked <= Mesh!Cardinality(FedIds) /\ job.skipped <= job.asked
            /\ job.notFound <= job.asked /\ job.errors <= job.asked
            /\ job.imported <= job.asked /\ job.duplicates <= job.asked
            /\ job.gated <= job.asked /\ job.fetched <= job.asked
        BY <1>3, <1>6, <3>1 DEF MeshCounted, MeshJob
      <3>3. /\ job.asked \in Nat /\ job.skipped \in Nat /\ job.notFound \in Nat
            /\ job.errors \in Nat /\ job.imported \in Nat /\ job.duplicates \in Nat
            /\ job.gated \in Nat /\ job.fetched \in Nat
        BY <1>3 DEF MeshJob
      <3> QED BY <2>1, <3>2, <3>3 DEF Mesh!Counters
    <2> QED BY <2>2, <2>3
  <1>9. \A r \in 1..MaxRowid : delivered[r] \in 0..2
    BY <1>1 DEF MeshWalkInv, MeshWalkTypes
  <1>10. Mesh!TypeOK
    <2>1. delivered \in [1..MaxRowid -> 0..2]
      BY <1>1, <1>9 DEF MeshWalkInv, MeshWalkTypes
    <2>2. \A h \in Handlers : imp[h].pc \in {"idle", "found"} /\ imp[h].rec \in FedIds
      BY <1>1 DEF MeshImportTypes, MeshHandler
    <2>3. job.pc \in {"idle", "confirm", "fetch", "done"} /\ job.todo \subseteq FedIds
      BY <1>3 DEF MeshJob
    <2> QED BY <1>1, <1>8, <2>1, <2>2, <2>3 DEF Mesh!TypeOK, MeshWalkInv, MeshWalkTypes,
                                                MeshServerInv, MeshImportTypes
  <1> QED BY <1>1, <1>2, <1>7, <1>10 DEF Mesh!MeshSafe, MeshWalkInv, MeshServerInv

\* A walk of the pages without gap or repeat, a start of both legs or none, no more
\* copies of a record than handlers, and a finished fetch that accounts for every id:
\* for any rows, page sizes, ids and handlers, with restarts, lost answers, deletions
\* and tombstones between any two steps of the mesh server and the lazy fetch.
THEOREM MeshSafety == Mesh!LimitsOK => (Mesh!Spec => []Mesh!MeshSafe)
  <1> SUFFICES ASSUME Mesh!LimitsOK PROVE Mesh!Spec => []Mesh!MeshSafe
    OBVIOUS
  <1>1. Mesh!Init => MeshIInv
    BY MeshInitHolds
  <1>2. MeshIInv /\ [Mesh!Next]_Mesh!mvars => MeshIInv'
    BY MeshStepKeeps
  <1>3. MeshIInv => Mesh!MeshSafe
    BY MeshPromised
  <1> QED BY <1>1, <1>2, <1>3, PTL DEF Mesh!Spec

-----------------------------------------------------------------------------
(* The stored results of context assembly.                                 *)

\* The registry is a sequence of at most AsyncCap results.
AssemblyIInv == registry \in Seq(Assembly!Range(registry)) /\ Len(registry) <= AsyncCap

\* A result that is stored comes last, and only a full registry gives up its oldest.
LEMMA AssemblyStoredKeeps ==
  ASSUME Assembly!LimitsOK, AssemblyIInv, NEW r, registry' = Assembly!Stored(r)
  PROVE  AssemblyIInv' /\ Assembly!HandleStep
  <1> DEFINE S == Assembly!Range(registry) \cup {r}
             all == Append(registry, r)
             n == Len(registry)
  <1>1. registry \in Seq(S) /\ n \in Nat /\ n <= AsyncCap /\ AsyncCap \in Nat
    <2>1. registry \in Seq(Assembly!Range(registry)) /\ Assembly!Range(registry) \subseteq S
      BY DEF AssemblyIInv
    <2> HIDE DEF S
    <2> QED BY <2>1 DEF AssemblyIInv, Assembly!LimitsOK
  <1> HIDE DEF S
  <1>2. /\ all \in Seq(S \cup {r}) /\ Len(all) = n + 1 /\ all[n + 1] = r
        /\ \A i \in 1..n : all[i] = registry[i]
    BY <1>1
  <1>3. registry' = IF n + 1 > AsyncCap THEN Tail(all) ELSE all
    BY <1>2 DEF Assembly!Stored
  <1> HIDE DEF all
  <1>4. CASE n + 1 > AsyncCap
    <2>1. /\ registry' \in Seq(S \cup {r}) /\ Len(registry') = n
          /\ \A i \in 1..n : registry'[i] = all[i + 1]
      BY <1>1, <1>2, <1>3, <1>4
    <2>2. n = AsyncCap
      BY <1>1, <1>4
    <2>3. ASSUME NEW i \in 1..n, i # 1 PROVE registry[i] \in Assembly!Range(registry')
      <3>1. i - 1 \in 1..n /\ registry'[i - 1] = registry[i]
        BY <1>1, <1>2, <2>1, <2>3
      <3>2. i - 1 \in DOMAIN registry'
        BY <1>1, <2>1, <3>1
      <3> QED BY <3>1, <3>2 DEF Assembly!Range
    <2>4. Assembly!HandleStep
      <3>1. DOMAIN registry = 1..n
        BY <1>1
      <3> QED BY <2>1, <2>2, <2>3, <3>1 DEF Assembly!HandleStep
    <2>5. registry' \in Seq(Assembly!Range(registry'))
      <3>1. \A i \in 1..n : registry'[i] \in Assembly!Range(registry')
        BY <2>1 DEF Assembly!Range
      <3> QED BY <1>1, <2>1, <3>1
    <2> QED BY <1>1, <2>1, <2>4, <2>5 DEF AssemblyIInv
  <1>5. CASE ~(n + 1 > AsyncCap)
    <2>1. registry' = all /\ n + 1 <= AsyncCap
      BY <1>1, <1>3, <1>5
    <2>2. ASSUME NEW i \in 1..n PROVE registry[i] \in Assembly!Range(registry')
      <3>1. i \in DOMAIN registry' /\ registry'[i] = registry[i]
        BY <1>1, <1>2, <2>1
      <3> QED BY <3>1 DEF Assembly!Range
    <2>3. Assembly!HandleStep
      <3>1. DOMAIN registry = 1..n
        BY <1>1
      <3> QED BY <2>2, <3>1 DEF Assembly!HandleStep
    <2>4. registry' \in Seq(Assembly!Range(registry'))
      <3>1. \A i \in 1..Len(registry') : registry'[i] \in Assembly!Range(registry')
        BY <1>2, <2>1 DEF Assembly!Range
      <3> QED BY <1>2, <2>1, <3>1
    <2> QED BY <1>2, <2>1, <2>3, <2>4 DEF AssemblyIInv
  <1> QED BY <1>4, <1>5

\* Where an element past the one removed comes from.
LEMMA AssemblyOffset ==
  ASSUME NEW n \in Nat, NEW k \in 1..n, NEW i \in 1..n - 1, ~(i < k)
  PROVE  i - (k - 1) \in 1..n - k /\ ~(i <= k - 1) /\ k + (i - (k - 1)) = i + 1
  OBVIOUS

\* A fetch that succeeds takes its own result, the others stay.
LEMMA AssemblyFetchKeeps ==
  ASSUME Assembly!LimitsOK, AssemblyIInv, NEW k \in DOMAIN registry,
         NEW s \in Sessions, Assembly!FetchAsync(k, s)
  PROVE  AssemblyIInv' /\ Assembly!HandleStep
  <1> DEFINE n == Len(registry)
  <1>1. registry \in Seq(Assembly!Range(registry)) /\ n \in Nat /\ n <= AsyncCap /\ AsyncCap \in Nat
        /\ DOMAIN registry = 1..n
    BY DEF AssemblyIInv, Assembly!LimitsOK
  <1>2. CASE registry[k].session # s
    <2>1. registry' = registry
      BY <1>2 DEF Assembly!FetchAsync
    <2>2. Assembly!HandleStep
      BY <2>1 DEF Assembly!HandleStep, Assembly!Range
    <2> QED BY <2>1, <2>2 DEF AssemblyIInv
  <1>3. CASE registry[k].session = s
    <2>1. delivery' = registry[k] /\ registry' = Assembly!RemoveAt(registry, k)
      BY <1>3 DEF Assembly!FetchAsync
    <2> DEFINE R == Assembly!Range(registry)
    <2>2. k \in 1..n /\ registry \in Seq(R)
      BY <1>1
    <2> HIDE DEF R
    <2>3. /\ registry' \in Seq(R) /\ Len(registry') = n - 1
          /\ \A i \in 1..n - 1 : registry'[i] = IF i < k THEN registry[i] ELSE registry[i + 1]
      <3>1. registry' = SubSeq(registry, 1, k - 1) \o SubSeq(registry, k + 1, n)
        BY <2>1 DEF Assembly!RemoveAt
      <3>2. /\ SubSeq(registry, 1, k - 1) \in Seq(R) /\ Len(SubSeq(registry, 1, k - 1)) = k - 1
            /\ \A i \in 1..k - 1 : SubSeq(registry, 1, k - 1)[i] = registry[i]
        BY <1>1, <2>2
      <3>3. /\ SubSeq(registry, k + 1, n) \in Seq(R) /\ Len(SubSeq(registry, k + 1, n)) = n - k
            /\ \A i \in 1..n - k : SubSeq(registry, k + 1, n)[i] = registry[k + i]
        BY <1>1, <2>2
      <3> DEFINE a == SubSeq(registry, 1, k - 1)
                 b == SubSeq(registry, k + 1, n)
      <3> HIDE DEF a, b
      <3>4. registry' = a \o b /\ a \in Seq(R) /\ b \in Seq(R) /\ Len(a) = k - 1 /\ Len(b) = n - k
            /\ (\A i \in 1..k - 1 : a[i] = registry[i]) /\ (\A i \in 1..n - k : b[i] = registry[k + i])
        BY <3>1, <3>2, <3>3 DEF a, b
      <3>5. registry' \in Seq(R) /\ Len(registry') = Len(a) + Len(b)
            /\ \A i \in 1..Len(a) + Len(b) : registry'[i] = IF i <= Len(a) THEN a[i] ELSE b[i - Len(a)]
        BY <3>4
      <3>6. Len(a) + Len(b) = n - 1
        BY <1>1, <2>2, <3>4
      <3>7. ASSUME NEW i \in 1..n - 1
            PROVE  registry'[i] = IF i < k THEN registry[i] ELSE registry[i + 1]
        <4>1. CASE i < k
          <5>1. i \in 1..k - 1 /\ i <= Len(a) /\ i \in 1..Len(a) + Len(b)
            BY <1>1, <2>2, <3>4, <3>6, <4>1
          <5>2. registry'[i] = a[i] /\ a[i] = registry[i]
            BY <3>4, <3>5, <5>1
          <5> QED BY <4>1, <5>2
        <4>2. CASE ~(i < k)
          <5>1. i - Len(a) \in 1..n - k /\ ~(i <= Len(a)) /\ i \in 1..Len(a) + Len(b)
                /\ k + (i - Len(a)) = i + 1
            <6>1. /\ i - (k - 1) \in 1..n - k /\ ~(i <= k - 1) /\ k + (i - (k - 1)) = i + 1
              BY <1>1, <2>2, <4>2, AssemblyOffset
            <6> QED BY <3>4, <3>6, <6>1
          <5>2. registry'[i] = b[i - Len(a)]
            BY <3>5, <5>1
          <5>3. b[i - Len(a)] = registry[k + (i - Len(a))]
            BY <3>4, <5>1
          <5> QED BY <4>2, <5>1, <5>2, <5>3
        <4> QED BY <4>1, <4>2
      <3> QED BY <3>5, <3>6, <3>7
    <2>4. ASSUME NEW i \in 1..n, i # k PROVE registry[i] \in Assembly!Range(registry')
      <3>1. PICK j \in 1..n - 1 : registry'[j] = registry[i]
        <4>1. CASE i < k
          <5>1. i \in 1..n - 1
            BY <1>1, <2>2, <4>1
          <5> QED BY <2>3, <4>1, <5>1
        <4>2. CASE ~(i < k)
          <5>1. i - 1 \in 1..n - 1 /\ ~(i - 1 < k) /\ (i - 1) + 1 = i
            BY <1>1, <2>2, <2>4, <4>2
          <5> QED BY <2>3, <5>1
        <4> QED BY <4>1, <4>2
      <3>2. j \in DOMAIN registry'
        BY <2>3
      <3> QED BY <3>1, <3>2 DEF Assembly!Range
    <2>5. Assembly!HandleStep
      BY <1>1, <2>1, <2>4 DEF Assembly!HandleStep
    <2>6. registry' \in Seq(Assembly!Range(registry'))
      <3>1. \A i \in 1..Len(registry') : registry'[i] \in Assembly!Range(registry')
        BY <2>3 DEF Assembly!Range
      <3> QED BY <2>3, <3>1
    <2> QED BY <1>1, <2>3, <2>5, <2>6 DEF AssemblyIInv
  <1> QED BY <1>2, <1>3

\* Every other step leaves the registry.
LEMMA AssemblyStepKeeps ==
  ASSUME Assembly!LimitsOK, AssemblyIInv, [Assembly!Next]_Assembly!avars
  PROVE  AssemblyIInv' /\ [Assembly!HandleStep]_Assembly!avars
  <1>1. ASSUME registry' = registry PROVE AssemblyIInv' /\ Assembly!HandleStep
    <2>1. Assembly!HandleStep
      BY <1>1 DEF Assembly!HandleStep, Assembly!Range
    <2> QED BY <1>1, <2>1 DEF AssemblyIInv
  <1>2. ASSUME NEW t \in Drafters, NEW call, Assembly!Assemble(t, call) PROVE registry' = registry
    BY <1>2 DEF Assembly!Assemble
  <1>3. ASSUME NEW t \in Drafters, Assembly!Search(t) \/ Assembly!RecallLanes(t) \/ Assembly!ExpandMarkers(t)
        PROVE  registry' = registry
    BY <1>3 DEF Assembly!Search, Assembly!RecallLanes, Assembly!ExpandMarkers
  <1>4. ASSUME NEW t \in Drafters, NEW refused, Assembly!Deliver(t, refused)
        PROVE  registry' = registry \/ \E r : registry' = Assembly!Stored(r)
    BY <1>4 DEF Assembly!Deliver
  <1>5. ASSUME NEW m \in Mems, NEW to, Assembly!Withdraw(m) \/ Assembly!Retag(m, to)
        PROVE  registry' = registry
    BY <1>5 DEF Assembly!Withdraw, Assembly!Retag
  <1>6. UNCHANGED Assembly!avars => registry' = registry
    BY DEF Assembly!avars
  <1> QED BY <1>1, <1>2, <1>3, <1>4, <1>5, <1>6, AssemblyStoredKeeps,
             AssemblyFetchKeeps DEF Assembly!Next

\* No result is stored at the start.
LEMMA AssemblyInitHolds == ASSUME Assembly!LimitsOK, Assembly!Init PROVE AssemblyIInv
  <1>1. registry = <<>>
    BY DEF Assembly!Init
  <1>2. registry \in Seq(Assembly!Range(registry)) /\ Len(registry) = 0
    BY <1>1
  <1> QED BY <1>2 DEF AssemblyIInv, Assembly!LimitsOK

\* For any cap and sessions a stored result leaves the registry only by its own
\* session's fetch, or pushed out as the oldest of a full registry.
THEOREM HandlesKept == Assembly!LimitsOK => (Assembly!Spec => [][Assembly!HandleStep]_Assembly!avars)
  <1> SUFFICES ASSUME Assembly!LimitsOK PROVE Assembly!Spec => [][Assembly!HandleStep]_Assembly!avars
    OBVIOUS
  <1>1. Assembly!Init => AssemblyIInv
    BY AssemblyInitHolds
  <1>2. AssemblyIInv /\ [Assembly!Next]_Assembly!avars => AssemblyIInv' /\ [Assembly!HandleStep]_Assembly!avars
    BY AssemblyStepKeeps
  <1> QED BY <1>1, <1>2, PTL DEF Assembly!Spec

-----------------------------------------------------------------------------
(* The composition: a behaviour of MCSpec is one of every component.       *)

\* A step of the composition is a step of each component, or leaves it alone.
LEMMA SuiteSteps ==
  ASSUME [MCNext]_suite
  PROVE  /\ [Next]_vars /\ [Assembly!Next]_(Assembly!avars) /\ [Rewrite!Next]_(Rewrite!rvars)
         /\ [Pull!Next]_(Pull!pvars) /\ [Mesh!Next]_(Mesh!mvars)
  <1>1. \/ UNCHANGED suite
        \/ MCNext
    OBVIOUS
  <1>2. (UNCHANGED vars) \/ Next
    BY <1>1 DEF suite, MCNext
  <1>3. (UNCHANGED assembly) \/ Assembly!Next
    BY <1>1 DEF suite, MCNext
  <1>4. (UNCHANGED rewrite) \/ Rewrite!Next
    BY <1>1 DEF suite, MCNext
  <1>5. (UNCHANGED pull) \/ Pull!Next
    BY <1>1 DEF suite, MCNext
  <1>6. (UNCHANGED mesh) \/ Mesh!Next
    BY <1>1 DEF suite, MCNext, Mesh!Next
  <1>7. /\ UNCHANGED assembly => UNCHANGED Assembly!avars
        /\ UNCHANGED rewrite => UNCHANGED Rewrite!rvars
        /\ UNCHANGED pull => UNCHANGED Pull!pvars
        /\ UNCHANGED mesh => UNCHANGED Mesh!mvars
    BY DEF assembly, rewrite, pull, mesh, Assembly!avars, Rewrite!rvars, Pull!pvars, Mesh!mvars
  <1> QED BY <1>2, <1>3, <1>4, <1>5, <1>6, <1>7

\* A behaviour of the composition is one of every component.
LEMMA SuiteBehaviours ==
  MCSpec => Spec /\ Assembly!Spec /\ Rewrite!Spec /\ Pull!Spec /\ Mesh!Spec
  <1>1. MCInit => Init /\ Assembly!Init /\ Rewrite!Init /\ Pull!Init /\ Mesh!Init
    BY DEF MCInit
  <1>2. [MCNext]_suite =>
          /\ [Next]_vars /\ [Assembly!Next]_(Assembly!avars) /\ [Rewrite!Next]_(Rewrite!rvars)
          /\ [Pull!Next]_(Pull!pvars) /\ [Mesh!Next]_(Mesh!mvars)
    BY SuiteSteps
  <1> QED BY <1>1, <1>2, PTL DEF MCSpec, Spec, Assembly!Spec, Rewrite!Spec, Pull!Spec, Mesh!Spec

\* What the rewrites promise holds in the composition.
THEOREM ExchangeRewrites == MCSpec => []RewriteSafe
  <1>1. Rewrite!Spec => []Rewrite!RewriteSafe
    BY RewriteSafety, ExchangeAssumption, PTL
  <1>2. Rewrite!RewriteSafe => RewriteSafe
    BY DEF RewriteSafe
  <1> QED BY <1>1, <1>2, SuiteBehaviours, PTL

\* What the pull, the walk, the imports and the fetch promise holds in the composition.
THEOREM ExchangeFederation == MCSpec => []FederationSafe
  <1>1. Pull!Spec => []Pull!PullSafe
    BY PullSafety, ExchangeAssumption, PTL
  <1>2. Mesh!Spec => []Mesh!MeshSafe
    BY MeshSafety, ExchangeAssumption, PTL
  <1>3. Pull!PullSafe /\ Mesh!MeshSafe => FederationSafe
    BY DEF FederationSafe
  <1> QED BY <1>1, <1>2, <1>3, SuiteBehaviours, PTL

\* No step of the composition passes a marker on, issues what is quarantined, loses a
\* stored result or ships a no-federate record.
THEOREM ExchangeStepsHold == MCSpec => ExchangeSteps
  <1>1. Assembly!Spec => [][Assembly!HandleStep]_(Assembly!avars)
    BY HandlesKept, ExchangeAssumption, PTL
  <1>2. Pull!Spec => [][Pull!NoFederateStep]_(Pull!pvars)
    BY PullSafety, ExchangeAssumption, PTL
  <1>3. ASSUME [MCNext]_suite, [IssuerStep /\ WithholdStep]_vars,
               [Assembly!HandleStep]_(Assembly!avars), [Pull!NoFederateStep]_(Pull!pvars)
        PROVE  [/\ which = "cache" => IssuerStep /\ WithholdStep
                /\ which = "assembly" => Assembly!HandleStep
                /\ which = "pull" => Pull!NoFederateStep]_suite
    <2>1. /\ UNCHANGED Assembly!avars => UNCHANGED assembly
          /\ UNCHANGED Pull!pvars => UNCHANGED pull
      BY DEF assembly, pull, Assembly!avars, Pull!pvars
    <2>2. CASE UNCHANGED suite
      BY <2>2
    <2>3. CASE MCNext /\ ~UNCHANGED suite
      <3>1. which = "cache" => ~UNCHANGED vars
        BY <2>3 DEF suite, MCNext
      <3>2. which = "assembly" => ~UNCHANGED assembly
        BY <2>3 DEF suite, MCNext
      <3>3. which = "pull" => ~UNCHANGED pull
        BY <2>3 DEF suite, MCNext
      <3> QED BY <1>3, <2>1, <3>1, <3>2, <3>3
    <2> QED BY <1>3, <2>2, <2>3
  <1> QED BY <1>1, <1>2, <1>3, CacheSteps, SuiteBehaviours, PTL DEF ExchangeSteps, MCSpec
=============================================================================
