------------------------ MODULE MalusRegistryProofs ------------------------
(***************************************************************************)
(* What protects validators from false reports, and what a malus does, for *)
(* any number of nodes, validators, weights, blocks, reports and epochs.   *)
(*                                                                         *)
(* Two inductive invariants.  EvidenceInv keeps the two kinds of blocks    *)
(* apart: a block of main and a side block differ because a miner proposes *)
(* once in a round (~ProposedAt) and a second block of its own for the     *)
(* round has twin 2; a miner stores its own side blocks.  Without these    *)
(* facts a refused block might come back under another title.              *)
(*                                                                         *)
(* BookInv remembers of each honest block how its delay came about: there  *)
(* are accumulators made by the reports it counted, its weight under them  *)
(* is not 0, and its offset is the delay they give (SetByCount).  This     *)
(* speaks of the chain only, so it stands when main grows and whatever     *)
(* another node has read.  Whether that node sees the same bar, or an      *)
(* easier one, is then a matter of comparing two sets of reports.          *)
(*                                                                         *)
(* Between the two stands what a malus amounts to: the powers by which it  *)
(* decays, the effective weight, the points of a set of reports, the       *)
(* accumulators and the search for the epoch in which an exclusion ends.   *)
(* The powers, the pass over the epochs and the search are recursive       *)
(* functions, and each is treated alike: a function that satisfies the     *)
(* recursion exists, and any two agree.  AccBy says of some accumulators   *)
(* that a given set of reports made them, without naming the node that     *)
(* counted; more reports make larger accumulators, and blocks that come    *)
(* later do not change what was counted.                                   *)
(***************************************************************************)
EXTENDS MalusRegistry, ArithmeticLemmas

USE Zenon

OnMain == {main[i] : i \in 1 .. Len(main)}
Published == sides \cup OnMain

\* What a report names, by its kind.
Sound(r) ==
    \/ r.kind = "equiv" /\ \E b, c : r.blocks = {b, c}
    \/ r.kind = "delay"
    \/ r.kind \notin {"equiv", "delay"} /\ r.blocks = {}

AllSound(seq) == \A i \in 1 .. Len(seq) : Sound(seq[i])

SequencesInv ==
    /\ \E S : main \in Seq(S)
    /\ \E S : pool \in Seq(S)

PlacesInv ==
    /\ tip \in [Node -> 0 .. Len(main)]
    /\ stored \in [Node -> SUBSET sides]
    /\ failed \in [Node -> SUBSET Published]

MainInv ==
    \A i \in 1 .. Len(main) :
        /\ main[i].by \in Validator
        /\ main[i].height = i
        /\ main[i].twin = 1
        /\ main[i].item.by \subseteq Faulty
        /\ AllSound(main[i].reports)

SidesInv ==
    /\ \A b \in sides : b.by \in Validator /\ b \in stored[b.by]
    /\ sides \cap OnMain = {}

\* Two blocks of one validator for one round are the work of a faulty one.
OneBlockARound ==
    \A b, c \in Published :
        b.by = c.by /\ b.height = c.height /\ b # c => b.by \in Faulty

RefusedIsNotHeld == \A n \in Node : failed[n] \cap HaveData(n) = {}

EvidenceInv ==
    /\ SequencesInv
    /\ PlacesInv
    /\ MainInv
    /\ SidesInv
    /\ AllSound(pool)
    /\ OneBlockARound
    /\ RefusedIsNotHeld

-----------------------------------------------------------------------------
(* Facts about sequences. *)

\* What appending an element does to a sequence of whatever.
LEMMA Appended ==
    ASSUME NEW S, NEW s \in Seq(S), NEW x
    PROVE  /\ Append(s, x) \in Seq(S \cup {x})
           /\ Len(s) \in Nat
           /\ Len(Append(s, x)) = Len(s) + 1
           /\ \A i \in 1 .. Len(s) : Append(s, x)[i] = s[i]
           /\ Append(s, x)[Len(s) + 1] = x
<1>1. s \in Seq(S \cup {x})
  BY SMT
<1>. QED  BY <1>1, SMT

-----------------------------------------------------------------------------
(* The steps. *)

\* A step that leaves main and the pool alone.
LEMMA QuietReports ==
    ASSUME EvidenceInv, UNCHANGED <<main, pool>>
    PROVE  SequencesInv' /\ MainInv' /\ AllSound(pool)'
<1>1. SequencesInv'
  BY DEF EvidenceInv, SequencesInv
<1>2. MainInv'
  <2>1. \A i \in 1 .. Len(main') :
           /\ main'[i].by \in Validator
           /\ main'[i].height = i
           /\ main'[i].twin = 1
           /\ main'[i].item.by \subseteq Faulty
           /\ AllSound(main'[i].reports)
    BY DEF EvidenceInv, MainInv
  <2>. QED  BY <2>1 DEF MainInv, AllSound, Sound
<1>3. AllSound(pool)'
  <2>1. AllSound(pool')
    BY DEF EvidenceInv
  <2>. QED  BY <2>1 DEF AllSound, Sound
<1>. QED  BY <1>1, <1>2, <1>3

\* A miner extends main.
LEMMA MainBlockKeepsInv ==
    ASSUME EvidenceInv, NEW v \in Validator, NEW m,
           main' = Append(main, m),
           tip[v] = Len(main),
           tip' = [tip EXCEPT ![v] = Len(main) + 1],
           m.by = v, m.height = Len(main) + 1, m.twin = 1,
           m.item.by \subseteq Faulty, AllSound(m.reports),
           ~ProposedAt(v, Len(main) + 1),
           pool' = pool \/ pool' = << >>,
           UNCHANGED <<sides, stored, failed>>
    PROVE  EvidenceInv'
<1>. DEFINE h == Len(main) + 1
<1>0. v \in Node
  BY MalusAssumption
<1>1. /\ \E S : main' \in Seq(S)
      /\ Len(main) \in Nat
      /\ Len(main') = h
      /\ \A i \in 1 .. Len(main) : main'[i] = main[i]
      /\ main'[h] = m
  <2>1. PICK S : main \in Seq(S)
    BY DEF EvidenceInv, SequencesInv
  <2>2. /\ main' \in Seq(S \cup {m})
        /\ Len(main) \in Nat
        /\ Len(main') = h
        /\ \A i \in 1 .. Len(main) : main'[i] = main[i]
        /\ main'[h] = m
    BY <2>1, Appended, SMT
  <2>. QED  BY <2>2
<1>2. OnMain' = OnMain \cup {m}
  BY <1>1, SMT DEF OnMain
<1>3. Published' = Published \cup {m} /\ m \notin Published
  <2>1. Published' = Published \cup {m}
    BY <1>2 DEF Published
  <2>2. m \notin Published
    BY DEF Published, OnMain, ProposedAt
  <2>. QED  BY <2>1, <2>2
<1>4. SequencesInv'
  <2>1. CASE pool' = pool
    BY <1>1, <2>1 DEF EvidenceInv, SequencesInv
  <2>2. CASE pool' = << >>
    BY <1>1, <2>2, SMT DEF SequencesInv
  <2>. QED  BY <2>1, <2>2
<1>5. PlacesInv'
  <2>1. tip' \in [Node -> 0 .. Len(main')]
    BY <1>0, <1>1, SMT DEF EvidenceInv, PlacesInv
  <2>2. stored' \in [Node -> SUBSET sides'] /\ failed' \in [Node -> SUBSET Published']
    BY <1>3 DEF EvidenceInv, PlacesInv
  <2>. QED  BY <2>1, <2>2 DEF PlacesInv
<1>6. MainInv'
  <2>1. ASSUME NEW i \in 1 .. Len(main')
        PROVE  /\ main'[i].by \in Validator
               /\ main'[i].height = i
               /\ main'[i].twin = 1
               /\ main'[i].item.by \subseteq Faulty
               /\ AllSound(main'[i].reports)
    BY <1>1, SMT DEF EvidenceInv, MainInv
  <2>. QED  BY <2>1 DEF MainInv, AllSound, Sound
<1>7. SidesInv'
  BY <1>2, <1>3 DEF EvidenceInv, SidesInv, Published
<1>8. AllSound(pool)'
  <2>1. AllSound(pool')
    <3>1. AllSound(<< >>)
      BY SMT DEF AllSound
    <3>. QED  BY <3>1 DEF EvidenceInv
  <2>. QED  BY <2>1 DEF AllSound, Sound
<1>9. OneBlockARound'
  <2>1. ASSUME NEW b \in Published, b.by = v, b.height = h PROVE FALSE
    BY <2>1 DEF Published, OnMain, ProposedAt
  <2>. QED  BY <1>3, <2>1, SMT DEF EvidenceInv, OneBlockARound
<1>10. RefusedIsNotHeld'
  <2>. SUFFICES ASSUME NEW n \in Node PROVE (failed[n] \cap HaveData(n) = {})'
    BY DEF RefusedIsNotHeld
  <2>1. tip[n] \in 0 .. Len(main)
    BY DEF EvidenceInv, PlacesInv
  <2>2. {main'[i] : i \in 1 .. tip[n]} = {main[i] : i \in 1 .. tip[n]}
    BY <1>1, <2>1, SMT
  <2>3. HaveData(n)' \subseteq HaveData(n) \cup {m}
    <3>1. CASE n = v
      <4>1. tip'[n] = h
        BY <3>1, <1>0 DEF EvidenceInv, PlacesInv
      <4>. QED  BY <1>1, <3>1, <4>1, SMT DEF HaveData, Connected
    <3>2. CASE n # v
      <4>1. tip'[n] = tip[n]
        BY <3>2 DEF EvidenceInv, PlacesInv
      <4>. QED  BY <4>1, <2>2 DEF HaveData, Connected
    <3>. QED  BY <3>1, <3>2
  <2>4. m \notin failed[n]
    BY <1>3 DEF EvidenceInv, PlacesInv
  <2>. QED  BY <2>3, <2>4 DEF EvidenceInv, RefusedIsNotHeld
<1>. QED  BY <1>4, <1>5, <1>6, <1>7, <1>8, <1>9, <1>10 DEF EvidenceInv

\* A side block is published and stored by its miner.
LEMMA SideBlockKeepsInv ==
    ASSUME EvidenceInv, NEW v \in Validator, NEW b,
           sides' = sides \cup {b},
           stored' = [stored EXCEPT ![v] = @ \cup {b}],
           b.by = v,
           ~ProposedAt(v, b.height) \/ (v \in Faulty /\ b.twin = 2),
           UNCHANGED <<main, tip, failed, pool>>
    PROVE  EvidenceInv'
<1>0. v \in Node
  BY MalusAssumption
<1>1. b \notin OnMain
  BY SMT DEF EvidenceInv, MainInv, OnMain, ProposedAt
<1>2. OnMain' = OnMain /\ Published' = Published \cup {b}
  BY DEF OnMain, Published
<1>3. /\ stored'[v] = stored[v] \cup {b}
      /\ \A n \in Node : n # v => stored'[n] = stored[n]
  BY <1>0 DEF EvidenceInv, PlacesInv
<1>4. SequencesInv' /\ MainInv' /\ AllSound(pool)'
  BY QuietReports
<1>5. PlacesInv'
  BY <1>0, <1>2 DEF EvidenceInv, PlacesInv
<1>6. SidesInv'
  <2>1. ASSUME NEW c \in sides' PROVE c.by \in Validator /\ c \in stored'[c.by]
    <3>1. CASE c = b
      BY <3>1, <1>3
    <3>2. CASE c \in sides
      <4>1. c.by \in Validator /\ c.by \in Node /\ c \in stored[c.by]
        BY <3>2, MalusAssumption DEF EvidenceInv, SidesInv
      <4>. QED  BY <4>1, <1>3
    <3>. QED  BY <3>1, <3>2
  <2>2. sides' \cap OnMain' = {}
    BY <1>1, <1>2 DEF EvidenceInv, SidesInv
  <2>. QED  BY <2>1, <2>2 DEF SidesInv
<1>7. OneBlockARound'
  <2>1. CASE v \in Faulty
    BY <1>2, <2>1 DEF EvidenceInv, OneBlockARound
  <2>2. CASE ~ProposedAt(v, b.height)
    <3>1. ASSUME NEW c \in Published, c.by = v, c.height = b.height PROVE FALSE
      BY <2>2, <3>1 DEF Published, OnMain, ProposedAt
    <3>. QED  BY <1>2, <3>1 DEF EvidenceInv, OneBlockARound
  <2>. QED  BY <2>1, <2>2
<1>8. RefusedIsNotHeld'
  <2>1. b \notin failed[v]
    <3>1. SUFFICES ASSUME b \in failed[v] PROVE FALSE
      OBVIOUS
    <3>2. b \in sides
      BY <1>0, <1>1, <3>1 DEF EvidenceInv, PlacesInv, Published
    <3>3. b \in stored[v]
      BY <3>2 DEF EvidenceInv, SidesInv
    <3>. QED  BY <1>0, <3>1, <3>3 DEF EvidenceInv, RefusedIsNotHeld, HaveData
  <2>2. ASSUME NEW n \in Node PROVE (failed[n] \cap HaveData(n) = {})'
    <3>1. Connected(n)' = Connected(n)
      BY DEF Connected
    <3>2. failed[n] \cap (Connected(n) \cup stored[n]) = {}
      BY DEF EvidenceInv, RefusedIsNotHeld, HaveData
    <3>3. failed[n] \cap stored'[n] = {}
      BY <1>3, <2>1, <3>2, SMT
    <3>. QED  BY <3>1, <3>2, <3>3 DEF HaveData
  <2>. QED  BY <2>2 DEF RefusedIsNotHeld
<1>. QED  BY <1>4, <1>5, <1>6, <1>7, <1>8 DEF EvidenceInv

\* A node judges a block that arrives: one of main, next to its tip, or a
\* side block it neither holds nor refused.
LEMMA JudgedBlockKeepsInv ==
    ASSUME EvidenceInv, NEW n \in Node, NEW b, AcceptBlock(n, b),
           \/ /\ tip[n] < Len(main)
              /\ b = main[tip[n] + 1]
              /\ Follows(n)
           \/ b \in sides \ (stored[n] \cup failed[n]),
           UNCHANGED <<main, sides, pool>>
    PROVE  EvidenceInv'
<1>1. PICK S : main \in Seq(S)
  BY DEF EvidenceInv, SequencesInv
<1>2. Len(main) \in Nat /\ tip[n] \in 0 .. Len(main)
  BY <1>1, SMT DEF EvidenceInv, PlacesInv
<1>3. OnMain' = OnMain /\ Published' = Published
  BY DEF OnMain, Published
<1>4. SequencesInv' /\ MainInv' /\ AllSound(pool)'
  BY QuietReports
<1>5. OneBlockARound'
  BY <1>3 DEF EvidenceInv, OneBlockARound
<1>6. b \in sides => b \notin OnMain
  BY DEF EvidenceInv, SidesInv
<1>7. b \notin sides => /\ tip[n] + 1 \in 1 .. Len(main)
                        /\ b = main[tip[n] + 1]
                        /\ b \in OnMain
  BY <1>2, SMT DEF OnMain
<1>8. b \notin HaveData(n)
  <2>1. CASE b \in sides
    BY <1>2, <1>6, <1>7, <2>1, SMT DEF HaveData, Connected, OnMain
  <2>2. CASE b \notin sides
    <3>1. b \notin stored[n]
      BY <2>2 DEF EvidenceInv, PlacesInv
    <3>2. b.height = tip[n] + 1
      BY <1>7, <2>2 DEF EvidenceInv, MainInv
    <3>3. \A i \in 1 .. tip[n] : main[i].height = i
      BY <1>2, SMT DEF EvidenceInv, MainInv
    <3>. QED  BY <1>2, <3>1, <3>2, <3>3, SMT DEF HaveData, Connected
  <2>. QED  BY <2>1, <2>2
<1>9. b \notin failed[n]
  <2>1. CASE b \in sides
    <3>1. tip[n] < Len(main) => main[tip[n] + 1] \in OnMain
      BY <1>2, SMT DEF OnMain
    <3>. QED  BY <1>6, <2>1, <3>1
  <2>2. CASE b \notin sides
    BY <1>7, <2>2 DEF Follows, OnMain
  <2>. QED  BY <2>1, <2>2
<1>10. CASE VerifyProposer(n, b) /\ b \in sides
  <2>1. stored' = [stored EXCEPT ![n] = @ \cup {b}] /\ UNCHANGED <<tip, failed>>
    BY <1>10 DEF AcceptBlock
  <2>2. /\ stored'[n] = stored[n] \cup {b}
        /\ \A k \in Node : k # n => stored'[k] = stored[k]
    BY <2>1 DEF EvidenceInv, PlacesInv
  <2>3. PlacesInv'
    BY <1>3, <1>10, <2>1 DEF EvidenceInv, PlacesInv
  <2>4. SidesInv'
    <3>1. ASSUME NEW c \in sides PROVE c.by \in Validator /\ c \in stored'[c.by]
      BY <2>2, MalusAssumption DEF EvidenceInv, SidesInv
    <3>. QED  BY <1>3, <3>1 DEF EvidenceInv, SidesInv
  <2>5. RefusedIsNotHeld'
    <3>1. ASSUME NEW k \in Node PROVE (failed[k] \cap HaveData(k) = {})'
      <4>1. Connected(k)' = Connected(k)
        BY <2>1 DEF Connected
      <4>2. failed[k] \cap (Connected(k) \cup stored[k]) = {}
        BY DEF EvidenceInv, RefusedIsNotHeld, HaveData
      <4>3. failed[k] \cap stored'[k] = {}
        BY <1>9, <2>2, <4>2
      <4>. QED  BY <2>1, <4>1, <4>2, <4>3 DEF HaveData
    <3>. QED  BY <3>1 DEF RefusedIsNotHeld
  <2>. QED  BY <1>4, <1>5, <2>3, <2>4, <2>5 DEF EvidenceInv
<1>11. CASE VerifyProposer(n, b) /\ b \notin sides
  <2>1. tip' = [tip EXCEPT ![n] = @ + 1] /\ UNCHANGED <<stored, failed>>
    BY <1>11 DEF AcceptBlock
  <2>2. /\ tip'[n] = tip[n] + 1
        /\ \A k \in Node : k # n => tip'[k] = tip[k]
    BY <2>1 DEF EvidenceInv, PlacesInv
  <2>3. PlacesInv'
    BY <1>2, <1>3, <1>7, <1>11, <2>1, SMT DEF EvidenceInv, PlacesInv
  <2>4. SidesInv'
    BY <1>3, <2>1 DEF EvidenceInv, SidesInv
  <2>5. RefusedIsNotHeld'
    <3>1. ASSUME NEW k \in Node PROVE (failed[k] \cap HaveData(k) = {})'
      <4>1. failed[k] \cap (Connected(k) \cup stored[k]) = {}
        BY DEF EvidenceInv, RefusedIsNotHeld, HaveData
      <4>2. CASE k = n
        <5>1. Connected(n)' = Connected(n) \cup {b}
          BY <1>2, <1>7, <1>11, <2>2, SMT DEF Connected
        <5>. QED  BY <1>9, <2>1, <4>1, <4>2, <5>1, ZenonT(30) DEF HaveData
      <4>3. CASE k # n
        <5>1. Connected(k)' = Connected(k)
          BY <2>2, <4>3 DEF Connected
        <5>. QED  BY <2>1, <4>1, <5>1 DEF HaveData
      <4>. QED  BY <4>2, <4>3
    <3>. QED  BY <3>1 DEF RefusedIsNotHeld
  <2>. QED  BY <1>4, <1>5, <2>3, <2>4, <2>5 DEF EvidenceInv
<1>12. CASE ~VerifyProposer(n, b)
  <2>1. failed' = [failed EXCEPT ![n] = @ \cup {b}] /\ UNCHANGED <<tip, stored>>
    BY <1>12 DEF AcceptBlock
  <2>2. /\ failed'[n] = failed[n] \cup {b}
        /\ \A k \in Node : k # n => failed'[k] = failed[k]
    BY <2>1 DEF EvidenceInv, PlacesInv
  <2>3. b \in Published
    BY <1>7 DEF Published
  <2>4. PlacesInv'
    BY <1>3, <2>1, <2>3 DEF EvidenceInv, PlacesInv
  <2>5. SidesInv'
    BY <1>3, <2>1 DEF EvidenceInv, SidesInv
  <2>6. RefusedIsNotHeld'
    <3>1. ASSUME NEW k \in Node PROVE (failed[k] \cap HaveData(k) = {})'
      <4>1. HaveData(k)' = HaveData(k)
        BY <2>1 DEF HaveData, Connected
      <4>2. failed[k] \cap HaveData(k) = {}
        BY DEF EvidenceInv, RefusedIsNotHeld
      <4>. QED  BY <1>8, <2>2, <4>1, <4>2
    <3>. QED  BY <3>1 DEF RefusedIsNotHeld
  <2>. QED  BY <1>4, <1>5, <2>4, <2>5, <2>6 DEF EvidenceInv
<1>. QED  BY <1>10, <1>11, <1>12

\* What an allegation says: it names blocks that were published, or it
\* names none and accuses a validator.
LEMMA AllegationForms ==
    ASSUME NEW r \in Allegations
    PROVE  LET blocks == sides \cup {main[h] : h \in 1 .. Len(main)}
           IN  \/ \E b, c \in blocks : /\ r.kind = "equiv" /\ r.accused = b.by
                                       /\ r.height = b.height /\ r.blocks = {b, c}
               \/ \E b \in blocks : /\ r.kind = "delay" /\ r.accused = b.by
                                    /\ r.height = b.height
               \/ /\ r.kind \in {"selfwrite", "badweight"} /\ r.accused \in Validator
                  /\ r.height \in 1 .. Len(main) /\ r.blocks = {}
<1>. DEFINE blocks == sides \cup {main[h] : h \in 1 .. Len(main)}
            pairs == {p \in blocks \X blocks : p[1] # p[2] /\ p[1].height = p[2].height}
            items == {h \in 1 .. Len(main) : main[h].item # NoItem}
            E == {[kind |-> "equiv", accused |-> p[1].by, height |-> p[1].height,
                   blocks |-> {p[1], p[2]}] : p \in pairs}
            D == {[kind |-> "delay", accused |-> b.by, height |-> b.height,
                   blocks |-> {b}] : b \in blocks}
            I == {[kind |-> k, accused |-> v, height |-> h, blocks |-> {}] :
                    k \in {"selfwrite", "badweight"}, v \in Validator, h \in items}
<1>1. Allegations = E \cup D \cup I
  BY SMT DEF Allegations
<1>2. \A p \in pairs : p[1] \in blocks /\ p[2] \in blocks
  OBVIOUS
<1>3. \A h \in items : h \in 1 .. Len(main)
  OBVIOUS
<1>. HIDE DEF blocks, pairs, items, E, D, I
<1>4. CASE r \in E
  <2>1. PICK p \in pairs : r = [kind |-> "equiv", accused |-> p[1].by,
                                height |-> p[1].height, blocks |-> {p[1], p[2]}]
    BY <1>4 DEF E
  <2>2. /\ r.kind = "equiv" /\ r.accused = p[1].by
        /\ r.height = p[1].height /\ r.blocks = {p[1], p[2]}
    BY <2>1
  <2>. QED  BY <1>2, <2>2 DEF blocks
<1>5. CASE r \in D
  <2>1. PICK b \in blocks : r = [kind |-> "delay", accused |-> b.by,
                                 height |-> b.height, blocks |-> {b}]
    BY <1>5 DEF D
  <2>2. r.kind = "delay" /\ r.accused = b.by /\ r.height = b.height
    BY <2>1
  <2>. QED  BY <2>2 DEF blocks
<1>6. CASE r \in I
  <2>1. PICK k \in {"selfwrite", "badweight"}, v \in Validator, h \in items :
          r = [kind |-> k, accused |-> v, height |-> h, blocks |-> {}]
    BY <1>6, SMT DEF I
  <2>2. r.kind = k /\ r.accused = v /\ r.height = h /\ r.blocks = {}
    BY <2>1
  <2>. QED  BY <1>3, <2>2
<1>. QED  BY <1>1, <1>4, <1>5, <1>6

\* A report joins the pool.
LEMMA ReportKeepsInv ==
    ASSUME EvidenceInv, NEW r \in Allegations, Publish(r)
    PROVE  EvidenceInv'
<1>1. Sound(r)
  BY AllegationForms DEF Sound
<1>2. pool' = Append(pool, r) /\ UNCHANGED <<main, sides, tip, stored, failed>>
  BY DEF Publish
<1>3. PICK S : pool \in Seq(S)
  BY DEF EvidenceInv, SequencesInv
<1>4. /\ pool' \in Seq(S \cup {r})
      /\ Len(pool) \in Nat
      /\ Len(pool') = Len(pool) + 1
      /\ \A i \in 1 .. Len(pool) : pool'[i] = pool[i]
      /\ pool'[Len(pool) + 1] = r
  BY <1>2, <1>3, Appended, SMT
<1>5. SequencesInv'
  BY <1>2, <1>4 DEF EvidenceInv, SequencesInv
<1>6. AllSound(pool)'
  <2>1. \A i \in 1 .. Len(pool') : Sound(pool'[i])
    BY <1>1, <1>4, SMT DEF EvidenceInv, AllSound
  <2>. QED  BY <2>1 DEF AllSound, Sound
<1>7. MainInv'
  <2>1. \A i \in 1 .. Len(main') :
           /\ main'[i].by \in Validator
           /\ main'[i].height = i
           /\ main'[i].twin = 1
           /\ main'[i].item.by \subseteq Faulty
           /\ AllSound(main'[i].reports)
    BY <1>2 DEF EvidenceInv, MainInv
  <2>. QED  BY <2>1 DEF MainInv, AllSound, Sound
<1>8. PlacesInv'
  BY <1>2, SMT DEF EvidenceInv, PlacesInv, Published, OnMain
<1>9. SidesInv'
  BY <1>2, SMT DEF EvidenceInv, SidesInv, OnMain
<1>10. OneBlockARound'
  BY <1>2, SMT DEF EvidenceInv, OneBlockARound, Published, OnMain
<1>11. RefusedIsNotHeld'
  BY <1>2, SMT DEF EvidenceInv, RefusedIsNotHeld, OnMain, HaveData, Connected
<1>. QED  BY <1>5, <1>6, <1>7, <1>8, <1>9, <1>10, <1>11 DEF EvidenceInv

\* A record of an honest validator is none.
LEMMA ForgeriesAreFaulty ==
    ASSUME NEW v \in Validator, NEW item \in Items(v)
    PROVE  item.by \subseteq Faulty
  BY SMT DEF Items, NoItem

\* A validator's turn.
LEMMA MineKeepsInv ==
    ASSUME EvidenceInv, NEW v \in Validator, Mine(v)
    PROVE  EvidenceInv'
<1>. DEFINE h == tip[v] + 1
            b == Plain(v, h, 1, MiningDelay(RoundWeights(v, h), v, h))
<1>1. b.by = v /\ b.height = h /\ b.twin = 1 /\ b.reports = << >>
  BY DEF Plain
<1>2. ~ProposedAt(v, h) /\ UNCHANGED failed
  BY DEF Mine
<1>3. CASE tip[v] = Len(main) /\ UNCHANGED <<sides, stored>>
           /\ \E item \in Items(v), all \in BOOLEAN :
                /\ main' = Append(main,
                      [b EXCEPT !.item = item,
                                !.weights = IF h = Reweighting THEN LaterWeight ELSE @,
                                !.reports = IF all THEN pool ELSE @])
                /\ pool' = IF all THEN << >> ELSE pool
                /\ tip' = [tip EXCEPT ![v] = h]
  <2>1. PICK item \in Items(v), all \in BOOLEAN :
          /\ main' = Append(main,
                [b EXCEPT !.item = item,
                          !.weights = IF h = Reweighting THEN LaterWeight ELSE @,
                          !.reports = IF all THEN pool ELSE @])
          /\ pool' = IF all THEN << >> ELSE pool
          /\ tip' = [tip EXCEPT ![v] = h]
    BY <1>3
  <2>. DEFINE m == [b EXCEPT !.item = item,
                             !.weights = IF h = Reweighting THEN LaterWeight ELSE @,
                             !.reports = IF all THEN pool ELSE @]
  <2>2. /\ m.by = v /\ m.height = h /\ m.twin = 1 /\ m.item = item
        /\ m.reports = IF all THEN pool ELSE << >>
    BY DEF Plain
  <2>3. m.item.by \subseteq Faulty
    BY <2>2, ForgeriesAreFaulty
  <2>4. AllSound(m.reports)
    <3>1. AllSound(<< >>)
      BY SMT DEF AllSound
    <3>. QED  BY <2>2, <3>1 DEF EvidenceInv
  <2>5. main' = Append(main, m) /\ h = Len(main) + 1
    BY <1>3, <2>1
  <2>6. pool' = pool \/ pool' = << >>
    BY <2>1
  <2>. HIDE DEF m, h, b
  <2>7. /\ tip[v] = Len(main)
        /\ tip' = [tip EXCEPT ![v] = Len(main) + 1]
        /\ m.height = Len(main) + 1
        /\ ~ProposedAt(v, Len(main) + 1)
        /\ UNCHANGED <<sides, stored, failed>>
    BY <1>2, <1>3, <2>1, <2>2, <2>5
  <2>. QED  BY <2>2, <2>3, <2>4, <2>5, <2>6, <2>7, MainBlockKeepsInv
<1>4. CASE /\ sides' = sides \cup {b}
           /\ stored' = [stored EXCEPT ![v] = @ \cup {b}]
           /\ UNCHANGED <<main, tip, pool>>
  <2>. HIDE DEF b, h
  <2>. QED  BY <1>1, <1>2, <1>4, SideBlockKeepsInv
<1>. HIDE DEF b, h
<1>. QED  BY <1>3, <1>4 DEF Mine, b, h

\* An offence of a faulty validator.
LEMMA OffenceKeepsInv ==
    ASSUME EvidenceInv, NEW v \in Validator, Equivocate(v) \/ Hurry(v)
    PROVE  EvidenceInv'
<1>1. CASE Equivocate(v)
  <2>1. PICK b \in HaveData(v) : Offend(v, Plain(v, b.height, 2, b.offset))
    BY <1>1 DEF Equivocate
  <2>. DEFINE c == Plain(v, b.height, 2, b.offset)
  <2>2. c.by = v /\ c.twin = 2
    BY DEF Plain
  <2>3. /\ v \in Faulty
        /\ sides' = sides \cup {c}
        /\ stored' = [stored EXCEPT ![v] = @ \cup {c}]
        /\ UNCHANGED <<main, tip, failed, pool>>
    BY <2>1 DEF Offend
  <2>. HIDE DEF c
  <2>. QED  BY <2>2, <2>3, SideBlockKeepsInv
<1>2. CASE Hurry(v)
  <2>. DEFINE c == Plain(v, tip[v] + 1, 1, 0)
  <2>1. Offend(v, c) /\ ~ProposedAt(v, tip[v] + 1)
    BY <1>2 DEF Hurry
  <2>2. c.by = v /\ c.height = tip[v] + 1
    BY DEF Plain
  <2>. HIDE DEF c
  <2>3. /\ sides' = sides \cup {c}
        /\ stored' = [stored EXCEPT ![v] = @ \cup {c}]
        /\ UNCHANGED <<main, tip, failed, pool>>
    BY <2>1 DEF Offend
  <2>. QED  BY <2>1, <2>2, <2>3, SideBlockKeepsInv
<1>. QED  BY <1>1, <1>2

\* Nothing happens.
LEMMA StutterKeepsInv ==
    ASSUME EvidenceInv, UNCHANGED vars
    PROVE  EvidenceInv'
<1>1. UNCHANGED <<main, sides, tip, stored, failed, pool>>
  BY DEF vars
<1>2. SequencesInv' /\ MainInv' /\ AllSound(pool)'
  BY <1>1, QuietReports
<1>3. PlacesInv' /\ SidesInv' /\ OneBlockARound' /\ RefusedIsNotHeld'
  BY <1>1, SMT DEF EvidenceInv, PlacesInv, SidesInv, OneBlockARound, RefusedIsNotHeld,
                   Published, OnMain, HaveData, Connected
<1>. QED  BY <1>2, <1>3 DEF EvidenceInv

\* The invariant is inductive.
LEMMA EvidenceInvHolds == Spec => []EvidenceInv
<1>1. Init => EvidenceInv
  <2>. SUFFICES ASSUME Init PROVE EvidenceInv
    OBVIOUS
  <2>1. Len(main) = 0 /\ Len(pool) = 0 /\ sides = {} /\ OnMain = {}
    BY SMT DEF Init, OnMain
  <2>2. SequencesInv
    BY SMT DEF Init, SequencesInv
  <2>3. PlacesInv
    BY <2>1, SMT DEF Init, PlacesInv
  <2>4. MainInv /\ SidesInv /\ AllSound(pool) /\ OneBlockARound
    BY <2>1, SMT DEF MainInv, SidesInv, AllSound, OneBlockARound, Published
  <2>5. RefusedIsNotHeld
    BY DEF Init, RefusedIsNotHeld
  <2>. QED  BY <2>2, <2>3, <2>4, <2>5 DEF EvidenceInv
<1>2. EvidenceInv /\ [Next]_vars => EvidenceInv'
  <2>. SUFFICES ASSUME EvidenceInv, [Next]_vars PROVE EvidenceInv'
    OBVIOUS
  <2>1. ASSUME NEW v \in Validator, Mine(v) \/ Equivocate(v) \/ Hurry(v)
        PROVE  EvidenceInv'
    BY <2>1, MineKeepsInv, OffenceKeepsInv
  <2>2. ASSUME NEW n \in Node, Connect(n) PROVE EvidenceInv'
    BY <2>2, JudgedBlockKeepsInv DEF Connect
  <2>3. ASSUME NEW n \in Node, NEW b \in sides, Receive(n, b) PROVE EvidenceInv'
    BY <2>3, JudgedBlockKeepsInv DEF Receive
  <2>4. ASSUME NEW r \in Allegations, Publish(r) PROVE EvidenceInv'
    BY <2>4, ReportKeepsInv
  <2>5. CASE UNCHANGED vars
    BY <2>5, StutterKeepsInv
  <2>. QED  BY <2>1, <2>2, <2>3, <2>4, <2>5 DEF Next, PublishReport, PublishUnchecked
<1>. QED  BY <1>1, <1>2, PTL DEF Spec

-----------------------------------------------------------------------------
(* The theorems. *)

\* A counted report was confirmed and found valid, and is sound in form.
LEMMA CountedReportsAreValid ==
    ASSUME EvidenceInv, NEW n \in Node, NEW x \in CountedReports(n)
    PROVE  Sound(x.r) /\ \E psi : ValidReport(n, x.r, psi)
<1>1. PICK v \in Validator, e \in 1 .. HeightToEpoch(Len(main)) :
         x \in Kept(n, v, e, PsiPrev(n, v, e))
  BY SMT DEF CountedReports
<1>2. x \in ReadAllReports(n) /\ ValidReport(n, x.r, PsiPrev(n, v, e))
  BY <1>1 DEF Kept
<1>3. PICK h \in 1 .. tip[n] : \E i \in 1 .. Len(main[h].reports) :
         x = [at |-> <<h, i>>, r |-> main[h].reports[i]]
  BY <1>2 DEF ReadAllReports, ReportsOf
<1>4. PICK i \in 1 .. Len(main[h].reports) :
         x = [at |-> <<h, i>>, r |-> main[h].reports[i]]
  BY <1>3
<1>5. PICK S : main \in Seq(S)
  BY DEF EvidenceInv, SequencesInv
<1>6. h \in 1 .. Len(main)
  BY <1>5, SMT DEF EvidenceInv, PlacesInv
<1>7. Sound(x.r)
  BY <1>4, <1>6 DEF EvidenceInv, MainInv, AllSound
<1>. QED  BY <1>2, <1>7

\* A node that refused a block never counts a report that rests on it, for
\* any number of nodes, blocks and reports.
THEOREM NothingRestsOnRefusedBlocks == Spec => []RefusedBlocksGoUncounted
<1>1. EvidenceInv => RefusedBlocksGoUncounted
  <2>. SUFFICES ASSUME EvidenceInv, NEW n \in Node, NEW x \in CountedReports(n)
                PROVE  x.r.blocks \cap failed[n] = {}
    BY DEF RefusedBlocksGoUncounted
  <2>1. PICK psi : ValidReport(n, x.r, psi)
    BY CountedReportsAreValid
  <2>2. Sound(x.r)
    BY CountedReportsAreValid
  <2>3. failed[n] \cap HaveData(n) = {}
    BY DEF EvidenceInv, RefusedIsNotHeld
  <2>4. CASE x.r.kind = "equiv"
    BY <2>1, <2>3, <2>4 DEF ValidReport, ValidEquivocation
  <2>5. CASE x.r.kind = "delay"
    BY <2>1, <2>3, <2>5 DEF ValidReport, ValidDelay
  <2>6. CASE x.r.kind \notin {"equiv", "delay"}
    BY <2>2, <2>6 DEF Sound
  <2>. QED  BY <2>4, <2>5, <2>6
<1>. QED  BY <1>1, EvidenceInvHolds, PTL

\* The part of FalseReportsDiscarded that needs no weights.
ProofsConvictOnlyFaulty ==
    \A n \in Node : \A x \in CountedReports(n) :
        x.r.kind # "delay" => x.r.accused \in Faulty

\* A counted report of equivocation, forgery or a false weight accuses a
\* validator that did misbehave: whatever is published on the open stream,
\* and whatever part of the chain a node has, nobody else's weight is
\* lowered on account of such a report.
THEOREM HonestStayUnconvicted == Spec => []ProofsConvictOnlyFaulty
<1>1. EvidenceInv => ProofsConvictOnlyFaulty
  <2>. SUFFICES ASSUME EvidenceInv, NEW n \in Node, NEW x \in CountedReports(n),
                       x.r.kind # "delay"
                PROVE  x.r.accused \in Faulty
    BY DEF ProofsConvictOnlyFaulty
  <2>1. PICK psi : ValidReport(n, x.r, psi)
    BY CountedReportsAreValid
  <2>2. Sound(x.r)
    BY CountedReportsAreValid
  <2>3. PICK S : main \in Seq(S)
    BY DEF EvidenceInv, SequencesInv
  <2>4. Len(main) \in Nat /\ tip[n] \in 0 .. Len(main)
    BY <2>3, SMT DEF EvidenceInv, PlacesInv
  <2>5. CASE x.r.kind = "equiv"
    <3>1. ValidEquivocation(n, x.r)
      BY <2>1, <2>5 DEF ValidReport
    <3>2. PICK b, c : x.r.blocks = {b, c}
      BY <2>2, <2>5 DEF Sound
    <3>3. b # c
      <4>. SUFFICES ASSUME b = c PROVE FALSE
        OBVIOUS
      <4>1. x.r.blocks = {b}
        BY <3>2
      <4>2. Cardinality({b}) = 1
        BY FS_Singleton
      <4>3. Cardinality(x.r.blocks) = 2
        BY <3>1 DEF ValidEquivocation
      <4>. QED  BY <4>1, <4>2, <4>3, SMT
    <3>4. HaveData(n) \subseteq Published
      BY <2>4, SMT DEF EvidenceInv, PlacesInv, HaveData, Connected, Published, OnMain
    <3>5. /\ b \in Published /\ c \in Published
          /\ b.by = x.r.accused /\ c.by = x.r.accused
          /\ b.height = c.height
      BY <3>1, <3>2, <3>4 DEF ValidEquivocation, SignedByAccused
    <3>. QED  BY <3>3, <3>5 DEF EvidenceInv, OneBlockARound
  <2>6. CASE x.r.kind # "equiv"
    <3>1. ValidDataIntegrityReport(n, x.r)
      BY <2>1, <2>6 DEF ValidReport
    <3>2. x.r.height \in 1 .. Len(main) /\ x.r.accused \in main[x.r.height].item.by
      BY <2>4, <3>1, SMT DEF ValidDataIntegrityReport
    <3>. QED  BY <3>2 DEF EvidenceInv, MainInv
  <2>. QED  BY <2>5, <2>6
<1>. QED  BY <1>1, EvidenceInvHolds, PTL

-----------------------------------------------------------------------------
(* Powers. *)

\* f holds the powers of b up to k.
IsPowers(f, b, k) == f = [i \in 0 .. k |-> IF i = 0 THEN 1 ELSE b * f[i - 1]]

\* The recursion of Power is well-founded.
LEMMA PowersExist ==
    ASSUME NEW b \in Nat, NEW k \in Nat
    PROVE  \E f \in [0 .. k -> Nat] : IsPowers(f, b, k)
<1>. DEFINE N == {j \in Nat : \E f \in [0 .. j -> Nat] : IsPowers(f, b, j)}
<1>1. 0 \in N
  <2>. DEFINE f == [i \in 0 .. 0 |-> 1]
  <2>1. f \in [0 .. 0 -> Nat] /\ IsPowers(f, b, 0)
    BY SMT DEF IsPowers
  <2>. QED  BY <2>1
<1>2. ASSUME NEW j \in Nat, j \in N PROVE j + 1 \in N
  <2>1. PICK f \in [0 .. j -> Nat] : IsPowers(f, b, j)
    BY <1>2
  <2>. DEFINE h == [i \in 0 .. j + 1 |-> IF i = 0 THEN 1 ELSE b * f[i - 1]]
  <2>2. h \in [0 .. j + 1 -> Nat]
    BY <2>1, SMT
  <2>3. ASSUME NEW i \in 0 .. j + 1, i # 0 PROVE h[i - 1] = f[i - 1]
    BY <2>1, <2>3, SMT DEF IsPowers
  <2>4. IsPowers(h, b, j + 1)
    BY <2>3 DEF IsPowers
  <2>. HIDE DEF h
  <2>. QED  BY <2>2, <2>4, SMT
<1>. HIDE DEF N
<1>3. \A j \in Nat : j \in N
  BY <1>1, <1>2, NatSetInduction
<1>. QED  BY <1>3 DEF N

\* Two tables of powers agree where both are defined.
LEMMA PowersUnique ==
    ASSUME NEW b \in Nat, NEW k \in Nat, NEW j \in Nat, j <= k, NEW f, NEW g,
           IsPowers(f, b, j), IsPowers(g, b, k)
    PROVE  f[j] = g[j]
<1>. DEFINE N == {i \in Nat : i <= j => f[i] = g[i]}
<1>1. 0 \in N
  BY SMT DEF IsPowers
<1>2. ASSUME NEW i \in Nat, i \in N PROVE i + 1 \in N
  <2>. SUFFICES ASSUME i + 1 <= j PROVE f[i + 1] = g[i + 1]
    BY SMT
  <2>1. f[i + 1] = b * f[i] /\ g[i + 1] = b * g[i]
    BY SMT DEF IsPowers
  <2>2. f[i] = g[i]
    BY <1>2, SMT
  <2>. QED  BY <2>1, <2>2
<1>. HIDE DEF N
<1>3. \A i \in Nat : i \in N
  BY <1>1, <1>2, NatSetInduction
<1>. QED  BY <1>3, SMT DEF N

\* Power multiplies.
LEMMA PowerFacts ==
    ASSUME NEW b \in Nat
    PROVE  /\ Power(b, 0) = 1
           /\ \A k \in Nat : Power(b, k) \in Nat /\ Power(b, k + 1) = b * Power(b, k)
<1>. DEFINE P(k) == CHOOSE f : IsPowers(f, b, k)
<1>1. ASSUME NEW k \in Nat PROVE Power(b, k) = P(k)[k]
  BY DEF Power, IsPowers
<1>2. ASSUME NEW k \in Nat PROVE IsPowers(P(k), b, k)
  BY PowersExist
<1>3. Power(b, 0) = 1
  <2>. HIDE DEF P
  <2>1. P(0)[0] = 1
    BY <1>2, SMT DEF IsPowers
  <2>. QED  BY <1>1, <2>1
<1>4. ASSUME NEW k \in Nat PROVE Power(b, k) \in Nat
  <2>1. PICK f \in [0 .. k -> Nat] : IsPowers(f, b, k)
    BY PowersExist
  <2>. HIDE DEF P
  <2>2. P(k)[k] = f[k]
    BY <1>2, <2>1, PowersUnique, SMT
  <2>. QED  BY <1>1, <2>1, <2>2, SMT
<1>5. ASSUME NEW k \in Nat PROVE Power(b, k + 1) = b * Power(b, k)
  <2>. HIDE DEF P
  <2>1. IsPowers(P(k), b, k) /\ IsPowers(P(k + 1), b, k + 1)
    BY <1>2, SMT
  <2>2. P(k)[k] = P(k + 1)[k]
    BY <2>1, PowersUnique, SMT
  <2>3. P(k + 1)[k + 1] = b * P(k + 1)[k]
    BY <2>1, SMT DEF IsPowers
  <2>. QED  BY <1>1, <2>2, <2>3, SMT
<1>. QED  BY <1>3, <1>4, <1>5

\* The scale of an epoch is positive and grows by MuDen.
LEMMA ScaleFacts ==
    /\ MuDen \in Nat /\ MuDen > 0
    /\ Scale(0) = 1
    /\ \A e \in Nat : Scale(e) \in Nat /\ Scale(e) > 0 /\ Scale(e + 1) = MuDen * Scale(e)
<1>1. MuDen \in Nat /\ MuDen > 0
  BY MalusAssumption, SMT
<1>2. Scale(0) = 1 /\ \A e \in Nat : Scale(e) \in Nat /\ Scale(e + 1) = MuDen * Scale(e)
  BY <1>1, PowerFacts DEF Scale
<1>. DEFINE N == {e \in Nat : Scale(e) > 0}
<1>3. 0 \in N
  BY <1>2, SMT
<1>4. ASSUME NEW e \in Nat, e \in N PROVE e + 1 \in N
  <2>1. Scale(e) > 0 /\ Scale(e) \in Nat /\ Scale(e + 1) = MuDen * Scale(e)
    BY <1>2, <1>4
  <2>2. \A x, y \in Nat : x > 0 /\ y > 0 => x * y > 0
    BY SMT
  <2>. QED  BY <1>1, <2>1, <2>2, SMT
<1>. HIDE DEF N
<1>5. \A e \in Nat : e \in N
  BY <1>3, <1>4, NatSetInduction
<1>. QED  BY <1>1, <1>2, <1>5 DEF N

-----------------------------------------------------------------------------
(* The corrected weight. *)

\* A fraction between 0 and 1.
IsFactor(psi) == psi.num \in Nat /\ psi.den \in Nat /\ psi.den > 0 /\ psi.num <= psi.den

\* A weight is never raised, kept by the factor 1, and positive while the
\* factor is.
LEMMA EffectiveWeightFacts ==
    ASSUME NEW w \in Nat, NEW psi, IsFactor(psi)
    PROVE  /\ EffectiveWeight(w, psi) \in Nat
           /\ EffectiveWeight(w, psi) <= w
           /\ psi.num = psi.den => EffectiveWeight(w, psi) = w
           /\ EffectiveWeight(w, psi) > 0 <=> w > 0 /\ psi.num > 0
<1>. DEFINE n == psi.num
            d == psi.den
            x == 2 * w * n + d
            y == 2 * d
            r == x \div y
<1>1. n \in Nat /\ d \in Nat /\ d > 0 /\ n <= d
  BY DEF IsFactor
<1>. HIDE DEF n, d
<1>2. /\ w * n \in Nat /\ w * d \in Nat /\ w * n <= w * d
      /\ 2 * w * n = 2 * (w * n)
  BY <1>1, SMT
<1>3. x \in Nat /\ y \in Nat /\ y > 0
  BY <1>1, <1>2, SMT
<1>4. r \in Nat /\ r * y <= x /\ x < r * y + y /\ r * y \in Nat
  <2>. HIDE DEF x, y
  <2>. QED  BY <1>3, QuotientFacts
<1>. HIDE DEF r
<1>5. r * y = 2 * (r * d) /\ r * d \in Nat
  BY <1>1, <1>4, SMT
<1>6. r <= w
  <2>. SUFFICES ASSUME w + 1 <= r PROVE FALSE
    BY <1>4, SMT
  <2>1. (w + 1) * d <= r * d
    BY <1>1, <1>4, ProductIsMonotonic, SMT
  <2>2. (w + 1) * d = w * d + d
    BY <1>1, SMT
  <2>. QED  BY <1>1, <1>2, <1>4, <1>5, <2>1, <2>2, SMT
<1>7. n = d => r = w
  <2>. SUFFICES ASSUME n = d, r + 1 <= w PROVE FALSE
    BY <1>4, <1>6, SMT
  <2>1. (r + 1) * d <= w * d
    BY <1>1, <1>4, ProductIsMonotonic, SMT
  <2>2. (r + 1) * d = r * d + d
    BY <1>1, <1>4, SMT
  <2>. QED  BY <1>1, <1>2, <1>4, <1>5, <2>1, <2>2, SMT
<1>8. EffectiveWeight(w, psi) = IF w = 0 \/ n = 0 THEN 0 ELSE IF r = 0 THEN 1 ELSE r
  BY DEF EffectiveWeight, r, x, y, n, d
<1>. QED  BY <1>1, <1>4, <1>6, <1>7, <1>8, SMT DEF n, d

\* The smaller the factor, the smaller the weight.
LEMMA EffectiveWeightIsMonotonic ==
    ASSUME NEW w \in Nat, NEW phi, NEW psi, IsFactor(phi), IsFactor(psi),
           phi.den = psi.den, phi.num <= psi.num
    PROVE  EffectiveWeight(w, phi) <= EffectiveWeight(w, psi)
<1>. DEFINE m == phi.num
            n == psi.num
            d == psi.den
            x == 2 * w * m + d
            y == 2 * w * n + d
            p == x \div (2 * d)
            q == y \div (2 * d)
<1>1. m \in Nat /\ n \in Nat /\ d \in Nat /\ d > 0 /\ m <= n
  BY DEF IsFactor
<1>. HIDE DEF m, n, d
<1>2. /\ w * m \in Nat /\ w * n \in Nat /\ w * m <= w * n
      /\ 2 * w * m = 2 * (w * m) /\ 2 * w * n = 2 * (w * n)
  BY <1>1, SMT
<1>3. x \in Nat /\ y \in Nat /\ x <= y /\ 2 * d \in Nat /\ 2 * d > 0
  BY <1>1, <1>2, SMT
<1>4. p \in Nat /\ q \in Nat /\ p <= q
  <2>. HIDE DEF x, y
  <2>. QED  BY <1>3, QuotientFacts, QuotientIsMonotonic
<1>. HIDE DEF p, q
<1>5. /\ EffectiveWeight(w, phi) = IF w = 0 \/ m = 0 THEN 0 ELSE IF p = 0 THEN 1 ELSE p
      /\ EffectiveWeight(w, psi) = IF w = 0 \/ n = 0 THEN 0 ELSE IF q = 0 THEN 1 ELSE q
  BY DEF EffectiveWeight, p, q, x, y, n, d, m
<1>. QED  BY <1>1, <1>4, <1>5, SMT

\* The factor of an accumulator, which falls as it grows.
LEMMA CorrectionFactorFacts ==
    ASSUME NEW m \in Nat, NEW e \in Nat
    PROVE  /\ IsFactor(CorrectionFactor(m, e))
           /\ m = 0 => CorrectionFactor(m, e).num = CorrectionFactor(m, e).den
           /\ CorrectionFactor(m, e).num > 0 <=> m < MMax * Scale(e)
           /\ \A k \in Nat : m <= k =>
                 /\ CorrectionFactor(k, e).den = CorrectionFactor(m, e).den
                 /\ CorrectionFactor(k, e).num <= CorrectionFactor(m, e).num
<1>. DEFINE top == MMax * Scale(e)
<1>1. top \in Nat /\ top > 0
  <2>1. MMax \in Nat /\ MMax > 0
    BY MalusAssumption, SMT
  <2>2. Scale(e) \in Nat /\ Scale(e) > 0
    BY ScaleFacts
  <2>3. \A a, b \in Nat : a > 0 /\ b > 0 => a * b \in Nat /\ a * b > 0
    BY SMT
  <2>. QED  BY <2>1, <2>2, <2>3
<1>2. \A k : /\ CorrectionFactor(k, e).num = IF k < top THEN top - k ELSE 0
             /\ CorrectionFactor(k, e).den = top
  BY DEF CorrectionFactor
<1>. HIDE DEF top
<1>3. IsFactor(CorrectionFactor(m, e))
  BY <1>1, <1>2, SMT DEF IsFactor
<1>. QED  BY <1>1, <1>2, <1>3, SMT DEF top

-----------------------------------------------------------------------------
(* The accumulators are what their recursion says. *)

-----------------------------------------------------------------------------
(* The confirmed reports. *)

\* A chain whose blocks carry reports of the right form.
CarriesReports(m) ==
    /\ Len(m) \in Nat
    /\ \A h \in 1 .. Len(m) :
          /\ Len(m[h].reports) \in Nat
          /\ \A i \in 1 .. Len(m[h].reports) : IsReport(m[h].reports[i])

\* The confirmed reports are finitely many.
LEMMA ReportsAreFinite ==
    ASSUME NEW m, CarriesReports(m), NEW top \in 0 .. Len(m)
    PROVE  /\ IsFiniteSet(ReportsOf(m, top))
           /\ \A x \in ReportsOf(m, top) : IsReport(x.r) /\ Points[x.r.kind] \in Nat
<1>. DEFINE place(h) == [i \in 1 .. Len(m[h].reports) |->
                            [at |-> <<h, i>>, r |-> m[h].reports[i]]]
            at(h) == {[at |-> <<h, i>>, r |-> m[h].reports[i]] :
                        i \in 1 .. Len(m[h].reports)}
            all == [h \in 1 .. top |-> at(h)]
<1>0. 1 .. top \subseteq 1 .. Len(m) /\ top \in Nat
  BY SMT DEF CarriesReports
<1>1. ASSUME NEW h \in 1 .. top PROVE IsFiniteSet(at(h))
  <2>1. Len(m[h].reports) \in Nat
    BY <1>0 DEF CarriesReports
  <2>0. \A k \in Nat : IsFiniteSet(1 .. k)
    BY FS_Interval, SMT
  <2>2. IsFiniteSet(1 .. Len(m[h].reports))
    BY <2>0, <2>1
  <2>3. IsFiniteSet({place(h)[i] : i \in 1 .. Len(m[h].reports)})
    BY <2>2, FiniteImage
  <2>4. {place(h)[i] : i \in 1 .. Len(m[h].reports)} = at(h)
    OBVIOUS
  <2>. QED  BY <2>3, <2>4
<1>2. IsFiniteSet({all[h] : h \in 1 .. top})
  <2>1. IsFiniteSet(1 .. top)
    BY <1>0, FS_Interval, SMT
  <2>. QED  BY <2>1, FiniteImage, ZenonT(30)
<1>3. {all[h] : h \in 1 .. top} = {at(h) : h \in 1 .. top}
  OBVIOUS
<1>4. IsFiniteSet({at(h) : h \in 1 .. top})
  BY <1>2, <1>3
<1>5. \A T \in {at(h) : h \in 1 .. top} : IsFiniteSet(T)
  BY <1>1
<1>6. IsFiniteSet(UNION {at(h) : h \in 1 .. top})
  <2>. HIDE DEF at
  <2>. QED  BY <1>4, <1>5, FS_UNION
<1>7. ASSUME NEW x \in ReportsOf(m, top) PROVE IsReport(x.r) /\ Points[x.r.kind] \in Nat
  <2>1. PICK h \in 1 .. top : \E i \in 1 .. Len(m[h].reports) :
          x = [at |-> <<h, i>>, r |-> m[h].reports[i]]
    BY DEF ReportsOf
  <2>2. IsReport(x.r)
    BY <1>0, <2>1, SMT DEF CarriesReports
  <2>. QED  BY <2>2, MalusAssumption DEF IsReport, Kinds
<1>. QED  BY <1>6, <1>7 DEF ReportsOf

\* What a set of confirmed reports weighs.
LEMMA PointsFacts ==
    ASSUME NEW m, CarriesReports(m), NEW X, X \subseteq ReportsOf(m, Len(m))
    PROVE  /\ PointsOf(X) \in Nat
           /\ \A Y \in SUBSET X : PointsOf(Y) <= PointsOf(X)
<1>. DEFINE f(Y) == [x \in Y |-> Points[x.r.kind]]
<1>1. Len(m) \in 0 .. Len(m)
  BY SMT DEF CarriesReports
<1>2. IsFiniteSet(X)
  BY <1>1, ReportsAreFinite, FS_Subset
<1>3. \A x \in X : f(X)[x] \in Nat
  BY <1>1, ReportsAreFinite
<1>4. ASSUME NEW Y \in SUBSET X PROVE PointsOf(Y) = SumFunctionOnSet(f(X), Y)
  <2>1. IsFiniteSet(Y)
    BY <1>2, FS_Subset
  <2>2. \A x \in Y : f(Y)[x] = f(X)[x]
    OBVIOUS
  <2>. HIDE DEF f
  <2>3. SumFunctionOnSet(f(Y), Y) = SumFunctionOnSet(f(X), Y)
    BY <2>1, <2>2, SumOfEquals
  <2>. QED  BY <2>3 DEF PointsOf, f
<1>. HIDE DEF f
<1>5. /\ SumFunctionOnSet(f(X), X) \in Nat
      /\ \A Y \in SUBSET X : SumFunctionOnSet(f(X), Y) <= SumFunctionOnSet(f(X), X)
  BY <1>2, <1>3, SumOfNaturals
<1>. QED  BY <1>4, <1>5

\* No reports, no points.
LEMMA NoPoints == PointsOf({}) = 0
  BY SumOfNothing DEF PointsOf

-----------------------------------------------------------------------------
(* The accumulators, epoch by epoch. *)

\* One epoch of the pass, and a pass over k of them.
AccStep(n, prev, e) ==
    [v \in Validator |->
        Fold(prev[v], PointsOf(Kept(n, v, e, CorrectionFactor(prev[v], e - 1))), e)]
IsPass(M, n, k) == M = [e \in 0 .. k |-> IF e = 0 THEN Clean ELSE AccStep(n, M[e - 1], e)]

\* The pass over the epochs is well-founded.
LEMMA PassExists ==
    ASSUME NEW n, NEW k \in Nat
    PROVE  \E M : IsPass(M, n, k)
<1>. DEFINE N == {j \in Nat : \E M : IsPass(M, n, j)}
<1>1. 0 \in N
  <2>. DEFINE M == [e \in 0 .. 0 |-> Clean]
  <2>1. IsPass(M, n, 0)
    BY SMT DEF IsPass
  <2>. QED  BY <2>1
<1>2. ASSUME NEW j \in Nat, j \in N PROVE j + 1 \in N
  <2>1. PICK M : IsPass(M, n, j)
    BY <1>2
  <2>. DEFINE h == [e \in 0 .. j + 1 |-> IF e = 0 THEN Clean ELSE AccStep(n, M[e - 1], e)]
  <2>3. ASSUME NEW e \in 0 .. j + 1, e # 0 PROVE h[e - 1] = M[e - 1]
    BY <2>1, <2>3, SMT DEF IsPass
  <2>4. IsPass(h, n, j + 1)
    BY <2>3 DEF IsPass
  <2>. HIDE DEF h
  <2>. QED  BY <2>4, SMT
<1>. HIDE DEF N
<1>3. \A j \in Nat : j \in N
  BY <1>1, <1>2, NatSetInduction
<1>. QED  BY <1>3 DEF N

\* Two passes agree as far as both go.
LEMMA PassUnique ==
    ASSUME NEW n, NEW k \in Nat, NEW j \in Nat, j <= k, NEW f, NEW g,
           IsPass(f, n, j), IsPass(g, n, k)
    PROVE  f[j] = g[j]
<1>. DEFINE N == {i \in Nat : i <= j => f[i] = g[i]}
<1>1. 0 \in N
  BY SMT DEF IsPass
<1>2. ASSUME NEW i \in Nat, i \in N PROVE i + 1 \in N
  <2>. SUFFICES ASSUME i + 1 <= j PROVE f[i + 1] = g[i + 1]
    BY SMT
  <2>1. f[i + 1] = AccStep(n, f[i], i + 1) /\ g[i + 1] = AccStep(n, g[i], i + 1)
    BY SMT DEF IsPass
  <2>2. f[i] = g[i]
    BY <1>2, SMT
  <2>. QED  BY <2>1, <2>2
<1>. HIDE DEF N
<1>3. \A i \in Nat : i \in N
  BY <1>1, <1>2, NatSetInduction
<1>. QED  BY <1>3, SMT DEF N

\* Without points an accumulator of nothing stays at nothing.
LEMMA FoldOfNothing ==
    ASSUME NEW e \in Nat
    PROVE  Fold(0, 0, e) = 0
  BY MalusAssumption, ScaleFacts, SMT DEF Fold

\* GetAccumulators goes from epoch to epoch by AccStep.
LEMMA AccumulatorRecursion ==
    ASSUME NEW n
    PROVE  /\ GetAccumulators(n, 0) = Clean
           /\ \A e \in Nat :
                 GetAccumulators(n, e + 1) = AccStep(n, GetAccumulators(n, e), e + 1)
<1>. DEFINE P(k) == CHOOSE M : IsPass(M, n, k)
<1>1. ASSUME NEW k \in Nat PROVE IsPass(P(k), n, k)
  BY PassExists
<1>2. ASSUME NEW k \in Nat
      PROVE  GetAccumulators(n, k) = IF ReadAllReports(n) = {} THEN Clean ELSE P(k)[k]
  BY DEF GetAccumulators, IsPass, AccStep
<1>. HIDE DEF P
<1>3. P(0)[0] = Clean
  BY <1>1, SMT DEF IsPass
<1>4. ASSUME NEW e \in Nat PROVE P(e + 1)[e + 1] = AccStep(n, P(e)[e], e + 1)
  <2>1. IsPass(P(e), n, e) /\ IsPass(P(e + 1), n, e + 1)
    BY <1>1, SMT
  <2>2. P(e)[e] = P(e + 1)[e]
    BY <2>1, PassUnique, SMT
  <2>3. P(e + 1)[e + 1] = AccStep(n, P(e + 1)[e], e + 1)
    BY <2>1, SMT DEF IsPass
  <2>. QED  BY <2>2, <2>3
<1>5. ASSUME NEW e \in Nat, ReadAllReports(n) = {} PROVE AccStep(n, Clean, e + 1) = Clean
  <2>1. ASSUME NEW v \in Validator
        PROVE  Fold(Clean[v], PointsOf(Kept(n, v, e + 1, CorrectionFactor(Clean[v], e + 1 - 1))), e + 1) = 0
    <3>1. Kept(n, v, e + 1, CorrectionFactor(Clean[v], e + 1 - 1)) = {}
      BY <1>5 DEF Kept
    <3>2. Clean[v] = 0
      BY DEF Clean
    <3>. QED  BY <3>1, <3>2, NoPoints, FoldOfNothing, SMT
  <2>. QED  BY <2>1, SMT DEF AccStep, Clean
<1>6. ASSUME NEW e \in Nat
      PROVE  GetAccumulators(n, e + 1) = AccStep(n, GetAccumulators(n, e), e + 1)
  BY <1>2, <1>4, <1>5, SMT
<1>. QED  BY <1>2, <1>3, <1>6

-----------------------------------------------------------------------------
(* Accumulators over a set of places: the reports a block's miner counted. *)

-----------------------------------------------------------------------------
(* The accumulators a set of counted places stands for. *)

\* Where a chain has reports; those at the places K about v in epoch e; and the
\* accumulators M of k epochs in which exactly the reports at K count.
Places(m) == {x.at : x \in ReportsOf(m, Len(m))}
Named(m, K, v, e) ==
    {x \in ReportsOf(m, Len(m)) :
        x.at \in K /\ x.r.accused = v /\ HeightToEpoch(x.r.height) = e}
AccBy(M, m, K, k) ==
    /\ M[0] = Clean
    /\ \A e \in 1 .. k :
          M[e] = [v \in Validator |-> Fold(M[e - 1][v], PointsOf(Named(m, K, v, e)), e)]

\* A part of a chain has part of its reports.
LEMMA ReportsOfPart ==
    ASSUME NEW m, Len(m) \in Nat, NEW top \in 0 .. Len(m)
    PROVE  ReportsOf(m, top) \subseteq ReportsOf(m, Len(m))
<1>1. 1 .. top \subseteq 1 .. Len(m)
  BY SMT
<1>. QED  BY <1>1, SMT DEF ReportsOf

\* A place holds one report.
LEMMA PlaceTellsReport ==
    ASSUME NEW m, NEW j, NEW k, NEW x \in ReportsOf(m, j), NEW y \in ReportsOf(m, k),
           x.at = y.at
    PROVE  x = y
<1>1. PICK h \in 1 .. j : \E i \in 1 .. Len(m[h].reports) :
        x = [at |-> <<h, i>>, r |-> m[h].reports[i]]
  BY DEF ReportsOf
<1>2. PICK i \in 1 .. Len(m[h].reports) : x = [at |-> <<h, i>>, r |-> m[h].reports[i]]
  BY <1>1
<1>3. PICK g \in 1 .. k : \E l \in 1 .. Len(m[g].reports) :
        y = [at |-> <<g, l>>, r |-> m[g].reports[l]]
  BY SMT DEF ReportsOf
<1>4. PICK l \in 1 .. Len(m[g].reports) : y = [at |-> <<g, l>>, r |-> m[g].reports[l]]
  BY <1>3
<1>5. h = g /\ i = l
  BY <1>2, <1>4
<1>. QED  BY <1>2, <1>4, <1>5

\* What is added to an accumulator grows with both parts.
LEMMA FoldFacts ==
    ASSUME NEW a \in Nat, NEW b \in Nat, NEW p \in Nat, NEW q \in Nat, NEW e \in Nat,
           a <= b, p <= q
    PROVE  Fold(a, p, e) \in Nat /\ Fold(a, p, e) <= Fold(b, q, e)
<1>1. MuNum \in Nat
  BY MalusAssumption
<1>2. Scale(e) \in Nat
  BY ScaleFacts
<1>3. MuNum * a \in Nat /\ MuNum * b \in Nat /\ MuNum * a <= MuNum * b
  BY <1>1, ProductIsMonotonic
<1>4. p * Scale(e) \in Nat /\ q * Scale(e) \in Nat /\ p * Scale(e) <= q * Scale(e)
  BY <1>2, ProductIsMonotonic
<1>. QED  BY <1>3, <1>4, SMT DEF Fold

\* A fold of natural numbers is one.
LEMMA FoldType ==
    ASSUME NEW a \in Nat, NEW p \in Nat, NEW e \in Nat
    PROVE  Fold(a, p, e) \in Nat
<1>1. a <= a /\ p <= p
  BY SMT
<1>. QED  BY <1>1, FoldFacts

\* One epoch of AccBy.
LEMMA AccByStep ==
    ASSUME NEW m, NEW K, NEW k \in Nat, NEW M, AccBy(M, m, K, k), NEW e \in Nat, e + 1 <= k
    PROVE  \A v \in Validator :
              M[e + 1][v] = Fold(M[e][v], PointsOf(Named(m, K, v, e + 1)), e + 1)
<1>1. M[e + 1] = [v \in Validator |-> Fold(M[e][v], PointsOf(Named(m, K, v, e + 1)), e + 1)]
  <2>1. e + 1 \in 1 .. k /\ (e + 1) - 1 = e
    BY SMT
  <2>. QED  BY <2>1 DEF AccBy
<1>. QED  BY <1>1

\* Accumulators are natural numbers.
LEMMA AccByType ==
    ASSUME NEW m, CarriesReports(m), NEW K, NEW k \in Nat, NEW M, AccBy(M, m, K, k)
    PROVE  \A e \in 0 .. k : M[e] \in [Validator -> Nat]
<1>. DEFINE N == {e \in Nat : e <= k => M[e] \in [Validator -> Nat]}
<1>1. 0 \in N
  BY SMT DEF AccBy, Clean
<1>2. ASSUME NEW e \in Nat, e \in N PROVE e + 1 \in N
  <2>. SUFFICES ASSUME e + 1 <= k PROVE M[e + 1] \in [Validator -> Nat]
    BY SMT
  <2>1. M[e] \in [Validator -> Nat]
    BY <1>2, SMT
  <2>2. M[e + 1] = [v \in Validator |-> Fold(M[e][v], PointsOf(Named(m, K, v, e + 1)), e + 1)]
    BY SMT DEF AccBy
  <2>3. ASSUME NEW v \in Validator
        PROVE  Fold(M[e][v], PointsOf(Named(m, K, v, e + 1)), e + 1) \in Nat
    <3>1. PointsOf(Named(m, K, v, e + 1)) \in Nat
      BY PointsFacts DEF Named
    <3>2. M[e][v] \in Nat
      BY <2>1
    <3>3. e + 1 \in Nat
      BY SMT
    <3>. QED  BY <3>1, <3>2, <3>3, FoldType
  <2>. QED  BY <2>2, <2>3
<1>. HIDE DEF N
<1>3. \A e \in Nat : e \in N
  BY <1>1, <1>2, NatSetInduction
<1>. QED  BY <1>3, SMT DEF N

\* The more is counted, the larger the accumulators.
LEMMA AccByMonotonic ==
    ASSUME NEW m, CarriesReports(m), NEW K, NEW L, K \subseteq L, NEW k \in Nat,
           NEW M, NEW P, AccBy(M, m, K, k), AccBy(P, m, L, k)
    PROVE  \A e \in 0 .. k : \A v \in Validator : M[e][v] <= P[e][v]
<1>. DEFINE N == {e \in Nat : e <= k => \A v \in Validator : M[e][v] <= P[e][v]}
<1>0. \A e \in 0 .. k : M[e] \in [Validator -> Nat] /\ P[e] \in [Validator -> Nat]
  BY AccByType
<1>1. 0 \in N
  BY SMT DEF AccBy, Clean
<1>2. ASSUME NEW e \in Nat, e \in N PROVE e + 1 \in N
  <2>. SUFFICES ASSUME e + 1 <= k, NEW v \in Validator PROVE M[e + 1][v] <= P[e + 1][v]
    BY SMT
  <2>1. M[e][v] \in Nat /\ P[e][v] \in Nat /\ M[e][v] <= P[e][v]
    BY <1>0, <1>2, SMT
  <2>2. /\ M[e + 1][v] = Fold(M[e][v], PointsOf(Named(m, K, v, e + 1)), e + 1)
        /\ P[e + 1][v] = Fold(P[e][v], PointsOf(Named(m, L, v, e + 1)), e + 1)
    BY AccByStep, SMT
  <2>3. /\ Named(m, K, v, e + 1) \in SUBSET Named(m, L, v, e + 1)
        /\ Named(m, L, v, e + 1) \subseteq ReportsOf(m, Len(m))
        /\ Named(m, K, v, e + 1) \subseteq ReportsOf(m, Len(m))
    BY DEF Named
  <2>4. /\ PointsOf(Named(m, K, v, e + 1)) \in Nat
        /\ PointsOf(Named(m, L, v, e + 1)) \in Nat
        /\ PointsOf(Named(m, K, v, e + 1)) <= PointsOf(Named(m, L, v, e + 1))
    BY <2>3, PointsFacts
  <2>5. \A a, b, p, q \in Nat : a <= b /\ p <= q => Fold(a, p, e + 1) <= Fold(b, q, e + 1)
    BY FoldFacts, SMT
  <2>. QED  BY <2>1, <2>2, <2>4, <2>5
<1>. HIDE DEF N
<1>3. \A e \in Nat : e \in N
  BY <1>1, <1>2, NatSetInduction
<1>. QED  BY <1>3, SMT DEF N

\* Blocks that come later do not change what was counted.
LEMMA AccByLasts ==
    ASSUME NEW m, NEW l, Len(m) \in Nat, Len(l) \in Nat, Len(m) <= Len(l),
           \A h \in 1 .. Len(m) : l[h] = m[h],
           NEW K, K \subseteq Places(m), NEW k \in Nat, NEW M, AccBy(M, m, K, k)
    PROVE  AccBy(M, l, K, k) /\ K \subseteq Places(l)
<1>1. ReportsOf(m, Len(m)) = ReportsOf(l, Len(m))
  <2>. DEFINE At(c, h) == {[at |-> <<h, i>>, r |-> c[h].reports[i]] : i \in 1 .. Len(c[h].reports)}
              Of(c) == UNION {At(c, h) : h \in 1 .. Len(m)}
  <2>1. \A h \in 1 .. Len(m) : At(l, h) = At(m, h)
    OBVIOUS
  <2>2. ReportsOf(m, Len(m)) = Of(m) /\ ReportsOf(l, Len(m)) = Of(l)
    BY DEF ReportsOf
  <2>. HIDE DEF At
  <2>3. Of(m) = Of(l)
    BY <2>1
  <2>. HIDE DEF Of
  <2>. QED  BY <2>2, <2>3
<1>2. ReportsOf(m, Len(m)) \subseteq ReportsOf(l, Len(l))
  BY <1>1, ReportsOfPart, SMT
<1>3. ASSUME NEW v, NEW e PROVE Named(l, K, v, e) = Named(m, K, v, e)
  <2>1. ASSUME NEW x \in ReportsOf(l, Len(l)), x.at \in K PROVE x \in ReportsOf(m, Len(m))
    <3>1. PICK y \in ReportsOf(m, Len(m)) : y.at = x.at
      BY <2>1 DEF Places
    <3>2. y \in ReportsOf(l, Len(m))
      BY <1>1
    <3>. QED  BY <3>1, <3>2, PlaceTellsReport, SMT
  <2>. QED  BY <1>2, <2>1 DEF Named
<1>4. K \subseteq Places(l)
  BY <1>2 DEF Places
<1>. QED  BY <1>3, <1>4, SMT DEF AccBy

-----------------------------------------------------------------------------
(* Epochs, and what a node's accumulators rest on. *)

-----------------------------------------------------------------------------
(* The accumulators of a node. *)

\* Epochs count from 1.
LEMMA EpochFacts ==
    ASSUME NEW h \in Nat
    PROVE  HeightToEpoch(h) \in Nat /\ HeightToEpoch(h) >= 1
<1>1. EpochLength \in Nat /\ EpochLength > 0
  BY MalusAssumption, SMT
<1>2. h \div EpochLength \in Nat
  BY <1>1, QuotientFacts
<1>. QED  BY <1>2, SMT DEF HeightToEpoch

\* A node's accumulators are natural numbers.
LEMMA AccumulatorType ==
    ASSUME NEW n \in Node, CarriesReports(main), tip[n] \in 0 .. Len(main)
    PROVE  \A e \in Nat : GetAccumulators(n, e) \in [Validator -> Nat]
<1>. DEFINE N == {e \in Nat : GetAccumulators(n, e) \in [Validator -> Nat]}
<1>1. 0 \in N
  BY AccumulatorRecursion, SMT DEF Clean
<1>2. ASSUME NEW e \in Nat, e \in N PROVE e + 1 \in N
  <2>1. GetAccumulators(n, e + 1) = AccStep(n, GetAccumulators(n, e), e + 1)
    BY AccumulatorRecursion
  <2>2. GetAccumulators(n, e) \in [Validator -> Nat]
    BY <1>2
  <2>3. ASSUME NEW v \in Validator, NEW psi
        PROVE  Fold(GetAccumulators(n, e)[v], PointsOf(Kept(n, v, e + 1, psi)), e + 1) \in Nat
    <3>1. Kept(n, v, e + 1, psi) \subseteq ReportsOf(main, Len(main))
      <4>1. Kept(n, v, e + 1, psi) \subseteq ReportsOf(main, tip[n])
        BY DEF Kept, ReadAllReports
      <4>2. Len(main) \in Nat
        BY DEF CarriesReports
      <4>. QED  BY <4>1, <4>2, ReportsOfPart
    <3>2. PointsOf(Kept(n, v, e + 1, psi)) \in Nat
      BY <3>1, PointsFacts
    <3>3. GetAccumulators(n, e)[v] \in Nat
      BY <2>2
    <3>4. e + 1 \in Nat
      BY SMT
    <3>. QED  BY <3>2, <3>3, <3>4, FoldType
  <2>4. AccStep(n, GetAccumulators(n, e), e + 1) \in [Validator -> Nat]
    BY <2>3 DEF AccStep
  <2>. QED  BY <2>1, <2>4, SMT
<1>. HIDE DEF N
<1>3. \A e \in Nat : e \in N
  BY <1>1, <1>2, NatSetInduction
<1>. QED  BY <1>3 DEF N

\* Whom no confirmed report of the epochs up to e accuses has no malus.
LEMMA UnreportedHaveNoMalus ==
    ASSUME NEW n \in Node, NEW v \in Validator, NEW k \in Nat,
           \A x \in ReadAllReports(n) : x.r.accused = v => HeightToEpoch(x.r.height) \notin 1 .. k
    PROVE  GetAccumulators(n, k)[v] = 0
<1>. DEFINE N == {e \in Nat : e <= k => GetAccumulators(n, e)[v] = 0}
<1>1. 0 \in N
  BY AccumulatorRecursion DEF Clean
<1>2. ASSUME NEW e \in Nat, e \in N PROVE e + 1 \in N
  <2>. SUFFICES ASSUME e + 1 <= k PROVE GetAccumulators(n, e + 1)[v] = 0
    BY SMT
  <2>1. GetAccumulators(n, e + 1) = AccStep(n, GetAccumulators(n, e), e + 1)
    BY AccumulatorRecursion
  <2>2. GetAccumulators(n, e)[v] = 0
    BY <1>2, SMT
  <2>3. \A psi : Kept(n, v, e + 1, psi) = {}
    BY SMT DEF Kept
  <2>4. AccStep(n, GetAccumulators(n, e), e + 1)[v] = Fold(0, 0, e + 1)
    BY <2>2, <2>3, NoPoints DEF AccStep
  <2>. QED  BY <2>1, <2>4, FoldOfNothing, SMT
<1>. HIDE DEF N
<1>3. \A e \in Nat : e \in N
  BY <1>1, <1>2, NatSetInduction
<1>. QED  BY <1>3, SMT DEF N

\* What a node counts tells its accumulators.
LEMMA CountedTellsAccumulators ==
    ASSUME NEW n \in Node, CarriesReports(main), tip[n] \in 0 .. Len(main),
           NEW h \in Nat, NEW k \in Nat, k = HeightToEpoch(h) - 1
    PROVE  /\ AccBy([e \in 0 .. k |-> GetAccumulators(n, e)], main, Counted(n, h), k)
           /\ Counted(n, h) \subseteq Places(main)
<1>. DEFINE M == [e \in 0 .. k |-> GetAccumulators(n, e)]
            X(v, e) == Kept(n, v, e, PsiPrev(n, v, e))
<1>0. ReadAllReports(n) \subseteq ReportsOf(main, Len(main))
  <2>1. Len(main) \in Nat
    BY DEF CarriesReports
  <2>. QED  BY <2>1, ReportsOfPart DEF ReadAllReports
<1>1. ASSUME NEW v \in Validator, NEW e \in 1 .. k
      PROVE  X(v, e) = Named(main, Counted(n, h), v, e)
  <2>1. ASSUME NEW x \in X(v, e) PROVE x \in Named(main, Counted(n, h), v, e)
    <3>1. x \in ReadAllReports(n) /\ x.r.accused = v /\ HeightToEpoch(x.r.height) = e
      BY DEF Kept
    <3>2. x.at \in Counted(n, h)
      <4>. HIDE DEF X
      <4>. QED  BY SMT DEF Counted, X
    <3>. QED  BY <1>0, <3>1, <3>2 DEF Named
  <2>2. ASSUME NEW x \in Named(main, Counted(n, h), v, e) PROVE x \in X(v, e)
    <3>1. /\ x \in ReportsOf(main, Len(main)) /\ x.at \in Counted(n, h)
          /\ x.r.accused = v /\ HeightToEpoch(x.r.height) = e
      BY DEF Named
    <3>2. PICK u \in Validator, d \in 1 .. HeightToEpoch(h) - 1 :
            \E y \in X(u, d) : y.at = x.at
      BY <3>1, SMT DEF Counted
    <3>3. PICK y \in X(u, d) : y.at = x.at
      BY <3>2
    <3>4. /\ y \in ReportsOf(main, tip[n])
          /\ y.r.accused = u /\ HeightToEpoch(y.r.height) = d
      BY DEF Kept, ReadAllReports
    <3>5. y = x
      BY <3>1, <3>3, <3>4, PlaceTellsReport
    <3>. QED  BY <3>1, <3>3, <3>4, <3>5
  <2>. HIDE DEF X
  <2>. QED  BY <2>1, <2>2
<1>2. M[0] = Clean
  BY AccumulatorRecursion, SMT
<1>3. ASSUME NEW e \in 1 .. k
      PROVE  M[e] = [v \in Validator |->
                       Fold(M[e - 1][v], PointsOf(Named(main, Counted(n, h), v, e)), e)]
  <2>1. e - 1 \in Nat /\ (e - 1) + 1 = e /\ e - 1 \in 0 .. k /\ e \in 0 .. k
    BY SMT
  <2>2. GetAccumulators(n, e) = AccStep(n, GetAccumulators(n, e - 1), e)
    BY <2>1, AccumulatorRecursion
  <2>3. M[e] = GetAccumulators(n, e) /\ M[e - 1] = GetAccumulators(n, e - 1)
    BY <2>1
  <2>4. AccStep(n, GetAccumulators(n, e - 1), e)
          = [v \in Validator |-> Fold(GetAccumulators(n, e - 1)[v], PointsOf(X(v, e)), e)]
    BY DEF AccStep, PsiPrev
  <2>. HIDE DEF M, X
  <2>. QED  BY <1>1, <2>2, <2>3, <2>4
<1>4. Counted(n, h) \subseteq Places(main)
  BY <1>0, SMT DEF Counted, Places, Kept
<1>. HIDE DEF M
<1>5. AccBy(M, main, Counted(n, h), k)
  BY <1>2, <1>3 DEF AccBy
<1>. QED  BY <1>4, <1>5 DEF M

-----------------------------------------------------------------------------
(* The decay of a malus. *)

\* The powers of a smaller base fall behind by any factor.
LEMMA PowersPartByAnyFactor ==
    ASSUME NEW n \in Nat, NEW d \in Nat, n < d, NEW m \in Nat
    PROVE  \E k \in Nat : Power(n, k) * m < Power(d, k)
<1>0. /\ Power(n, 0) = 1 /\ Power(d, 0) = 1
      /\ \A k \in Nat : Power(n, k) \in Nat /\ Power(n, k + 1) = n * Power(n, k)
      /\ \A k \in Nat : Power(d, k) \in Nat /\ Power(d, k + 1) = d * Power(d, k)
  BY PowerFacts
<1>1. CASE n = 0
  <2>1. Power(n, 1) = 0 /\ Power(d, 1) = d
    <3>1. 0 \in Nat /\ 0 + 1 = 1
      BY SMT
    <3>2. Power(n, 0 + 1) = n * Power(n, 0) /\ Power(d, 0 + 1) = d * Power(d, 0)
      BY <1>0, <3>1
    <3>. QED  BY <1>0, <1>1, <3>1, <3>2, SMT
  <2>2. Power(n, 1) * m < Power(d, 1)
    BY <1>1, <2>1, SMT
  <2>. QED  BY <2>2
<1>2. CASE n > 0
  <2>. DEFINE G == {k \in Nat : (k + n) * Power(n, k) <= n * Power(d, k) /\ Power(n, k) > 0}
  <2>1. 0 \in G
    BY <1>0, SMT
  <2>2. ASSUME NEW k \in Nat, k \in G PROVE k + 1 \in G
    <3>1. Power(n, k) \in Nat /\ Power(d, k) \in Nat
      BY <1>0
    <3>2. (k + n) * Power(n, k) <= n * Power(d, k) /\ Power(n, k) > 0
      BY <2>2
    <3>3. (k + 1 + n) * (n * Power(n, k)) <= n * (d * Power(d, k))
      BY <3>1, <3>2, GrowthStep
    <3>4. n * Power(n, k) > 0
      BY <1>2, <3>1, <3>2, SMT
    <3>5. Power(n, k + 1) = n * Power(n, k) /\ Power(d, k + 1) = d * Power(d, k)
      BY <1>0
    <3>. QED  BY <3>3, <3>4, <3>5, SMT
  <2>. HIDE DEF G
  <2>3. \A k \in Nat : k \in G
    BY <2>1, <2>2, NatSetInduction
  <2>. DEFINE k == n * m
              x == Power(n, k)
              y == Power(d, k)
  <2>4. k \in Nat
    BY SMT
  <2>5. (k + n) * x <= n * y /\ x > 0 /\ x \in Nat /\ y \in Nat
    <3>. HIDE DEF k
    <3>. QED  BY <1>0, <2>3, <2>4 DEF G
  <2>6. (n * m + n) * x <= n * y
    BY <2>5
  <2>. HIDE DEF x, y
  <2>7. n * ((m + 1) * x) <= n * y
    BY <2>5, <2>6, SMT
  <2>8. (m + 1) * x <= y
    <3>1. (m + 1) * x \in Nat
      BY <2>5, SMT
    <3>. DEFINE z == (m + 1) * x
    <3>. HIDE DEF z
    <3>2. z \in Nat /\ n * z <= n * y
      BY <2>7, <3>1 DEF z
    <3>3. z <= y
      BY <1>2, <2>5, <3>2, SMT
    <3>. QED  BY <3>3 DEF z
  <2>9. x * m < y
    BY <2>5, <2>8, SMT
  <2>. QED  BY <2>4, <2>9 DEF x, y
<1>. QED  BY <1>1, <1>2, SMT

\* The malus of k clean epochs after e is below the threshold.
Below(m, e) == {k \in Nat : Power(MuNum, k) * m < MMax * Scale(e + k)}
NotAbove(m, e) == {k \in Nat : Power(MuNum, k) * m <= MMax * Scale(e + k)}

\* Clean epochs bring any malus below the threshold, and it stays there.
LEMMA MalusDecays ==
    ASSUME NEW m \in Nat, NEW e \in Nat
    PROVE  \A k \in Nat : \E j \in Below(m, e) : j \in Nat /\ j >= k
<1>1. MuNum \in Nat /\ MuDen \in Nat /\ MuNum < MuDen /\ MMax \in Nat /\ MMax > 0
  BY MalusAssumption, SMT
<1>2. \A k \in Nat : Power(MuNum, k) \in Nat /\ Power(MuNum, k + 1) = MuNum * Power(MuNum, k)
  BY <1>1, PowerFacts
<1>3. \A k \in Nat : Power(MuDen, k) \in Nat /\ Power(MuDen, k + 1) = MuDen * Power(MuDen, k)
  BY <1>1, PowerFacts
<1>4. \A k \in Nat : Scale(k) \in Nat /\ Scale(k) > 0 /\ Scale(k + 1) = MuDen * Scale(k)
  BY ScaleFacts
<1>5. PICK j \in Nat : Power(MuNum, j) * m < Power(MuDen, j)
  BY <1>1, PowersPartByAnyFactor
<1>6. \A k \in Nat : Power(MuDen, k) <= Scale(e + k)
  <2>. DEFINE A == {k \in Nat : Power(MuDen, k) <= Scale(e + k)}
  <2>1. 0 \in A
    <3>1. Power(MuDen, 0) = 1
      BY <1>1, PowerFacts
    <3>2. e + 0 = e /\ 0 \in Nat
      BY SMT
    <3>3. Scale(e) >= 1
      BY <1>4, SMT
    <3>. QED  BY <3>1, <3>2, <3>3
  <2>2. ASSUME NEW k \in Nat, k \in A PROVE k + 1 \in A
    <3>1. Power(MuDen, k) \in Nat /\ Power(MuDen, k + 1) = MuDen * Power(MuDen, k)
      BY <1>3
    <3>2. e + k \in Nat /\ e + (k + 1) = (e + k) + 1 /\ k + 1 \in Nat
      BY SMT
    <3>3. Scale(e + k) \in Nat /\ Scale((e + k) + 1) = MuDen * Scale(e + k)
      BY <1>4, <3>2
    <3>4. MuDen * Power(MuDen, k) <= MuDen * Scale(e + k)
      BY <1>1, <2>2, <3>1, <3>3, ProductIsMonotonic
    <3>5. Power(MuDen, k + 1) <= Scale(e + (k + 1))
      BY <3>1, <3>2, <3>3, <3>4
    <3>. QED  BY <3>2, <3>5
  <2>. HIDE DEF A
  <2>3. \A k \in Nat : k \in A
    BY <2>1, <2>2, NatSetInduction
  <2>. QED  BY <2>3 DEF A
<1>7. j \in Below(m, e)
  <2>1. /\ Power(MuNum, j) \in Nat /\ Power(MuDen, j) \in Nat
        /\ e + j \in Nat /\ Power(MuDen, j) <= Scale(e + j)
    BY <1>2, <1>3, <1>6, SMT
  <2>2. Scale(e + j) \in Nat
    BY <1>4, <2>1
  <2>. DEFINE a == Power(MuNum, j) * m
              s == Scale(e + j)
  <2>3. a \in Nat
    BY <2>1, SMT
  <2>4. a < s
    BY <1>5, <2>1, <2>2, <2>3, SMT
  <2>. HIDE DEF a, s
  <2>5. s <= MMax * s
    BY <1>1, <2>2, SMT DEF s
  <2>6. MMax * s \in Nat
    BY <1>1, <2>2, SMT DEF s
  <2>7. a < MMax * s
    BY <2>2, <2>3, <2>4, <2>5, <2>6, SMT DEF s
  <2>. QED  BY <2>7 DEF Below, a, s
<1>8. ASSUME NEW k \in Nat, k \in Below(m, e) PROVE k + 1 \in Below(m, e)
  <2>1. e + k \in Nat /\ e + (k + 1) = (e + k) + 1 /\ k + 1 \in Nat
    BY SMT
  <2>2. Power(MuNum, k) \in Nat /\ Power(MuNum, k + 1) = MuNum * Power(MuNum, k)
    BY <1>2
  <2>3. Scale(e + k) \in Nat /\ Scale(e + k) > 0 /\ Scale((e + k) + 1) = MuDen * Scale(e + k)
    BY <1>4, <2>1
  <2>. DEFINE p == Power(MuNum, k)
              s == Scale(e + k)
  <2>4. p * m < MMax * s
    BY <1>8 DEF Below
  <2>5. (MuNum * p) * m < MMax * (MuDen * s)
    <3>. HIDE DEF p, s
    <3>1. p \in Nat /\ s \in Nat /\ s > 0
      BY <2>2, <2>3 DEF p, s
    <3>. DEFINE a == p * m
                t == MMax * s
    <3>2. a \in Nat /\ t \in Nat /\ t > 0
      BY <1>1, <3>1, SMT
    <3>3. (MuNum * p) * m = MuNum * a /\ MMax * (MuDen * s) = MuDen * t
      BY <1>1, <3>1, SMT
    <3>4. a < t
      BY <2>4
    <3>. HIDE DEF a, t
    <3>5. MuNum * a <= MuNum * t
      BY <1>1, <3>2, <3>4, SMT
    <3>6. MuNum * t < MuDen * t
      BY <1>1, <3>2, SMT
    <3>7. MuNum * a \in Nat /\ MuNum * t \in Nat /\ MuDen * t \in Nat
      BY <1>1, <3>2, SMT
    <3>8. MuNum * a < MuDen * t
      BY <3>5, <3>6, <3>7, SMT
    <3>. QED  BY <3>3, <3>8
  <2>6. Power(MuNum, k + 1) * m < MMax * Scale(e + (k + 1))
    BY <2>1, <2>2, <2>3, <2>5
  <2>. QED  BY <2>1, <2>6, SMT DEF Below
<1>9. \A k \in Nat : j + k \in Below(m, e)
  <2>. DEFINE A == {k \in Nat : j + k \in Below(m, e)}
  <2>1. 0 \in A
    BY <1>7, SMT
  <2>2. ASSUME NEW k \in Nat, k \in A PROVE k + 1 \in A
    <3>1. j + k \in Nat /\ (j + k) + 1 = j + (k + 1) /\ j + k \in Below(m, e)
      BY <2>2, SMT
    <3>2. (j + k) + 1 \in Below(m, e)
      BY <1>8, <3>1, SMT
    <3>. QED  BY <3>1, <3>2, SMT
  <2>. HIDE DEF A
  <2>3. \A k \in Nat : k \in A
    BY <2>1, <2>2, NatSetInduction
  <2>. QED  BY <2>3 DEF A
<1>. SUFFICES ASSUME NEW k \in Nat PROVE \E i \in Below(m, e) : i \in Nat /\ i >= k
  OBVIOUS
<1>10. j + k \in Below(m, e) /\ j + k \in Nat /\ j + k >= k
  BY <1>9, SMT
<1>. QED  BY <1>10

\* The search of the closed form and the loop that settles it.
LEMMA ClearingIsSearched ==
    ASSUME NEW m \in Nat, NEW e \in Nat, ~(m < MMax * Scale(e))
    PROVE  \E f, g : /\ IsSearch(f, NotAbove(m, e))
                     /\ IsSearch(g, Below(m, e))
                     /\ EpochsToClear(m, e) = g[f[1]]
<1>. DEFINE Closed(f) == f = [k \in Nat |-> IF Power(MuNum, k) * m <= MMax * Scale(e + k)
                                          THEN k ELSE f[k + 1]]
            Loop(g) == g = [k \in Nat |-> IF Power(MuNum, k) * m < MMax * Scale(e + k)
                                          THEN k ELSE g[k + 1]]
            F == CHOOSE f : Closed(f)
            G == CHOOSE g : Loop(g)
<1>1. \A f : IsSearch(f, NotAbove(m, e)) <=> Closed(f)
  <2>. TAKE f
  <2>1. [k \in Nat |-> IF k \in NotAbove(m, e) THEN k ELSE f[k + 1]]
        = [k \in Nat |-> IF Power(MuNum, k) * m <= MMax * Scale(e + k) THEN k ELSE f[k + 1]]
    BY DEF NotAbove
  <2>. QED  BY <2>1 DEF IsSearch
<1>2. \A g : IsSearch(g, Below(m, e)) <=> Loop(g)
  <2>. TAKE g
  <2>1. [k \in Nat |-> IF k \in Below(m, e) THEN k ELSE g[k + 1]]
        = [k \in Nat |-> IF Power(MuNum, k) * m < MMax * Scale(e + k) THEN k ELSE g[k + 1]]
    BY DEF Below
  <2>. QED  BY <2>1 DEF IsSearch
<1>3. \A k \in Nat : \E j \in Below(m, e) : j \in Nat /\ j >= k
  BY MalusDecays
<1>4. Below(m, e) \subseteq NotAbove(m, e)
  <2>1. ASSUME NEW k \in Nat, Power(MuNum, k) * m < MMax * Scale(e + k)
        PROVE  Power(MuNum, k) * m <= MMax * Scale(e + k)
    <3>1. MuNum \in Nat /\ MMax \in Nat
      BY MalusAssumption
    <3>2. e + k \in Nat
      BY SMT
    <3>3. Power(MuNum, k) \in Nat /\ Scale(e + k) \in Nat
      BY <3>1, <3>2, PowerFacts, ScaleFacts
    <3>. QED  BY <2>1, <3>1, <3>3, SMT
  <2>. QED  BY <2>1 DEF Below, NotAbove
<1>5. \A k \in Nat : \E j \in NotAbove(m, e) : j \in Nat /\ j >= k
  BY <1>3, <1>4
<1>6. Closed(F)
  <2>1. \E f : Closed(f)
    BY <1>1, <1>5, SearchExists
  <2>. QED  BY <2>1
<1>7. Loop(G)
  <2>1. \E g : Loop(g)
    BY <1>2, <1>3, SearchExists
  <2>. QED  BY <2>1
<1>8. EpochsToClear(m, e) = G[F[1]]
  BY DEF EpochsToClear, EpochsToClearClosedForm
<1>. HIDE DEF F, G, Closed, Loop
<1>9. IsSearch(F, NotAbove(m, e)) /\ IsSearch(G, Below(m, e))
  BY <1>1, <1>2, <1>6, <1>7
<1>. QED  BY <1>8, <1>9

\* EpochsToClear is the least number of clean epochs that lift the exclusion.
LEMMA ClearsAtLast ==
    ASSUME NEW m \in Nat, NEW e \in Nat
    PROVE  /\ EpochsToClear(m, e) \in Nat
           /\ \A k \in 0 .. EpochsToClear(m, e) :
                 Power(MuNum, k) * m < MMax * Scale(e + k) <=> k = EpochsToClear(m, e)
<1>0. MuNum \in Nat /\ MMax \in Nat
  BY MalusAssumption
<1>1. Power(MuNum, 0) * m = m /\ e + 0 = e
  BY <1>0, PowerFacts, SMT
<1>2. CASE m < MMax * Scale(e)
  <2>1. EpochsToClear(m, e) = 0
    BY <1>2 DEF EpochsToClear
  <2>. QED  BY <1>1, <1>2, <2>1, SMT
<1>3. CASE ~(m < MMax * Scale(e))
  <2>1. PICK f, g : /\ IsSearch(f, NotAbove(m, e))
                    /\ IsSearch(g, Below(m, e))
                    /\ EpochsToClear(m, e) = g[f[1]]
    BY <1>3, ClearingIsSearched
  <2>2. \A k \in Nat : \E j \in Below(m, e) : j \in Nat /\ j >= k
    BY MalusDecays
  <2>3. \A k \in Nat : k \in Below(m, e) => k \in NotAbove(m, e)
    <3>1. ASSUME NEW k \in Nat, Power(MuNum, k) * m < MMax * Scale(e + k)
          PROVE  Power(MuNum, k) * m <= MMax * Scale(e + k)
      <4>1. e + k \in Nat
        BY SMT
      <4>2. Power(MuNum, k) \in Nat /\ Scale(e + k) \in Nat
        BY <1>0, <4>1, PowerFacts, ScaleFacts
      <4>. QED  BY <1>0, <3>1, <4>2, SMT
    <3>. QED  BY <3>1 DEF Below, NotAbove
  <2>4. /\ f[1] \in Nat /\ f[1] \in NotAbove(m, e) /\ f[1] >= 1
        /\ \A i \in 1 .. f[1] - 1 : i \notin NotAbove(m, e)
    <3>1. \E j \in NotAbove(m, e) : j \in Nat /\ j >= 1
      BY <2>2, <2>3
    <3>2. 1 \in Nat
      OBVIOUS
    <3>. QED  BY <2>1, <3>1, <3>2, SearchFinds
  <2>. DEFINE k1 == f[1]
              c == g[k1]
  <2>5. /\ c \in Nat /\ c \in Below(m, e) /\ c >= k1
        /\ \A i \in k1 .. c - 1 : i \notin Below(m, e)
    BY <2>1, <2>2, <2>4, SearchFinds
  <2>6. EpochsToClear(m, e) = c /\ k1 \in Nat /\ \A i \in 1 .. k1 - 1 : i \notin NotAbove(m, e)
    BY <2>1, <2>4
  <2>7. 0 \notin Below(m, e)
    BY <1>1, <1>3 DEF Below
  <2>. HIDE DEF c, k1
  <2>8. \A k \in 0 .. c : k \in Below(m, e) <=> k = c
    <3>. TAKE k \in 0 .. c
    <3>0. k \in Nat
      BY <2>5, SMT
    <3>1. CASE k = 0
      BY <2>5, <2>7, <3>1
    <3>2. CASE k \in 1 .. k1 - 1
      <4>1. k \notin Below(m, e)
        BY <2>3, <2>6, <3>0, <3>2, SMT
      <4>. QED  BY <2>5, <4>1
    <3>3. CASE k \in k1 .. c - 1
      <4>1. k \notin Below(m, e)
        BY <2>5, <3>3
      <4>. QED  BY <2>5, <4>1
    <3>4. CASE k = c
      BY <2>5, <3>4
    <3>5. k = 0 \/ k \in 1 .. k1 - 1 \/ k \in k1 .. c - 1 \/ k = c
      BY <2>5, <2>6, <3>0, SMT
    <3>. QED  BY <3>1, <3>2, <3>3, <3>4, <3>5
  <2>9. \A k \in 0 .. c : Power(MuNum, k) * m < MMax * Scale(e + k) <=> k = c
    BY <2>5, <2>8, SMT DEF Below
  <2>. QED  BY <2>5, <2>6, <2>9
<1>. QED  BY <1>2, <1>3

\* Later heights belong to later epochs.
LEMMA EpochsAreMonotonic ==
    ASSUME NEW h \in Nat, NEW l \in Nat, h <= l
    PROVE  HeightToEpoch(h) <= HeightToEpoch(l)
<1>1. EpochLength \in Nat /\ EpochLength > 0
  BY MalusAssumption, SMT
<1>2. h \div EpochLength <= l \div EpochLength
  BY <1>1, QuotientIsMonotonic
<1>3. h \div EpochLength \in Nat /\ l \div EpochLength \in Nat
  BY <1>1, QuotientFacts
<1>. QED  BY <1>2, <1>3, SMT DEF HeightToEpoch

-----------------------------------------------------------------------------
(* The books: what blocks and reports look like, and by what an honest     *)
(* miner set its block's offset.                                           *)

\* The weights of a round before and after the correction by the accumulators M.
WeightsBefore(m, h) == IF h - 1 < 1 THEN InitialWeight ELSE m[h - 1].weights
Corrected(m, M, h) ==
    IF HeightToEpoch(h) < 2 THEN WeightsBefore(m, h)
    ELSE [v \in Validator |->
            EffectiveWeight(WeightsBefore(m, h)[v],
                            CorrectionFactor(M[HeightToEpoch(h) - 1][v], HeightToEpoch(h) - 1))]

\* The block's offset is the delay its miner had by the reports it counted.
SetByCount(m, b) ==
    /\ b.counted \subseteq Places(m)
    /\ \E M : /\ AccBy(M, m, b.counted, HeightToEpoch(b.height) - 1)
              /\ Corrected(m, M, b.height)[b.by] # 0
              /\ b.offset = MiningDelay(Corrected(m, M, b.height), b.by, b.height)

\* A report about no later height than top.
IsRecord(r, top) == IsReport(r) /\ r.height <= top

\* The blocks and the reports they carry are in order; an honest block's offset
\* is the delay that what it counted makes.
ChainOK(m) ==
    /\ Len(m) \in 0 .. MaxHeight
    /\ \A i \in 1 .. Len(m) :
          /\ IsBlock(m[i])
          /\ m[i].height = i
          /\ Len(m[i].reports) \in Nat
          /\ \A j \in 1 .. Len(m[i].reports) : IsRecord(m[i].reports[j], i)
SidesOK(m, S) == \A b \in S : IsBlock(b) /\ b.height <= Len(m) + 1
PoolOK(m, p) == Len(p) \in Nat /\ \A j \in 1 .. Len(p) : IsRecord(p[j], Len(m) + 1)
HonestOK(m, S) ==
    \A b \in S \cup {m[i] : i \in 1 .. Len(m)} : b.by \notin Faulty => SetByCount(m, b)

BookInv ==
    /\ ChainOK(main)
    /\ SidesOK(main, sides)
    /\ PoolOK(main, pool)
    /\ HonestOK(main, sides)
    /\ reports \in 0 .. MaxReports
    /\ offences \in 0 .. MaxOffences

\* The bounds of the model are numbers.
LEMMA Bounds ==
    /\ MaxHeight \in Nat /\ MaxSides \in Nat
    /\ MaxOffences \in Nat /\ MaxReports \in Nat
  BY MalusAssumption

\* A chain in order carries reports.
LEMMA BooksCarryReports ==
    ASSUME NEW m, ChainOK(m)
    PROVE  CarriesReports(m)
  BY Bounds, SMT DEF ChainOK, CarriesReports, IsRecord

\* The delay of a round is a number of seconds.
LEMMA MiningDelayType ==
    ASSUME NEW w \in [Validator -> Nat], NEW v \in Validator, w[v] # 0,
           NEW h \in 1 .. MaxHeight
    PROVE  /\ Total(w) \in Nat
           /\ Luck[v][h] \in Nat
           /\ Luck[v][h] * Total(w) \in Nat
           /\ MiningDelay(w, v, h) \in Nat
<1>1. Total(w) \in Nat
  <2>1. IsFiniteSet(Validator) /\ \A u \in Validator : w[u] \in Nat
    BY MalusAssumption
  <2>. QED  BY <2>1, SumOfNaturals DEF Total
<1>2. Luck[v][h] \in Nat
  BY MalusAssumption, SMT
<1>3. Luck[v][h] * Total(w) \in Nat
  <2>1. \A a, b \in Nat : a * b \in Nat
    BY SMT
  <2>. QED  BY <1>1, <1>2, <2>1
<1>4. w[v] \in Nat /\ w[v] > 0
  BY SMT
<1>. QED  BY <1>1, <1>2, <1>3, <1>4, QuotientFacts DEF MiningDelay

\* The weights before a block.
LEMMA WeightsBeforeFacts ==
    ASSUME NEW m, ChainOK(m), NEW h \in 1 .. Len(m) + 1
    PROVE  WeightsBefore(m, h) \in [Validator -> Nat \ {0}]
<1>1. Len(m) \in Nat
  BY Bounds, SMT DEF ChainOK
<1>2. CASE h - 1 < 1
  BY <1>1, <1>2, MalusAssumption DEF WeightsBefore
<1>3. CASE ~(h - 1 < 1)
  <2>1. h - 1 \in 1 .. Len(m)
    BY <1>1, <1>3, SMT
  <2>. QED  BY <1>3, <2>1 DEF WeightsBefore, ChainOK, IsBlock
<1>. QED  BY <1>2, <1>3

\* The corrected weights, by accumulators of the right kind.
LEMMA CorrectedFacts ==
    ASSUME NEW m, ChainOK(m), NEW h \in 1 .. Len(m) + 1, NEW M,
           M[HeightToEpoch(h) - 1] \in [Validator -> Nat]
    PROVE  /\ Corrected(m, M, h) \in [Validator -> Nat]
           /\ \A v \in Validator :
                 /\ Corrected(m, M, h)[v] <= WeightsBefore(m, h)[v]
                 /\ M[HeightToEpoch(h) - 1][v] = 0 =>
                       Corrected(m, M, h)[v] = WeightsBefore(m, h)[v]
<1>. DEFINE e == HeightToEpoch(h)
            W == WeightsBefore(m, h)
<1>1. e \in Nat /\ e >= 1
  <2>1. h \in Nat
    BY Bounds, SMT DEF ChainOK
  <2>. QED  BY <2>1, EpochFacts
<1>2. W \in [Validator -> Nat]
  BY WeightsBeforeFacts, SMT
<1>. HIDE DEF e, W
<1>3. CASE e < 2
  <2>1. Corrected(m, M, h) = W
    BY <1>3 DEF Corrected, e, W
  <2>2. \A v \in Validator : W[v] \in Nat /\ W[v] <= W[v]
    BY <1>2, SMT
  <2>. QED  BY <1>2, <2>1, <2>2 DEF e, W
<1>4. CASE ~(e < 2)
  <2>1. Corrected(m, M, h)
          = [v \in Validator |-> EffectiveWeight(W[v], CorrectionFactor(M[e - 1][v], e - 1))]
    BY <1>4 DEF Corrected, e, W
  <2>2. ASSUME NEW v \in Validator
        PROVE  /\ EffectiveWeight(W[v], CorrectionFactor(M[e - 1][v], e - 1)) \in Nat
               /\ EffectiveWeight(W[v], CorrectionFactor(M[e - 1][v], e - 1)) <= W[v]
               /\ M[e - 1][v] = 0 =>
                     EffectiveWeight(W[v], CorrectionFactor(M[e - 1][v], e - 1)) = W[v]
    <3>. DEFINE a == M[e - 1][v]
                psi == CorrectionFactor(a, e - 1)
    <3>1. a \in Nat /\ W[v] \in Nat /\ e - 1 \in Nat
      BY <1>1, <1>2, SMT DEF e
    <3>2. IsFactor(psi) /\ (a = 0 => psi.num = psi.den)
      <4>. HIDE DEF a
      <4>. QED  BY <3>1, CorrectionFactorFacts
    <3>. HIDE DEF a, psi
    <3>3. /\ EffectiveWeight(W[v], psi) \in Nat
          /\ EffectiveWeight(W[v], psi) <= W[v]
          /\ psi.num = psi.den => EffectiveWeight(W[v], psi) = W[v]
      BY <3>1, <3>2, EffectiveWeightFacts
    <3>. QED  BY <3>2, <3>3 DEF a, psi
  <2>. QED  BY <2>1, <2>2 DEF e, W
<1>. QED  BY <1>3, <1>4

-----------------------------------------------------------------------------
(* The steps keep the books. *)

\* How an honest miner set its offset is not changed by later blocks.
LEMMA SetByCountLasts ==
    ASSUME NEW m, NEW l, Len(m) \in Nat, Len(l) \in Nat, Len(m) <= Len(l),
           \A h \in 1 .. Len(m) : l[h] = m[h],
           NEW b, b.height \in 1 .. Len(m) + 1, SetByCount(m, b)
    PROVE  SetByCount(l, b)
<1>. DEFINE k == HeightToEpoch(b.height) - 1
<1>1. k \in Nat
  <2>1. b.height \in Nat
    BY SMT
  <2>2. HeightToEpoch(b.height) \in Nat /\ HeightToEpoch(b.height) >= 1
    BY <2>1, EpochFacts
  <2>. QED  BY <2>2, SMT
<1>2. b.counted \subseteq Places(m)
  BY DEF SetByCount
<1>3. PICK M : /\ AccBy(M, m, b.counted, k)
               /\ Corrected(m, M, b.height)[b.by] # 0
               /\ b.offset = MiningDelay(Corrected(m, M, b.height), b.by, b.height)
  BY DEF SetByCount
<1>4. AccBy(M, l, b.counted, k) /\ b.counted \subseteq Places(l)
  <2>. HIDE DEF k
  <2>. QED  BY <1>1, <1>2, <1>3, AccByLasts
<1>5. WeightsBefore(l, b.height) = WeightsBefore(m, b.height)
  BY SMT DEF WeightsBefore
<1>6. Corrected(l, M, b.height) = Corrected(m, M, b.height)
  BY <1>5 DEF Corrected
<1>. QED  BY <1>3, <1>4, <1>6 DEF SetByCount

\* The weights a node scores a round by are those of its accumulators.
LEMMA RoundWeightsFacts ==
    ASSUME BookInv, NEW n \in Node, tip[n] \in 0 .. Len(main), NEW h \in 1 .. Len(main) + 1,
           NEW k, k = HeightToEpoch(h) - 1
    PROVE  /\ k \in Nat
           /\ \E M : /\ M = [e \in 0 .. k |-> GetAccumulators(n, e)]
                     /\ AccBy(M, main, Counted(n, h), k)
                     /\ M[k] = GetAccumulators(n, k)
                     /\ M[k] \in [Validator -> Nat]
                     /\ RoundWeights(n, h) = Corrected(main, M, h)
           /\ Counted(n, h) \subseteq Places(main)
           /\ RoundWeights(n, h) \in [Validator -> Nat]
           /\ WeightsAsOf(h - 1) = WeightsBefore(main, h)
           /\ WeightsAsOf(h - 1) \in [Validator -> Nat \ {0}]
<1>. DEFINE M == [e \in 0 .. k |-> GetAccumulators(n, e)]
<1>1. ChainOK(main) /\ CarriesReports(main) /\ h \in Nat /\ Len(main) \in Nat
  BY BooksCarryReports, SMT DEF BookInv, CarriesReports
<1>2. HeightToEpoch(h) \in Nat /\ HeightToEpoch(h) >= 1
  BY <1>1, EpochFacts
<1>3. k \in Nat
  BY <1>2, SMT
<1>4. M[k] = GetAccumulators(n, k)
  BY <1>3, SMT
<1>5. GetAccumulators(n, k) \in [Validator -> Nat]
  BY <1>1, <1>3, AccumulatorType
<1>6. AccBy(M, main, Counted(n, h), k) /\ Counted(n, h) \subseteq Places(main)
  BY <1>1, <1>3, CountedTellsAccumulators
<1>7. WeightsAsOf(h - 1) = WeightsBefore(main, h)
  BY DEF WeightsAsOf, WeightsBefore
<1>. HIDE DEF M
<1>8. RoundWeights(n, h) = Corrected(main, M, h)
  <2>1. CASE HeightToEpoch(h) < 2
    BY <1>7, <2>1 DEF RoundWeights, WPoAApplyMalus, Corrected
  <2>2. CASE ~(HeightToEpoch(h) < 2)
    <3>1. RoundWeights(n, h) = ApplyToWeights(n, WeightsBefore(main, h), k)
      BY <1>7, <2>2 DEF RoundWeights, WPoAApplyMalus
    <3>2. Corrected(main, M, h)
            = [v \in Validator |->
                 EffectiveWeight(WeightsBefore(main, h)[v], CorrectionFactor(M[k][v], k))]
      BY <2>2 DEF Corrected
    <3>. QED  BY <1>4, <3>1, <3>2 DEF ApplyToWeights
  <2>. QED  BY <2>1, <2>2
<1>9. RoundWeights(n, h) \in [Validator -> Nat]
  BY <1>1, <1>4, <1>5, <1>8, CorrectedFacts, SMT
<1>10. WeightsAsOf(h - 1) \in [Validator -> Nat \ {0}]
  BY <1>1, <1>7, WeightsBeforeFacts, SMT
<1>. QED  BY <1>3, <1>4, <1>5, <1>6, <1>7, <1>8, <1>9, <1>10 DEF M

\* A block without contents is one, and its miner's if it waited.
LEMMA PlainBlockFacts ==
    ASSUME BookInv, NEW v \in Validator, tip[v] \in 0 .. Len(main),
           NEW h \in 1 .. Len(main) + 1, h <= MaxHeight,
           NEW twin \in {1, 2}, NEW offset \in Nat,
           NEW b, b = Plain(v, h, twin, offset)
    PROVE  /\ IsBlock(b)
           /\ /\ RoundWeights(v, h)[v] # 0
              /\ offset = MiningDelay(RoundWeights(v, h), v, h)
              => SetByCount(main, b)
<1>0. v \in Node
  BY MalusAssumption
<1>1. /\ b.by = v /\ b.height = h /\ b.twin = twin /\ b.offset = offset
      /\ b.weights = WeightsAsOf(h - 1) /\ b.counted = Counted(v, h)
  BY DEF Plain
<1>2. h \in 1 .. MaxHeight
  BY Bounds, SMT DEF BookInv, ChainOK
<1>3. IsBlock(b)
  <2>1. WeightsAsOf(h - 1) \in [Validator -> Nat \ {0}]
    BY <1>0, RoundWeightsFacts
  <2>. QED  BY <1>1, <1>2, <2>1 DEF IsBlock
<1>4. ASSUME RoundWeights(v, h)[v] # 0, offset = MiningDelay(RoundWeights(v, h), v, h)
      PROVE  SetByCount(main, b)
  <2>1. PICK M : /\ AccBy(M, main, Counted(v, h), HeightToEpoch(h) - 1)
                 /\ RoundWeights(v, h) = Corrected(main, M, h)
    BY <1>0, RoundWeightsFacts
  <2>2. Counted(v, h) \subseteq Places(main)
    BY <1>0, RoundWeightsFacts
  <2>. QED  BY <1>1, <1>4, <2>1, <2>2, ZenonT(30) DEF SetByCount
<1>. QED  BY <1>3, <1>4

-----------------------------------------------------------------------------
(* The steps. *)

\* A block has a height.
LEMMA BlockHeight ==
    ASSUME NEW b, IsBlock(b)
    PROVE  b.height \in Nat /\ b.height >= 1 /\ b.height <= MaxHeight
<1>1. MaxHeight \in Nat
  BY MalusAssumption
<1>. QED  BY <1>1, SMT DEF IsBlock

\* A miner extends main.
LEMMA MainBlockKeepsBooks ==
    ASSUME BookInv, NEW S, main \in Seq(S), NEW m,
           main' = Append(main, m), Len(main) + 1 <= MaxHeight,
           IsBlock(m), m.height = Len(main) + 1, SetByCount(main, m),
           m.reports = pool \/ m.reports = << >>,
           pool' = pool \/ pool' = << >>,
           reports' = reports, offences' \in 0 .. MaxOffences, sides' = sides
    PROVE  BookInv'
<1>. DEFINE h == Len(main) + 1
<1>0. Len(main) \in Nat /\ Len(main') = h
  BY Appended, SMT
<1>1. /\ Len(main) \in Nat
      /\ Len(main') = h
      /\ \A i \in 1 .. Len(main) : main'[i] = main[i]
      /\ main'[h] = m
  BY Appended, SMT
<1>2. /\ Len(pool) \in Nat /\ Len(<< >>) = 0
      /\ \A j \in 1 .. Len(pool) : IsRecord(pool[j], h)
  BY DEF BookInv, PoolOK
<1>3. ChainOK(main')
  <2>1. Len(main') \in 0 .. MaxHeight
    BY <1>0, Bounds, SMT
  <2>2. ASSUME NEW i \in 1 .. Len(main')
        PROVE  /\ IsBlock(main'[i])
               /\ main'[i].height = i
               /\ Len(main'[i].reports) \in Nat
               /\ \A j \in 1 .. Len(main'[i].reports) : IsRecord(main'[i].reports[j], i)
    <3>1. CASE i \in 1 .. Len(main)
      BY <1>1, <3>1 DEF BookInv, ChainOK
    <3>2. CASE i = h
      BY <1>1, <1>2, <3>2, SMT
    <3>3. i \in 1 .. Len(main) \/ i = h
      BY <1>0, SMT
    <3>. QED  BY <3>1, <3>2, <3>3
  <2>. QED  BY <2>1, <2>2 DEF ChainOK
<1>4. SidesOK(main', sides')
  <2>. SUFFICES ASSUME NEW b \in sides PROVE IsBlock(b) /\ b.height <= Len(main') + 1
    BY DEF SidesOK
  <2>1. IsBlock(b) /\ b.height <= Len(main) + 1 /\ b.height \in Nat
    BY BlockHeight DEF BookInv, SidesOK
  <2>. QED  BY <1>0, <2>1, SMT
<1>5. PoolOK(main', pool')
  <2>1. ASSUME NEW r, IsRecord(r, h) PROVE IsRecord(r, Len(main') + 1)
    <3>0. r.height \in 1 .. MaxHeight
      BY <2>1 DEF IsRecord, IsReport
    <3>1. r.height \in Nat
      BY <3>0, Bounds, SMT
    <3>. QED  BY <1>0, <2>1, <3>1, SMT DEF IsRecord
  <2>. QED  BY <1>2, <2>1, SMT DEF PoolOK
<1>6. HonestOK(main', sides')
  <2>1. ASSUME NEW b, b.height \in 1 .. Len(main) + 1, SetByCount(main, b)
        PROVE  SetByCount(main', b)
    <3>1. Len(main') \in Nat /\ Len(main) <= Len(main')
      BY <1>0, SMT
    <3>. HIDE DEF h
    <3>. QED  BY <1>1, <2>1, <3>1, SetByCountLasts
  <2>2. ASSUME NEW b \in sides, b.by \notin Faulty PROVE SetByCount(main', b)
    <3>1. b.height \in 1 .. Len(main) + 1 /\ SetByCount(main, b)
      <4>1. IsBlock(b) /\ b.height <= Len(main) + 1 /\ SetByCount(main, b)
        BY <2>2 DEF BookInv, SidesOK, HonestOK
      <4>2. b.height \in Nat /\ b.height >= 1
        BY <4>1, BlockHeight
      <4>3. b.height \in 1 .. Len(main) + 1
        BY <1>0, <4>1, <4>2, SMT
      <4>. QED  BY <4>1, <4>3
    <3>. QED  BY <2>1, <3>1
  <2>3. ASSUME NEW i \in 1 .. Len(main'), main'[i].by \notin Faulty
        PROVE  SetByCount(main', main'[i])
    <3>1. CASE i \in 1 .. Len(main)
      <4>1. main'[i] = main[i] /\ main[i].height = i
        BY <1>1, <3>1 DEF BookInv, ChainOK
      <4>2. SetByCount(main, main[i])
        BY <2>3, <3>1, <4>1 DEF BookInv, HonestOK
      <4>3. main[i].height \in 1 .. Len(main) + 1
        BY <1>1, <3>1, <4>1
      <4>. QED  BY <2>1, <4>1, <4>2, <4>3
    <3>2. CASE i = h
      <4>1. m.height \in 1 .. Len(main) + 1
        BY <1>0, SMT
      <4>. QED  BY <1>1, <2>1, <3>2, <4>1
    <3>3. i \in 1 .. Len(main) \/ i = h
      BY <1>0, SMT
    <3>. QED  BY <3>1, <3>2, <3>3
  <2>. QED  BY <2>2, <2>3 DEF HonestOK
<1>7. reports' \in 0 .. MaxReports
  BY DEF BookInv
<1>. QED  BY <1>3, <1>4, <1>5, <1>6, <1>7 DEF BookInv

\* A side block is published.
LEMMA SideBlockKeepsBooks ==
    ASSUME BookInv, NEW b, sides' = sides \cup {b},
           IsBlock(b), b.height <= Len(main) + 1,
           b.by \notin Faulty => SetByCount(main, b),
           offences' \in 0 .. MaxOffences,
           UNCHANGED <<main, pool, reports>>
    PROVE  BookInv'
<1>1. ChainOK(main') /\ PoolOK(main', pool') /\ reports' \in 0 .. MaxReports
  BY DEF BookInv
<1>2. SidesOK(main', sides')
  BY DEF BookInv, SidesOK
<1>3. HonestOK(main', sides')
  BY DEF BookInv, HonestOK
<1>. QED  BY <1>1, <1>2, <1>3 DEF BookInv

\* A report joins the pool.
LEMMA ReportKeepsBooks ==
    ASSUME BookInv, NEW S, pool \in Seq(S), NEW r \in Allegations, Publish(r)
    PROVE  BookInv'
<1>. DEFINE blocks == sides \cup {main[h] : h \in 1 .. Len(main)}
<1>1. \A b \in blocks : IsBlock(b) /\ b.height <= Len(main) + 1
  BY Bounds, SMT DEF BookInv, ChainOK, SidesOK
<1>2. Len(main) \in Nat /\ Len(main) <= MaxHeight
  BY Bounds, SMT DEF BookInv, ChainOK
<1>3. Kinds = {"equiv", "delay", "selfwrite", "badweight"}
  BY MalusAssumption DEF Kinds
<1>4. IsRecord(r, Len(main) + 1)
  <2>1. CASE \E b \in blocks : /\ r.kind \in {"equiv", "delay"}
                               /\ r.accused = b.by /\ r.height = b.height
    BY <1>1, <1>3, <2>1 DEF IsRecord, IsReport, IsBlock
  <2>2. CASE /\ r.kind \in {"selfwrite", "badweight"} /\ r.accused \in Validator
             /\ r.height \in 1 .. Len(main)
    <3>1. r.height \in 1 .. MaxHeight /\ r.height <= Len(main) + 1
      BY <1>2, <2>2, Bounds, SMT
    <3>. QED  BY <1>3, <2>2, <3>1 DEF IsRecord, IsReport
  <2>. QED  BY <2>1, <2>2, AllegationForms
<1>5. /\ pool' = Append(pool, r) /\ reports' \in 0 .. MaxReports
      /\ UNCHANGED <<main, sides, offences>>
  BY Bounds, SMT DEF Publish, BookInv
<1>6. /\ Len(pool) \in Nat
      /\ Len(pool') = Len(pool) + 1
      /\ \A i \in 1 .. Len(pool) : pool'[i] = pool[i]
      /\ pool'[Len(pool) + 1] = r
  BY <1>5, Appended, SMT
<1>7. PoolOK(main', pool')
  <2>1. ASSUME NEW j \in 1 .. Len(pool') PROVE IsRecord(pool'[j], Len(main) + 1)
    <3>1. CASE j \in 1 .. Len(pool)
      BY <1>6, <3>1 DEF BookInv, PoolOK
    <3>2. CASE j = Len(pool) + 1
      BY <1>4, <1>6, <3>2
    <3>. QED  BY <1>6, <3>1, <3>2, SMT
  <2>. QED  BY <1>5, <1>6, <2>1, SMT DEF PoolOK
<1>. QED  BY <1>5, <1>7 DEF BookInv

\* A validator's turn.
LEMMA MineKeepsBooks ==
    ASSUME EvidenceInv, BookInv, NEW v \in Validator, Mine(v)
    PROVE  BookInv'
<1>. DEFINE h == tip[v] + 1
            offset == MiningDelay(RoundWeights(v, h), v, h)
            b == Plain(v, h, 1, offset)
<1>0. v \in Node
  BY MalusAssumption
<1>1. tip[v] \in 0 .. Len(main) /\ Len(main) \in Nat
  BY <1>0, SMT DEF EvidenceInv, PlacesInv, BookInv, ChainOK
<1>2. h \in 1 .. Len(main) + 1 /\ h <= MaxHeight /\ RoundWeights(v, h)[v] # 0
  <2>1. h <= MaxHeight /\ RoundWeights(v, h)[v] # 0
    BY DEF Mine
  <2>. QED  BY <1>1, <2>1, SMT
<1>3. h \in 1 .. MaxHeight
  BY <1>2, Bounds, SMT
<1>4. offset \in Nat
  <2>. HIDE DEF h
  <2>1. RoundWeights(v, h) \in [Validator -> Nat]
    BY <1>0, <1>1, <1>2, RoundWeightsFacts
  <2>. QED  BY <1>2, <1>3, <2>1, MiningDelayType
<1>5. IsBlock(b) /\ SetByCount(main, b)
  <2>1. offset = MiningDelay(RoundWeights(v, h), v, h)
    OBVIOUS
  <2>2. 1 \in {1, 2}
    OBVIOUS
  <2>. HIDE DEF h, offset
  <2>. QED  BY <1>1, <1>2, <1>4, <2>1, <2>2, PlainBlockFacts, SMT
<1>6. /\ b.by = v /\ b.height = h /\ b.twin = 1 /\ b.offset = offset
      /\ b.reports = << >> /\ b.weights = WeightsAsOf(h - 1) /\ b.counted = Counted(v, h)
  BY DEF Plain
<1>7. reports' = reports
  BY DEF Mine
<1>8. CASE tip[v] = Len(main) /\ sides' = sides
           /\ \E item \in Items(v), all \in BOOLEAN :
                /\ main' = Append(main,
                      [b EXCEPT !.item = item,
                                !.weights = IF h = Reweighting THEN LaterWeight ELSE @,
                                !.reports = IF all THEN pool ELSE @])
                /\ pool' = IF all THEN << >> ELSE pool
                /\ offences' = IF item = NoItem THEN offences ELSE offences + 1
  <2>1. PICK item \in Items(v), all \in BOOLEAN :
          /\ main' = Append(main,
                [b EXCEPT !.item = item,
                          !.weights = IF h = Reweighting THEN LaterWeight ELSE @,
                          !.reports = IF all THEN pool ELSE @])
          /\ pool' = IF all THEN << >> ELSE pool
          /\ offences' = IF item = NoItem THEN offences ELSE offences + 1
    BY <1>8
  <2>. DEFINE m == [b EXCEPT !.item = item,
                             !.weights = IF h = Reweighting THEN LaterWeight ELSE @,
                             !.reports = IF all THEN pool ELSE @]
  <2>2. /\ m.by = v /\ m.height = h /\ m.twin = 1 /\ m.offset = offset
        /\ m.counted = Counted(v, h)
        /\ m.weights = IF h = Reweighting THEN LaterWeight ELSE b.weights
        /\ m.reports = IF all THEN pool ELSE << >>
    BY DEF Plain
  <2>3. offences' \in 0 .. MaxOffences
    <3>1. item # NoItem => offences < MaxOffences
      BY DEF Items
    <3>. QED  BY <2>1, <3>1, Bounds, SMT DEF BookInv
  <2>4. main' = Append(main, m)
    BY <2>1
  <2>5. (pool' = pool \/ pool' = << >>) /\ (m.reports = pool \/ m.reports = << >>)
    BY <2>1, <2>2
  <2>. HIDE DEF m, b, h, offset
  <2>6. m.weights \in [Validator -> Nat \ {0}]
    BY <1>5, <2>2, MalusAssumption DEF IsBlock
  <2>7. IsBlock(m)
    BY <1>3, <1>4, <2>2, <2>6 DEF IsBlock
  <2>8. SetByCount(main, m)
    BY <1>5, <1>6, <2>2 DEF SetByCount
  <2>9. h = Len(main) + 1
    BY <1>8 DEF h
  <2>10. PICK S : main \in Seq(S)
    BY DEF EvidenceInv, SequencesInv
  <2>11. m.height = Len(main) + 1 /\ Len(main) + 1 <= MaxHeight
    BY <1>2, <2>2, <2>9
  <2>. QED  BY <1>7, <1>8, <2>3, <2>4, <2>5, <2>7, <2>8, <2>10, <2>11, MainBlockKeepsBooks
<1>9. CASE sides' = sides \cup {b} /\ UNCHANGED <<main, pool, offences>>
  <2>1. offences' \in 0 .. MaxOffences
    BY <1>9 DEF BookInv
  <2>2. b.height <= Len(main) + 1
    <3>1. b.height = h
      BY <1>6
    <3>. HIDE DEF b, h, offset
    <3>. QED  BY <1>1, <1>2, <3>1, SMT
  <2>. HIDE DEF b, h, offset
  <2>. QED  BY <1>5, <1>7, <1>9, <2>1, <2>2, SideBlockKeepsBooks, SMT
<1>. HIDE DEF b, h, offset
<1>. QED  BY <1>8, <1>9 DEF Mine, b, h, offset

\* An offence of a faulty validator.
LEMMA OffenceKeepsBooks ==
    ASSUME EvidenceInv, BookInv, NEW v \in Validator, Equivocate(v) \/ Hurry(v)
    PROVE  BookInv'
<1>0. v \in Node
  BY MalusAssumption
<1>1. tip[v] \in 0 .. Len(main) /\ Len(main) \in Nat
  BY <1>0, SMT DEF EvidenceInv, PlacesInv, BookInv, ChainOK
<1>2. ASSUME NEW h \in 1 .. Len(main) + 1, h <= MaxHeight, NEW twin \in {1, 2},
             NEW offset \in Nat, Offend(v, Plain(v, h, twin, offset))
      PROVE  BookInv'
  <2>. DEFINE b == Plain(v, h, twin, offset)
  <2>1. IsBlock(b)
    BY <1>1, <1>2, PlainBlockFacts
  <2>2. b.by = v /\ b.height = h
    BY DEF Plain
  <2>3. /\ v \in Faulty
        /\ sides' = sides \cup {b}
        /\ offences' \in 0 .. MaxOffences
        /\ UNCHANGED <<main, pool, reports>>
    BY <1>2, Bounds, SMT DEF Offend, BookInv
  <2>4. b.height <= Len(main) + 1
    BY <1>1, <2>2, SMT
  <2>. HIDE DEF b
  <2>. QED  BY <2>1, <2>2, <2>3, <2>4, SideBlockKeepsBooks
<1>3. CASE Equivocate(v)
  <2>1. PICK b \in HaveData(v) : Offend(v, Plain(v, b.height, 2, b.offset))
    BY <1>3 DEF Equivocate
  <2>2. IsBlock(b) /\ b.height <= Len(main) + 1
    <3>1. CASE b \in Connected(v)
      <4>1. PICK i \in 1 .. tip[v] : b = main[i]
        BY <3>1 DEF Connected
      <4>2. i \in 1 .. Len(main)
        BY <1>1, SMT
      <4>. QED  BY <1>1, <4>1, <4>2, SMT DEF BookInv, ChainOK
    <3>2. CASE b \in stored[v]
      BY <1>0, <3>2 DEF EvidenceInv, PlacesInv, BookInv, SidesOK
    <3>. QED  BY <2>1, <3>1, <3>2, ZenonT(30) DEF HaveData
  <2>3. b.height \in 1 .. Len(main) + 1 /\ b.height <= MaxHeight /\ b.offset \in Nat
    BY <1>1, <2>2, BlockHeight, SMT DEF IsBlock
  <2>4. 2 \in {1, 2}
    OBVIOUS
  <2>. QED  BY <1>2, <2>1, <2>3, <2>4
<1>4. CASE Hurry(v)
  <2>1. /\ tip[v] + 1 <= MaxHeight
        /\ Offend(v, Plain(v, tip[v] + 1, 1, 0))
    BY <1>4 DEF Hurry
  <2>2. tip[v] + 1 \in 1 .. Len(main) + 1 /\ 1 \in {1, 2} /\ 0 \in Nat
    BY <1>1, SMT
  <2>. QED  BY <1>2, <2>1, <2>2
<1>. QED  BY <1>3, <1>4

\* The books are in order.
LEMMA BookInvHolds == Spec => []BookInv
<1>1. Init => BookInv
  <2>. SUFFICES ASSUME Init PROVE BookInv
    OBVIOUS
  <2>1. Len(main) = 0 /\ Len(pool) = 0 /\ sides = {} /\ reports = 0 /\ offences = 0
    BY DEF Init
  <2>2. ChainOK(main) /\ SidesOK(main, sides) /\ PoolOK(main, pool) /\ HonestOK(main, sides)
    BY <2>1, Bounds, SMT DEF ChainOK, SidesOK, PoolOK, HonestOK
  <2>. QED  BY <2>1, <2>2, Bounds, SMT DEF BookInv
<1>2. EvidenceInv /\ BookInv /\ [Next]_vars => BookInv'
  <2>. SUFFICES ASSUME EvidenceInv, BookInv, [Next]_vars PROVE BookInv'
    OBVIOUS
  <2>1. ASSUME NEW v \in Validator, Mine(v) \/ Equivocate(v) \/ Hurry(v)
        PROVE  BookInv'
    BY <2>1, MineKeepsBooks, OffenceKeepsBooks
  <2>2. ASSUME UNCHANGED <<main, sides, pool, reports, offences>> PROVE BookInv'
    BY <2>2 DEF BookInv
  <2>3. ASSUME NEW r \in Allegations, Publish(r) PROVE BookInv'
    <3>1. PICK S : pool \in Seq(S)
      BY DEF EvidenceInv, SequencesInv
    <3>. QED  BY <2>3, <3>1, ReportKeepsBooks
  <2>. QED  BY <2>1, <2>2, <2>3 DEF Next, PublishReport, PublishUnchecked, Connect, Receive,
                     vars
<1>. QED  BY <1>1, <1>2, EvidenceInvHolds, PTL DEF Spec

-----------------------------------------------------------------------------
(* The theorems on the correction of the weights. *)

\* Every variable holds a value of its kind.
THEOREM MalusTypeCorrect == Spec => []TypeOK
<1>1. EvidenceInv /\ BookInv => TypeOK
  <2>. SUFFICES ASSUME EvidenceInv, BookInv PROVE TypeOK
    OBVIOUS
  <2>1. /\ Len(main) <= MaxHeight
        /\ \A h \in 1 .. Len(main) : IsBlock(main[h]) /\ main[h].height = h
    BY Bounds, SMT DEF BookInv, ChainOK
  <2>2. \A b \in sides : IsBlock(b)
    BY DEF BookInv, SidesOK
  <2>3. /\ tip \in [Node -> 0 .. Len(main)]
        /\ stored \in [Node -> SUBSET sides]
        /\ \A n \in Node :
              /\ failed[n] \subseteq sides \cup {main[h] : h \in 1 .. Len(main)}
              /\ failed[n] \cap HaveData(n) = {}
    BY DEF EvidenceInv, PlacesInv, RefusedIsNotHeld, Published, OnMain
  <2>4. \A i \in 1 .. Len(pool) : IsReport(pool[i])
    BY DEF BookInv, PoolOK, IsRecord
  <2>5. reports \in 0 .. MaxReports /\ offences \in 0 .. MaxOffences
    BY DEF BookInv
  <2>. QED  BY <2>1, <2>2, <2>3, <2>4, <2>5 DEF TypeOK
<1>. QED  BY <1>1, EvidenceInvHolds, BookInvHolds, PTL

\* A node's tip is a height of main.
LEMMA Heights ==
    ASSUME EvidenceInv, BookInv, NEW n \in Node
    PROVE  Len(main) \in Nat /\ tip[n] \in 0 .. Len(main)
BY SMT DEF EvidenceInv, PlacesInv, BookInv, ChainOK

\* A report n reads is about a height of its branch.
LEMMA ReadReports ==
    ASSUME EvidenceInv, BookInv, NEW n \in Node, NEW x \in ReadAllReports(n)
    PROVE  IsReport(x.r) /\ x.r.height \in 1 .. Len(main)
<1>1. PICK h \in 1 .. tip[n] : \E i \in 1 .. Len(main[h].reports) :
         x = [at |-> <<h, i>>, r |-> main[h].reports[i]]
  BY DEF ReadAllReports, ReportsOf
<1>2. PICK i \in 1 .. Len(main[h].reports) :
         x = [at |-> <<h, i>>, r |-> main[h].reports[i]]
  BY <1>1
<1>3. h \in 1 .. Len(main) /\ Len(main) \in Nat
  BY Heights, SMT
<1>4. IsRecord(x.r, h)
  BY <1>2, <1>3 DEF BookInv, ChainOK
<1>5. IsReport(x.r) /\ x.r.height <= h /\ x.r.height \in 1 .. MaxHeight
  BY <1>4 DEF IsRecord, IsReport
<1>6. x.r.height \in 1 .. Len(main)
  BY <1>3, <1>5, Bounds, SMT
<1>. QED  BY <1>5, <1>6

\* The correction of a round rests on reports about epochs before it.
THEOREM CorrectionStaysBehind == Spec => []CorrectionComesLater
<1>1. EvidenceInv /\ BookInv => CorrectionComesLater
  <2>. SUFFICES ASSUME EvidenceInv, BookInv, NEW n \in Node,
                       NEW h \in 1 .. tip[n] + 1, NEW v \in Validator,
                       RoundWeights(n, h)[v] # WeightsAsOf(h - 1)[v]
                PROVE  /\ RoundWeights(n, h)[v] < WeightsAsOf(h - 1)[v]
                       /\ \E x \in ReadAllReports(n) :
                             x.r.accused = v /\ HeightToEpoch(x.r.height) < HeightToEpoch(h)
    BY DEF CorrectionComesLater
  <2>. DEFINE k == HeightToEpoch(h) - 1
  <2>1. Len(main) \in Nat /\ tip[n] \in 0 .. Len(main)
    BY Heights
  <2>2. h \in 1 .. Len(main) + 1 /\ h \in Nat
    BY <2>1, SMT
  <2>3. /\ k \in Nat
        /\ \E M : /\ M = [e \in 0 .. k |-> GetAccumulators(n, e)]
                  /\ AccBy(M, main, Counted(n, h), k)
                  /\ M[k] = GetAccumulators(n, k)
                  /\ M[k] \in [Validator -> Nat]
                  /\ RoundWeights(n, h) = Corrected(main, M, h)
        /\ Counted(n, h) \subseteq Places(main)
        /\ RoundWeights(n, h) \in [Validator -> Nat]
        /\ WeightsAsOf(h - 1) = WeightsBefore(main, h)
        /\ WeightsAsOf(h - 1) \in [Validator -> Nat \ {0}]
    BY <2>1, <2>2, RoundWeightsFacts
  <2>4. PICK M : /\ M[k] = GetAccumulators(n, k)
                 /\ M[k] \in [Validator -> Nat]
                 /\ RoundWeights(n, h) = Corrected(main, M, h)
    BY <2>3
  <2>5. /\ Corrected(main, M, h)[v] <= WeightsBefore(main, h)[v]
        /\ M[k][v] = 0 => Corrected(main, M, h)[v] = WeightsBefore(main, h)[v]
    BY <2>2, <2>4, CorrectedFacts DEF BookInv
  <2>6. RoundWeights(n, h)[v] < WeightsAsOf(h - 1)[v]
    <3>1. RoundWeights(n, h)[v] \in Nat /\ WeightsAsOf(h - 1)[v] \in Nat
      BY <2>3
    <3>2. RoundWeights(n, h)[v] <= WeightsAsOf(h - 1)[v]
      BY <2>3, <2>4, <2>5
    <3>. QED  BY <3>1, <3>2, SMT
  <2>7. GetAccumulators(n, k)[v] # 0
    BY <2>3, <2>4, <2>5
  <2>8. PICK x \in ReadAllReports(n) : x.r.accused = v /\ HeightToEpoch(x.r.height) \in 1 .. k
    <3>. HIDE DEF k
    <3>. QED  BY <2>3, <2>7, UnreportedHaveNoMalus
  <2>9. HeightToEpoch(x.r.height) < HeightToEpoch(h)
    BY <2>2, <2>8, EpochFacts, SMT
  <2>. QED  BY <2>6, <2>8, <2>9
<1>. QED  BY <1>1, EvidenceInvHolds, BookInvHolds, PTL

\* The weights of equal counts are equal.
LEMMA SameCountSameWeights ==
    ASSUME NEW m, ChainOK(m), NEW h \in 1 .. Len(m) + 1, NEW K, NEW M, NEW P,
           AccBy(M, m, K, HeightToEpoch(h) - 1), AccBy(P, m, K, HeightToEpoch(h) - 1)
    PROVE  Corrected(m, M, h) = Corrected(m, P, h)
<1>. DEFINE k == HeightToEpoch(h) - 1
<1>1. k \in Nat /\ k \in 0 .. k
  <2>1. h \in Nat
    BY SMT DEF ChainOK
  <2>2. HeightToEpoch(h) \in Nat /\ HeightToEpoch(h) >= 1
    BY <2>1, EpochFacts
  <2>. QED  BY <2>2, SMT
<1>2. CarriesReports(m)
  BY BooksCarryReports
<1>3. M[k] \in [Validator -> Nat] /\ P[k] \in [Validator -> Nat]
  BY <1>1, <1>2, AccByType
<1>4. \A v \in Validator : M[k][v] <= P[k][v] /\ P[k][v] <= M[k][v]
  <2>. HIDE DEF k
  <2>1. AccBy(M, m, K, k) /\ AccBy(P, m, K, k) /\ K \subseteq K
    BY DEF k
  <2>2. \A e \in 0 .. k : \A v \in Validator : M[e][v] <= P[e][v]
    BY <1>1, <1>2, <2>1, AccByMonotonic
  <2>3. \A e \in 0 .. k : \A v \in Validator : P[e][v] <= M[e][v]
    BY <1>1, <1>2, <2>1, AccByMonotonic
  <2>. QED  BY <1>1, <2>2, <2>3
<1>5. \A v \in Validator : M[k][v] = P[k][v]
  <2>. HIDE DEF k
  <2>. QED  BY <1>3, <1>4, SMT
<1>. QED  BY <1>5 DEF Corrected

\* A published block is in the books.
LEMMA PublishedBlocks ==
    ASSUME EvidenceInv, BookInv, NEW b \in Published
    PROVE  /\ IsBlock(b)
           /\ b.height \in 1 .. Len(main) + 1
           /\ b.height \in 1 .. MaxHeight
           /\ b.by \notin Faulty => SetByCount(main, b)
<1>1. Len(main) \in Nat
  BY SMT DEF BookInv, ChainOK
<1>2. b \in sides \/ \E i \in 1 .. Len(main) : b = main[i]
  BY DEF Published, OnMain
<1>3. IsBlock(b) /\ b.height <= Len(main) + 1
  <2>1. CASE b \in sides
    BY <2>1 DEF BookInv, SidesOK
  <2>2. ASSUME NEW i \in 1 .. Len(main), b = main[i]
        PROVE  IsBlock(b) /\ b.height <= Len(main) + 1
    BY <1>1, <2>2, SMT DEF BookInv, ChainOK
  <2>. QED  BY <1>2, <2>1, <2>2
<1>4. b.height \in Nat /\ b.height >= 1
  BY <1>3, BlockHeight
<1>5. b.by \notin Faulty => SetByCount(main, b)
  BY <1>2 DEF BookInv, HonestOK
<1>6. b.height \in 1 .. MaxHeight
  BY <1>3 DEF IsBlock
<1>7. b.height \in 1 .. Len(main) + 1
  BY <1>1, <1>3, <1>4, SMT
<1>. QED  BY <1>3, <1>5, <1>6, <1>7

\* What a node has was published.
LEMMA HeldBlocks ==
    ASSUME EvidenceInv, BookInv, NEW n \in Node
    PROVE  HaveData(n) \subseteq Published
<1>1. Len(main) \in Nat /\ tip[n] \in 0 .. Len(main)
  BY Heights
<1>. QED  BY <1>1, SMT DEF EvidenceInv, PlacesInv, HaveData, Connected, Published, OnMain

\* While its bar stands, a delay report is judged by the weights of the round.
LEMMA UnmovedBar ==
    ASSUME EvidenceInv, BookInv, NEW n \in Node, NEW v \in Validator,
           NEW h \in 1 .. Len(main) + 1, NEW r, r.accused = v, r.height = h,
           ~BarMoved(n, r)
    PROVE  ReportedWeights(n, r, PsiPrev(n, v, HeightToEpoch(h))) = RoundWeights(n, h)
<1>. DEFINE k == HeightToEpoch(h) - 1
            w == WeightsAsOf(h - 1)
            psi == PsiPrev(n, v, HeightToEpoch(h))
            A == GetAccumulators(n, k)
<1>1. Len(main) \in Nat /\ tip[n] \in 0 .. Len(main) /\ h \in Nat
  BY Heights, SMT
<1>2. /\ k \in Nat
      /\ \E M : /\ M = [e \in 0 .. k |-> GetAccumulators(n, e)]
                /\ AccBy(M, main, Counted(n, h), k)
                /\ M[k] = GetAccumulators(n, k)
                /\ M[k] \in [Validator -> Nat]
                /\ RoundWeights(n, h) = Corrected(main, M, h)
      /\ Counted(n, h) \subseteq Places(main)
      /\ RoundWeights(n, h) \in [Validator -> Nat]
      /\ WeightsAsOf(h - 1) = WeightsBefore(main, h)
      /\ WeightsAsOf(h - 1) \in [Validator -> Nat \ {0}]
  BY <1>1, RoundWeightsFacts, ZenonT(30)
<1>3. A \in [Validator -> Nat]
  BY <1>2
<1>4. GetAllNodesWeights(n) = w
  BY DEF BarMoved
<1>5. \A u \in Validator \ {v} : A[u] = 0
  <2>1. \A u \in Validator \ {v} : ~(A[u] > 0)
    BY DEF BarMoved
  <2>. QED  BY <1>3, <2>1, SMT
<1>6. psi = CorrectionFactor(A[v], k)
  BY DEF PsiPrev
<1>7. \A u \in Validator :
         /\ IsFactor(CorrectionFactor(A[u], k))
         /\ A[u] = 0 => EffectiveWeight(w[u], CorrectionFactor(A[u], k)) = w[u]
  <2>. TAKE u \in Validator
  <2>1. A[u] \in Nat /\ w[u] \in Nat
    BY <1>2, <1>3
  <2>. HIDE DEF A, w, k
  <2>2. IsFactor(CorrectionFactor(A[u], k))
        /\ (A[u] = 0 => CorrectionFactor(A[u], k).num = CorrectionFactor(A[u], k).den)
    BY <1>2, <2>1, CorrectionFactorFacts
  <2>. QED  BY <2>1, <2>2, EffectiveWeightFacts
<1>8. ReportedWeights(n, r, psi)
        = [u \in Validator |-> EffectiveWeight(w[u], CorrectionFactor(A[u], k))]
  <2>1. w \in [Validator -> Nat \ {0}]
    BY <1>2
  <2>2. ReportedWeights(n, r, psi) = [w EXCEPT ![v] = EffectiveWeight(w[v], psi)]
    BY <1>4 DEF ReportedWeights
  <2>3. \A u \in Validator : [w EXCEPT ![v] = EffectiveWeight(w[v], psi)][u]
           = EffectiveWeight(w[u], CorrectionFactor(A[u], k))
    <3>. HIDE DEF w, A, k, psi
    <3>. QED  BY <1>5, <1>6, <1>7, <2>1
  <2>4. [w EXCEPT ![v] = EffectiveWeight(w[v], psi)]
          = [u \in Validator |-> [w EXCEPT ![v] = EffectiveWeight(w[v], psi)][u]]
    <3>. HIDE DEF w, psi
    <3>. QED  BY <2>1
  <2>. HIDE DEF w, A, k, psi
  <2>. QED  BY <2>2, <2>3, <2>4
<1>9. CASE HeightToEpoch(h) < 2
  <2>1. k = 0
    BY <1>2, <1>9, <1>1, EpochFacts, SMT
  <2>2. A = Clean
    BY <2>1, AccumulatorRecursion
  <2>3. \A u \in Validator : EffectiveWeight(w[u], CorrectionFactor(A[u], k)) = w[u]
    BY <1>7, <2>2 DEF Clean
  <2>4. w = [u \in Validator |-> w[u]]
    BY <1>2
  <2>5. RoundWeights(n, h) = w
    BY <1>9 DEF RoundWeights, WPoAApplyMalus
  <2>. HIDE DEF w, A, k, psi
  <2>6. ReportedWeights(n, r, psi) = [u \in Validator |-> w[u]]
    BY <1>8, <2>3
  <2>7. ReportedWeights(n, r, psi) = RoundWeights(n, h)
    BY <2>4, <2>5, <2>6
  <2>. QED  BY <2>7 DEF psi
<1>10. CASE ~(HeightToEpoch(h) < 2)
  BY <1>8, <1>10 DEF RoundWeights, WPoAApplyMalus, ApplyToWeights
<1>. QED  BY <1>9, <1>10

\* A false report moves nobody's weight.
THEOREM FalseReportsMoveNothing == Spec => []FalseReportsDiscarded
<1>1. EvidenceInv /\ BookInv /\ ProofsConvictOnlyFaulty => FalseReportsDiscarded
  <2>. SUFFICES ASSUME EvidenceInv, BookInv, ProofsConvictOnlyFaulty,
                       NEW n \in Node, NEW x \in CountedReports(n),
                       x.r.accused \notin Faulty, x.r.kind = "delay", ~BarMoved(n, x.r)
                PROVE  FALSE
    BY DEF FalseReportsDiscarded, ProofsConvictOnlyFaulty
  <2>1. PICK v \in Validator, e \in 1 .. HeightToEpoch(Len(main)) :
           x \in Kept(n, v, e, PsiPrev(n, v, e))
    BY SMT DEF CountedReports
  <2>2. /\ x.r.accused = v
        /\ HeightToEpoch(x.r.height) = e
        /\ ValidReport(n, x.r, PsiPrev(n, v, e))
    BY <2>1 DEF Kept
  <2>. DEFINE h == x.r.height
              eff == ReportedWeights(n, x.r, PsiPrev(n, v, e))
  <2>3. /\ Cardinality(x.r.blocks) = 1
        /\ x.r.blocks \subseteq HaveData(n)
        /\ SignedByAccused(x.r)
        /\ \A b \in x.r.blocks : b.offset < MiningDelay(eff, x.r.accused, x.r.height)
    BY <2>2 DEF ValidReport, ValidDelay
  <2>4. PICK b : b \in x.r.blocks
    <3>1. Cardinality(x.r.blocks) = 1
      BY <2>3
    <3>. QED  BY <3>1, OneIsThere
  <2>5. b.by = v /\ b.height = h
    BY <2>2, <2>3, <2>4 DEF SignedByAccused
  <2>6. b.offset < MiningDelay(eff, v, h)
    BY <2>2, <2>3, <2>4
  <2>7. b.counted = Counted(n, h)
    BY <2>4 DEF BarMoved
  <2>8. /\ IsBlock(b)
        /\ h \in 1 .. Len(main) + 1
        /\ h \in 1 .. MaxHeight
        /\ SetByCount(main, b)
    BY <2>2, <2>3, <2>4, <2>5, HeldBlocks, PublishedBlocks
  <2>9. eff = RoundWeights(n, h)
    BY <2>2, <2>8, UnmovedBar
  <2>10. PICK M : /\ AccBy(M, main, Counted(n, h), HeightToEpoch(h) - 1)
                  /\ b.offset = MiningDelay(Corrected(main, M, h), v, h)
    BY <2>5, <2>7, <2>8 DEF SetByCount
  <2>11. tip[n] \in 0 .. Len(main)
    BY Heights
  <2>12. PICK P : /\ AccBy(P, main, Counted(n, h), HeightToEpoch(h) - 1)
                  /\ RoundWeights(n, h) = Corrected(main, P, h)
    <3>. DEFINE k == HeightToEpoch(h) - 1
    <3>1. /\ k \in Nat
          /\ \E P : /\ P = [i \in 0 .. k |-> GetAccumulators(n, i)]
                    /\ AccBy(P, main, Counted(n, h), k)
                    /\ P[k] = GetAccumulators(n, k)
                    /\ P[k] \in [Validator -> Nat]
                    /\ RoundWeights(n, h) = Corrected(main, P, h)
          /\ Counted(n, h) \subseteq Places(main)
          /\ RoundWeights(n, h) \in [Validator -> Nat]
          /\ WeightsAsOf(h - 1) = WeightsBefore(main, h)
          /\ WeightsAsOf(h - 1) \in [Validator -> Nat \ {0}]
      <4>. HIDE DEF h
      <4>. QED  BY <2>8, <2>11, RoundWeightsFacts
    <3>. QED  BY <3>1
  <2>13. Corrected(main, M, h) = Corrected(main, P, h)
    <3>. HIDE DEF h
    <3>. QED  BY <2>8, <2>10, <2>12, SameCountSameWeights DEF BookInv
  <2>14. b.offset = MiningDelay(eff, v, h)
    BY <2>9, <2>10, <2>12, <2>13
  <2>15. b.offset \in Nat
    BY <2>8 DEF IsBlock
  <2>. QED  BY <2>6, <2>14, <2>15, SMT
<1>. QED  BY <1>1, EvidenceInvHolds, BookInvHolds, HonestStayUnconvicted, PTL

\* More reports never make the bar of a validator without malus stricter.
LEMMA MoreReportsEaseTheBar ==
    ASSUME NEW m, ChainOK(m), NEW h \in 1 .. Len(m) + 1, h \in 1 .. MaxHeight,
           NEW v \in Validator, NEW K, NEW L, K \subseteq L, NEW M, NEW P,
           AccBy(M, m, K, HeightToEpoch(h) - 1), AccBy(P, m, L, HeightToEpoch(h) - 1),
           P[HeightToEpoch(h) - 1][v] = 0
    PROVE  /\ Corrected(m, P, h)[v] # 0
           /\ MiningDelay(Corrected(m, P, h), v, h) <= MiningDelay(Corrected(m, M, h), v, h)
<1>. DEFINE k == HeightToEpoch(h) - 1
            w == WeightsBefore(m, h)
            C == Corrected(m, M, h)
            D == Corrected(m, P, h)
<1>1. k \in Nat /\ k \in 0 .. k
  <2>1. h \in Nat
    BY SMT DEF ChainOK
  <2>2. HeightToEpoch(h) \in Nat /\ HeightToEpoch(h) >= 1
    BY <2>1, EpochFacts
  <2>. QED  BY <2>2, SMT
<1>2. CarriesReports(m)
  BY BooksCarryReports
<1>3. AccBy(M, m, K, k) /\ AccBy(P, m, L, k)
  OBVIOUS
<1>4. /\ \A u \in Validator : M[k][u] <= P[k][u]
      /\ M[k] \in [Validator -> Nat] /\ P[k] \in [Validator -> Nat]
  <2>. HIDE DEF k
  <2>1. \A e \in 0 .. k : \A u \in Validator : M[e][u] <= P[e][u]
    BY <1>1, <1>2, <1>3, AccByMonotonic
  <2>2. M[k] \in [Validator -> Nat] /\ P[k] \in [Validator -> Nat]
    BY <1>1, <1>2, <1>3, AccByType
  <2>. QED  BY <1>1, <2>1, <2>2
<1>5. w \in [Validator -> Nat \ {0}]
  BY WeightsBeforeFacts
<1>6. C \in [Validator -> Nat] /\ D \in [Validator -> Nat]
  BY <1>4, CorrectedFacts
<1>7. C[v] = w[v] /\ D[v] = w[v]
  <2>1. P[k][v] = 0 /\ M[k][v] = 0
    BY <1>4, SMT
  <2>. QED  BY <1>4, <2>1, CorrectedFacts
<1>8. \A u \in Validator : D[u] <= C[u]
  <2>. TAKE u \in Validator
  <2>1. CASE HeightToEpoch(h) < 2
    <3>1. C = w /\ D = w
      BY <2>1 DEF Corrected
    <3>. QED  BY <1>6, <3>1, SMT
  <2>2. CASE ~(HeightToEpoch(h) < 2)
    <3>1. /\ C[u] = EffectiveWeight(w[u], CorrectionFactor(M[k][u], k))
          /\ D[u] = EffectiveWeight(w[u], CorrectionFactor(P[k][u], k))
      BY <2>2 DEF Corrected
    <3>2. w[u] \in Nat /\ M[k][u] \in Nat /\ P[k][u] \in Nat /\ M[k][u] <= P[k][u]
      BY <1>4, <1>5
    <3>. HIDE DEF w, k, C, D
    <3>3. /\ IsFactor(CorrectionFactor(M[k][u], k)) /\ IsFactor(CorrectionFactor(P[k][u], k))
          /\ CorrectionFactor(P[k][u], k).den = CorrectionFactor(M[k][u], k).den
          /\ CorrectionFactor(P[k][u], k).num <= CorrectionFactor(M[k][u], k).num
      BY <1>1, <3>2, CorrectionFactorFacts
    <3>. QED  BY <3>1, <3>2, <3>3, EffectiveWeightIsMonotonic
  <2>. QED  BY <2>1, <2>2
<1>9. w[v] \in Nat /\ w[v] > 0
  BY <1>5, SMT
<1>10. D[v] # 0 /\ C[v] # 0
  BY <1>7, <1>9, SMT
<1>. HIDE DEF w, k, C, D
<1>11. Total(D) <= Total(C) /\ Total(D) \in Nat /\ Total(C) \in Nat
  <2>1. IsFiniteSet(Validator)
    BY MalusAssumption
  <2>2. Total(D) \in Nat /\ Total(C) \in Nat
    BY <1>6, <1>10, MiningDelayType, ZenonT(30)
  <2>3. SumFunctionOnSet(D, Validator) <= SumFunctionOnSet(C, Validator)
    BY <1>6, <1>8, <2>1, SumIsMonotonic, SMT
  <2>. QED  BY <2>2, <2>3 DEF Total
<1>12. /\ Luck[v][h] \in Nat
       /\ Luck[v][h] * Total(D) \in Nat /\ Luck[v][h] * Total(C) \in Nat
  BY <1>6, <1>10, MiningDelayType
<1>13. Luck[v][h] * Total(D) <= Luck[v][h] * Total(C)
  BY <1>11, <1>12, ProductIsMonotonic
<1>14. (Luck[v][h] * Total(D)) \div w[v] <= (Luck[v][h] * Total(C)) \div w[v]
  BY <1>9, <1>12, <1>13, QuotientIsMonotonic
<1>15. MiningDelay(D, v, h) <= MiningDelay(C, v, h)
  BY <1>7, <1>14 DEF MiningDelay
<1>. QED  BY <1>10, <1>15 DEF C, D

\* An honest block of a validator without malus is refused only for evidence
\* the node lacks.
THEOREM HonestBlocksMissEvidence == Spec => RefusedOnlyForMissingEvidence
<1>. DEFINE Judged ==
        \A n \in Node : \A b \in failed'[n] \ failed[n] :
          b.by \notin Faulty
          /\ GetAccumulators(n, HeightToEpoch(b.height) - 1)[b.by] = 0
             => ~(b.counted \subseteq Counted(n, b.height))
<1>1. EvidenceInv /\ BookInv /\ [Next]_vars => Judged
  <2>. SUFFICES ASSUME EvidenceInv, BookInv, [Next]_vars,
                       NEW n \in Node, NEW b \in failed'[n] \ failed[n],
                       b.by \notin Faulty,
                       GetAccumulators(n, HeightToEpoch(b.height) - 1)[b.by] = 0,
                       b.counted \subseteq Counted(n, b.height)
                PROVE  FALSE
    OBVIOUS
  <2>1. failed \in [Node -> SUBSET Published]
    BY DEF EvidenceInv, PlacesInv
  <2>2. PICK c \in Published : AcceptBlock(n, c) /\ failed'[n] # failed[n]
    <3>0. failed' # failed
      OBVIOUS
    <3>1. ASSUME NEW p \in Node, Connect(p)
          PROVE  \E c \in Published : AcceptBlock(p, c)
      <4>1. tip[p] + 1 \in 1 .. Len(main)
        BY <3>1, Heights, SMT DEF Connect
      <4>. QED  BY <3>1, <4>1 DEF Connect, Published, OnMain
    <3>2. ASSUME NEW p \in Node, NEW c \in sides, Receive(p, c)
          PROVE  \E d \in Published : AcceptBlock(p, d)
      BY <3>2 DEF Receive, Published
    <3>3. \E p \in Node : Connect(p) \/ \E c \in sides : Receive(p, c)
      BY <3>0 DEF Next, vars, Mine, Equivocate, Hurry, Offend, PublishReport,
                  PublishUnchecked, Publish
    <3>4. PICK p \in Node : \E c \in Published : AcceptBlock(p, c)
      BY <3>1, <3>2, <3>3
    <3>5. PICK c \in Published : AcceptBlock(p, c)
      BY <3>4
    <3>6. failed' = [failed EXCEPT ![p] = @ \cup {c}]
      BY <3>0, <3>5 DEF AcceptBlock
    <3>7. p = n
      BY <2>1, <3>6
    <3>. QED  BY <3>5, <3>7
  <2>3. ~VerifyProposer(n, c) /\ b = c
    BY <2>1, <2>2, SMT DEF AcceptBlock
  <2>. DEFINE h == b.height
              k == HeightToEpoch(h) - 1
  <2>4. /\ IsBlock(b)
        /\ h \in 1 .. Len(main) + 1
        /\ h \in 1 .. MaxHeight
        /\ SetByCount(main, b)
    BY <2>2, <2>3, PublishedBlocks
  <2>5. b.by \in Validator
    BY <2>4 DEF IsBlock
  <2>6. PICK M : /\ AccBy(M, main, b.counted, HeightToEpoch(h) - 1)
                 /\ b.offset = MiningDelay(Corrected(main, M, h), b.by, h)
    BY <2>4 DEF SetByCount
  <2>7. tip[n] \in 0 .. Len(main)
    BY Heights
  <2>8. PICK P : /\ AccBy(P, main, Counted(n, h), HeightToEpoch(h) - 1)
                 /\ P[HeightToEpoch(h) - 1] = GetAccumulators(n, HeightToEpoch(h) - 1)
                 /\ RoundWeights(n, h) = Corrected(main, P, h)
    <3>1. /\ k \in Nat
          /\ \E P : /\ P = [i \in 0 .. k |-> GetAccumulators(n, i)]
                    /\ AccBy(P, main, Counted(n, h), k)
                    /\ P[k] = GetAccumulators(n, k)
                    /\ P[k] \in [Validator -> Nat]
                    /\ RoundWeights(n, h) = Corrected(main, P, h)
          /\ Counted(n, h) \subseteq Places(main)
          /\ RoundWeights(n, h) \in [Validator -> Nat]
          /\ WeightsAsOf(h - 1) = WeightsBefore(main, h)
          /\ WeightsAsOf(h - 1) \in [Validator -> Nat \ {0}]
      <4>. HIDE DEF h
      <4>. QED  BY <2>4, <2>7, RoundWeightsFacts
    <3>. QED  BY <3>1
  <2>9. /\ Corrected(main, P, h)[b.by] # 0
        /\ MiningDelay(Corrected(main, P, h), b.by, h)
             <= MiningDelay(Corrected(main, M, h), b.by, h)
    <3>1. ChainOK(main) /\ b.counted \subseteq Counted(n, h)
      BY DEF BookInv
    <3>2. P[HeightToEpoch(h) - 1][b.by] = 0
      BY <2>8
    <3>. HIDE DEF h
    <3>. QED  BY <2>4, <2>5, <2>6, <2>8, <3>1, <3>2, MoreReportsEaseTheBar
  <2>10. VerifyProposer(n, b)
    <3>1. RoundWeights(n, h)[b.by] # 0
      BY <2>8, <2>9
    <3>2. MiningDelay(RoundWeights(n, h), b.by, h) <= b.offset
      BY <2>6, <2>8, <2>9
    <3>3. b.offset >= MiningDelay(RoundWeights(n, h), b.by, h)
      <4>1. MiningDelay(RoundWeights(n, h), b.by, h) \in Nat
        <5>1. RoundWeights(n, h) \in [Validator -> Nat]
          <6>. HIDE DEF h
          <6>. QED  BY <2>4, <2>7, RoundWeightsFacts
        <5>. QED  BY <2>4, <2>5, <3>1, <5>1, MiningDelayType
      <4>2. b.offset \in Nat
        BY <2>4 DEF IsBlock
      <4>. QED  BY <3>2, <4>1, <4>2
    <3>. QED  BY <3>1, <3>3 DEF VerifyProposer
  <2>. QED  BY <2>3, <2>10
<1>. QED  BY <1>1, EvidenceInvHolds, BookInvHolds, PTL
          DEF Spec, RefusedOnlyForMissingEvidence

-----------------------------------------------------------------------------
(* Exclusions end. *)


\* After the epoch of the branch's end the malus only decays.
LEMMA CleanEpochsDecay ==
    ASSUME EvidenceInv, BookInv, NEW n \in Node, NEW v \in Validator,
           NEW e, e = HeightToEpoch(Len(main))
    PROVE  \A k \in Nat :
              GetAccumulators(n, e + k)[v] = Power(MuNum, k) * GetAccumulators(n, e)[v]
<1>0. Len(main) \in Nat /\ tip[n] \in 0 .. Len(main) /\ e \in Nat
  BY Heights, EpochFacts
<1>1. MuNum \in Nat
  BY MalusAssumption
<1>2. CarriesReports(main)
  BY BooksCarryReports DEF BookInv
<1>3. \A i \in Nat : GetAccumulators(n, i) \in [Validator -> Nat]
  BY <1>0, <1>2, AccumulatorType
<1>4. \A x \in ReadAllReports(n) : HeightToEpoch(x.r.height) <= e
  <2>. TAKE x \in ReadAllReports(n)
  <2>1. x.r.height \in 1 .. Len(main)
    BY ReadReports
  <2>2. x.r.height \in Nat /\ x.r.height <= Len(main)
    BY <1>0, <2>1, SMT
  <2>. QED  BY <1>0, <2>2, EpochsAreMonotonic
<1>5. \A k \in Nat : GetAccumulators(n, e + (k + 1))[v] = MuNum * GetAccumulators(n, e + k)[v]
  <2>. TAKE k \in Nat
  <2>. DEFINE i == e + k
              prev == GetAccumulators(n, i)
  <2>1. i \in Nat /\ i + 1 \in Nat /\ e + (k + 1) = i + 1 /\ i + 1 > e
    BY <1>0, SMT
  <2>2. prev[v] \in Nat
    BY <1>3, <2>1
  <2>3. GetAccumulators(n, i + 1) = AccStep(n, prev, i + 1)
    <3>. HIDE DEF i
    <3>. QED  BY <2>1, AccumulatorRecursion
  <2>. HIDE DEF i, prev
  <2>4. \A psi : Kept(n, v, i + 1, psi) = {}
    <3>1. \A x \in ReadAllReports(n) : HeightToEpoch(x.r.height) # i + 1
      <4>. TAKE x \in ReadAllReports(n)
      <4>1. HeightToEpoch(x.r.height) <= e
        BY <1>4
      <4>. QED  BY <1>0, <2>1, <4>1, SMT
    <3>. QED  BY <3>1 DEF Kept
  <2>5. AccStep(n, prev, i + 1)[v] = Fold(prev[v], 0, i + 1)
    <3>1. AccStep(n, prev, i + 1)[v]
            = Fold(prev[v], PointsOf(Kept(n, v, i + 1, CorrectionFactor(prev[v], (i + 1) - 1))), i + 1)
      BY DEF AccStep
    <3>. QED  BY <2>4, <3>1, NoPoints
  <2>6. Fold(prev[v], 0, i + 1) = MuNum * prev[v]
    <3>1. Scale(i + 1) \in Nat
      BY <2>1, ScaleFacts
    <3>. QED  BY <1>1, <2>2, <3>1, SMT DEF Fold
  <2>. QED  BY <2>1, <2>3, <2>5, <2>6 DEF prev, i
<1>. DEFINE M(k) == GetAccumulators(n, e + k)[v]
            A == {k \in Nat : M(k) = Power(MuNum, k) * M(0)}
<1>6. \A k \in Nat : M(k) \in Nat
  <2>. TAKE k \in Nat
  <2>1. e + k \in Nat
    BY <1>0, SMT
  <2>. QED  BY <1>3, <2>1
<1>7. 0 \in A
  <2>1. Power(MuNum, 0) = 1
    BY <1>1, PowerFacts
  <2>2. M(0) \in Nat
    BY <1>6
  <2>. QED  BY <2>1, <2>2, SMT
<1>8. ASSUME NEW k \in Nat, k \in A PROVE k + 1 \in A
  <2>1. M(k + 1) = MuNum * M(k) /\ M(k) = Power(MuNum, k) * M(0) /\ M(0) \in Nat
    BY <1>5, <1>6, <1>8
  <2>2. Power(MuNum, k) \in Nat /\ Power(MuNum, k + 1) = MuNum * Power(MuNum, k)
    BY <1>1, PowerFacts
  <2>. HIDE DEF M
  <2>3. MuNum * (Power(MuNum, k) * M(0)) = (MuNum * Power(MuNum, k)) * M(0)
    BY <1>1, <2>1, <2>2, SMT
  <2>. QED  BY <2>1, <2>2, <2>3, SMT
<1>. HIDE DEF A
<1>9. \A k \in Nat : k \in A
  BY <1>7, <1>8, NatSetInduction
<1>10. e + 0 = e
  BY <1>0, SMT
<1>. QED  BY <1>9, <1>10 DEF A

\* No exclusion is permanent.
THEOREM ExclusionsEnd == Spec => []ExclusionEnds
<1>1. EvidenceInv /\ BookInv => ExclusionEnds
  <2>. SUFFICES ASSUME EvidenceInv, BookInv, NEW n \in Node, NEW v \in Validator
                PROVE  LET e == HeightToEpoch(Len(main))
                           M(k) == GetAccumulators(n, e + k)[v]
                           clear == EpochsToClear(M(0), e)
                       IN  \A k \in 0 .. clear :
                              (EffectiveWeight(1, CorrectionFactor(M(k), e + k)) > 0)
                                 <=> k = clear
    BY DEF ExclusionEnds
  <2>. DEFINE e == HeightToEpoch(Len(main))
              M(k) == GetAccumulators(n, e + k)[v]
              clear == EpochsToClear(M(0), e)
  <2>. SUFFICES \A k \in 0 .. clear :
                   (EffectiveWeight(1, CorrectionFactor(M(k), e + k)) > 0) <=> k = clear
    OBVIOUS
  <2>1. e \in Nat /\ tip[n] \in 0 .. Len(main)
    BY Heights, EpochFacts
  <2>2. \A k \in Nat : M(k) \in Nat
    <3>1. CarriesReports(main)
      BY BooksCarryReports DEF BookInv
    <3>2. \A i \in Nat : GetAccumulators(n, i) \in [Validator -> Nat]
      BY <2>1, <3>1, AccumulatorType
    <3>. TAKE k \in Nat
    <3>3. e + k \in Nat
      BY <2>1, SMT
    <3>. QED  BY <3>2, <3>3
  <2>3. e + 0 = e
    BY <2>1, SMT
  <2>4. \A k \in Nat : M(k) = Power(MuNum, k) * M(0)
    <3>1. e = HeightToEpoch(Len(main))
      OBVIOUS
    <3>. HIDE DEF e
    <3>2. \A k \in Nat :
             GetAccumulators(n, e + k)[v] = Power(MuNum, k) * GetAccumulators(n, e)[v]
      BY <3>1, CleanEpochsDecay
    <3>. QED  BY <2>3, <3>2
  <2>. HIDE DEF e, M
  <2>5. /\ clear \in Nat
        /\ \A k \in 0 .. clear :
              Power(MuNum, k) * M(0) < MMax * Scale(e + k) <=> k = clear
    <3>1. M(0) \in Nat
      BY <2>2
    <3>. QED  BY <2>1, <3>1, ClearsAtLast
  <2>. HIDE DEF clear
  <2>. TAKE k \in 0 .. clear
  <2>6. k \in Nat /\ e + k \in Nat /\ M(k) \in Nat
    <3>1. k \in Nat
      BY <2>5, SMT
    <3>. QED  BY <2>1, <2>2, <3>1, SMT
  <2>7. M(k) < MMax * Scale(e + k) <=> k = clear
    BY <2>4, <2>5, <2>6
  <2>8. /\ IsFactor(CorrectionFactor(M(k), e + k))
        /\ CorrectionFactor(M(k), e + k).num > 0 <=> M(k) < MMax * Scale(e + k)
    BY <2>6, CorrectionFactorFacts
  <2>9. EffectiveWeight(1, CorrectionFactor(M(k), e + k)) > 0
          <=> CorrectionFactor(M(k), e + k).num > 0
    <3>1. 1 \in Nat /\ 1 > 0
      BY SMT
    <3>. QED  BY <2>8, <3>1, EffectiveWeightFacts
  <2>. QED  BY <2>7, <2>8, <2>9
<1>. QED  BY <1>1, EvidenceInvHolds, BookInvHolds, PTL
=============================================================================
