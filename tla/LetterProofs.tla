---------------------------- MODULE LetterProofs ----------------------------
(***************************************************************************)
(* No letter vanishes from a game: the theorem that relates bag, hands and *)
(* board of ScrabbleGame, for every set of tiles, board and history of     *)
(* moves.                                                                  *)
(***************************************************************************)
EXTENDS ScrabbleGameProofs

-----------------------------------------------------------------------------
(***************************************************************************)
(* Counting the tiles and the cells that show a letter.                    *)
(***************************************************************************)
TilesOf(S, l) == {t \in S : LetterOf[t] = l}

CellsOf(b, l) == {c \in Cells : b[c] = l}

\* The letter l is counted at least as often in bag, hands and board as the bag
\* had it at the start.
Conserved(held, b, l) ==
    CountOf(held, l) + Cardinality(CellsOf(b, l)) >= CountOf(Tiles, l)

LEMMA CountIsNat ==
    ASSUME NEW S \in SUBSET Tiles, NEW l
    PROVE  CountOf(S, l) \in Nat
BY TileSetsFinite DEF CountOf

\* A larger set of tiles shows a letter at least as often; NUL tiles do not
\* count for any letter.
LEMMA CountGrows ==
    ASSUME NEW S \in SUBSET Tiles, NEW T \in SUBSET Tiles, S \subseteq T \cup NulTiles,
           NEW l \in Letters
    PROVE  CountOf(S, l) =< CountOf(T, l)
<1>1. TilesOf(S, l) \in SUBSET TilesOf(T, l)
    BY GameAssumption DEF TilesOf, NulTiles, GameAssumption
<1>2. IsFiniteSet(TilesOf(T, l))
    BY TileSetsFinite DEF TilesOf
<1> QED  BY <1>1, <1>2, FS_Subset DEF CountOf, TilesOf

\* Taking tiles away costs a letter no more than the tiles that show it.
LEMMA CountShrinks ==
    ASSUME NEW S \in SUBSET Tiles, NEW G \in SUBSET Tiles, NEW l
    PROVE  CountOf(S \ G, l) >= CountOf(S, l) - CountOf(G, l)
<1> DEFINE A == TilesOf(S, l)
           B == TilesOf(G, l)
<1>1. IsFiniteSet(A) /\ IsFiniteSet(B) /\ A \in SUBSET Tiles /\ B \in SUBSET Tiles
    BY TileSetsFinite DEF TilesOf
<1>2. TilesOf(S \ G, l) = A \ B
    BY DEF TilesOf
<1>3. CountOf(S \ G, l) = Cardinality(A \ B) /\ CountOf(S, l) = Cardinality(A)
      /\ CountOf(G, l) = Cardinality(B)
    BY <1>2 DEF CountOf, TilesOf
<1> HIDE DEF A, B
<1>4. Cardinality(A \ B) = Cardinality(A) - Cardinality(A \cap B)
    BY <1>1, FS_Difference
<1>5. A \cap B \in SUBSET B
    OBVIOUS
<1>6. Cardinality(A \cap B) =< Cardinality(B)
    BY <1>1, <1>5, FS_Subset
<1>7. /\ Cardinality(A) \in Nat /\ Cardinality(B) \in Nat
      /\ Cardinality(A \cap B) \in Nat
    BY <1>1, FS_CardinalityType, FS_Intersection
<1> QED  BY <1>3, <1>4, <1>6, <1>7

LEMMA CellsFinite ==
    ASSUME NEW C \in SUBSET Cells
    PROVE  IsFiniteSet(C) /\ Cardinality(C) \in Nat
<1>1. IsFiniteSet(0 .. Width - 1) /\ IsFiniteSet(0 .. Height - 1)
    BY FS_Interval, BoardAssumption DEF BoardAssumption
<1>2. IsFiniteSet(Cells)
    BY <1>1, FS_Product DEF Cells
<1> QED  BY <1>2, FS_Subset, FS_CardinalityType

\* Each tile of a legal placement shows on a cell of its own that was empty, and
\* every other cell is as before.
LEMMA WithAddsLetters ==
    ASSUME NEW b \in Boards, NEW p \in PlacementType, WellFormed(p), Legal(b, p),
           NEW l \in Letters
    PROVE  /\ Occurrences(p.tiles, l) \in Nat
           /\ Cardinality(CellsOf(With(b, p), l)) =
                 Cardinality(CellsOf(b, l)) + Occurrences(p.tiles, l)
<1> DEFINE I == {i \in DOMAIN p.tiles : p.tiles[i] = l}
           New == {At(p, i) : i \in I}
           Old == CellsOf(b, l)
           f == [i \in I |-> At(p, i)]
<1>1. /\ DOMAIN p.tiles = DOMAIN p.coordinates
      /\ DOMAIN p.tiles = 1 .. Len(p.tiles) /\ Len(p.tiles) \in Nat
    BY SameDomain DEF PlacementType
<1>2. \A i \in I : At(p, i) \in Cells /\ b[At(p, i)] = NoLetter
    BY <1>1 DEF Legal, InBoard, OnFreeCells
<1>3. \A i, j \in DOMAIN p.tiles : At(p, i) = At(p, j) => i = j
    BY <1>1 DEF Legal, OnFreeCells
<1>4. IsFiniteSet(I) /\ Cardinality(I) \in Nat
    <2> DEFINE n == Len(p.tiles)
    <2>3. n \in Int /\ 1 \in Int /\ DOMAIN p.tiles = 1 .. n
        BY <1>1
    <2> HIDE DEF n
    <2>1. IsFiniteSet(DOMAIN p.tiles)
        BY <2>3, FS_Interval
    <2>2. I \in SUBSET DOMAIN p.tiles
        OBVIOUS
    <2> QED  BY <2>1, <2>2, FS_Subset, FS_CardinalityType
<1>5. New \in SUBSET Cells /\ Old \in SUBSET Cells
    BY <1>2 DEF CellsOf
<1>6. Cardinality(I) = Cardinality(New)
    <2>1. f \in [I -> New] /\ \A c \in New : \E i \in I : f[i] = c
        OBVIOUS
    <2>2. \A i, j \in I : f[i] = f[j] => i = j
        BY <1>3
    <2> HIDE DEF f
    <2>3. f \in Injection(I, New) /\ f \in Surjection(I, New)
        BY <2>1, <2>2 DEF Injection, IsInjective, Surjection
    <2> QED  BY <2>3, <1>4, FS_Surjection
<1>7. New \cap Old = {}
    BY <1>2, BoardAssumption DEF CellsOf, BoardAssumption
<1>8. New \cup Old = CellsOf(With(b, p), l)
    <2>1. ASSUME NEW i \in I
          PROVE  At(p, i) \in CellsOf(With(b, p), l)
        <3> DEFINE k == CHOOSE j \in DOMAIN p.tiles : At(p, j) = At(p, i)
        <3>1. k \in DOMAIN p.tiles /\ At(p, k) = At(p, i)
            OBVIOUS
        <3>2. At(p, i) \in Cells
            BY <1>2
        <3>3. With(b, p)[At(p, i)] = p.tiles[k]
            BY <3>2 DEF With
        <3> HIDE DEF k
        <3>4. k = i
            BY <3>1, <1>3
        <3> QED  BY <3>2, <3>3, <3>4 DEF CellsOf
    <2>2. ASSUME NEW c \in Old
          PROVE  c \in CellsOf(With(b, p), l)
        <3>1. c \in Cells /\ b[c] = l /\ b[c] # NoLetter
            BY BoardAssumption DEF CellsOf, BoardAssumption
        <3> QED  BY <3>1, WithKeepsLetters DEF CellsOf
    <2>3. ASSUME NEW c \in CellsOf(With(b, p), l)
          PROVE  c \in New \cup Old
        <3>1. c \in Cells /\ With(b, p)[c] = l
            BY <2>3 DEF CellsOf
        <3>2. CASE \E i \in DOMAIN p.tiles : At(p, i) = c
            <4> DEFINE k == CHOOSE i \in DOMAIN p.tiles : At(p, i) = c
            <4>1. k \in DOMAIN p.tiles /\ At(p, k) = c
                BY <3>2
            <4>2. With(b, p)[c] = p.tiles[k]
                BY <3>1, <3>2 DEF With
            <4> QED  BY <3>1, <4>1, <4>2
        <3>3. CASE ~ \E i \in DOMAIN p.tiles : At(p, i) = c
            BY <3>1, <3>3 DEF With, CellsOf
        <3> QED  BY <3>2, <3>3
    <2> QED  BY <2>1, <2>2, <2>3
<1>9. CellsOf(With(b, p), l) \in SUBSET Cells
    BY DEF CellsOf
<1> HIDE DEF I, New, Old, f
<1>10. Cardinality(New \cup Old) = Cardinality(New) + Cardinality(Old)
    <2>1. /\ IsFiniteSet(New) /\ IsFiniteSet(Old)
          /\ Cardinality(New) \in Nat /\ Cardinality(Old) \in Nat
        BY <1>5, CellsFinite
    <2>2. Cardinality(New \cup Old) =
              Cardinality(New) + Cardinality(Old) - Cardinality(New \cap Old)
        BY <2>1, FS_Union
    <2>3. Cardinality(New \cap Old) = 0
        BY <1>7, FS_EmptySet
    <2> QED  BY <2>1, <2>2, <2>3
<1>11. Cardinality(New \cup Old) = Cardinality(CellsOf(With(b, p), l))
    BY <1>8
<1>12. Occurrences(p.tiles, l) = Cardinality(I)
    BY DEF Occurrences, I
<1>13. /\ Cardinality(New) \in Nat /\ Cardinality(Old) \in Nat
       /\ Cardinality(CellsOf(With(b, p), l)) \in Nat
    BY <1>5, <1>9, CellsFinite
<1> QED  BY <1>4, <1>6, <1>10, <1>11, <1>12, <1>13 DEF Old

-----------------------------------------------------------------------------
(***************************************************************************)
(* What a step does to the tiles that are held: in the bag or in a hand.   *)
(***************************************************************************)
Held == bag \cup InHands

\* Who is in a hand.
LEMMA InHandsFacts ==
    ASSUME Inv
    PROVE  /\ Held \in SUBSET Tiles
           /\ \A t : t \in InHands <=> \E i \in DOMAIN players : t \in hands[i]
<1>1. DOMAIN hands = DOMAIN players
    BY SeatFacts
<1>2. \A t : t \in InHands <=> \E i \in DOMAIN players : t \in hands[i]
    BY <1>1 DEF InHands
<1>3. bag \subseteq Tiles
    BY DEF Inv, TypeOK
<1> QED  BY <1>2, <1>3, SeatFacts DEF Held

\* The same after a step.
LEMMA InHandsFactsNext ==
    ASSUME Inv'
    PROVE  Held' \in SUBSET Tiles
<1>1. /\ DOMAIN hands' = DOMAIN players'
      /\ \A i \in DOMAIN players' : hands'[i] \in SUBSET Tiles
      /\ bag' \subseteq Tiles
    BY DEF Inv, TypeOK
<1> QED  BY <1>1 DEF Held, InHands

\* Letters are conserved when only NUL tiles leave bag and hands, and the board
\* stays.
LEMMA HeldConserves ==
    ASSUME NEW held \in SUBSET Tiles, NEW heldNext \in SUBSET Tiles,
           held \subseteq heldNext \cup NulTiles,
           NEW b \in Boards, NEW l \in Letters, Conserved(held, b, l)
    PROVE  Conserved(heldNext, b, l)
<1>1. CountOf(held, l) =< CountOf(heldNext, l)
    BY CountGrows
<1>2. /\ CountOf(held, l) \in Nat /\ CountOf(heldNext, l) \in Nat
      /\ CountOf(Tiles, l) \in Nat
    BY CountIsNat
<1>3. Cardinality(CellsOf(b, l)) \in Nat
    BY CellsFinite DEF CellsOf
<1> QED  BY <1>1, <1>2, <1>3 DEF Conserved

\* Letters are conserved when tiles with the letters of a legal placement, or
\* fewer, leave bag and hands, and the placement is written on the board.
LEMMA PlacementConserves ==
    ASSUME NEW held \in SUBSET Tiles, NEW heldNext \in SUBSET Tiles,
           NEW gone \in SUBSET Tiles,
           held \ gone \subseteq heldNext \cup NulTiles,
           NEW b \in Boards, NEW p \in PlacementType, WellFormed(p), Legal(b, p),
           NEW l \in Letters, CountOf(gone, l) =< Occurrences(p.tiles, l),
           Conserved(held, b, l)
    PROVE  Conserved(heldNext, With(b, p), l)
<1>1. CountOf(held \ gone, l) =< CountOf(heldNext, l)
    BY CountGrows
<1>2. CountOf(held \ gone, l) >= CountOf(held, l) - CountOf(gone, l)
    BY CountShrinks
<1>3. /\ CountOf(held, l) \in Nat /\ CountOf(heldNext, l) \in Nat
      /\ CountOf(Tiles, l) \in Nat /\ CountOf(gone, l) \in Nat
      /\ CountOf(held \ gone, l) \in Nat
    BY CountIsNat
<1>4. /\ Cardinality(CellsOf(b, l)) \in Nat
      /\ Cardinality(CellsOf(With(b, p), l)) \in Nat
    BY CellsFinite DEF CellsOf
<1>5. /\ Occurrences(p.tiles, l) \in Nat
      /\ Cardinality(CellsOf(With(b, p), l)) =
            Cardinality(CellsOf(b, l)) + Occurrences(p.tiles, l)
    BY WithAddsLetters
<1> QED  BY <1>1, <1>2, <1>3, <1>4, <1>5 DEF Conserved

\* A hand that gives `gone` away and is filled from `from` loses `gone` only, and
\* not even that when `from` includes it.
LEMMA RefillHolds ==
    ASSUME Inv, NEW i \in DOMAIN players, NEW gone \in SUBSET hands[i],
           NEW from, NEW drawn, bag \subseteq from,
           hands' = [hands EXCEPT ![i] = (@ \ gone) \cup (drawn \ NulTiles)],
           bag' = from \ drawn,
           players' = players
    PROVE  /\ Held \ gone \subseteq Held' \cup NulTiles
           /\ gone \subseteq from => Held \subseteq Held' \cup NulTiles
<1>1. DOMAIN hands = DOMAIN players
    BY SeatFacts
<1>2. /\ DOMAIN hands' = DOMAIN players
      /\ hands'[i] = (hands[i] \ gone) \cup (drawn \ NulTiles)
      /\ \A j \in DOMAIN players \ {i} : hands'[j] = hands[j]
    BY <1>1
<1>3. \A t : t \in InHands <=> \E j \in DOMAIN players : t \in hands[j]
    BY InHandsFacts
<1>4. \A t : t \in InHands' <=> \E j \in DOMAIN players : t \in hands'[j]
    BY <1>2 DEF InHands
<1>5. ASSUME NEW t \in from
      PROVE  t \in Held' \cup NulTiles
    BY <1>2, <1>4, <1>5 DEF Held
<1>6. ASSUME NEW t \in InHands \ gone
      PROVE  t \in Held'
    <2>1. PICK j \in DOMAIN players : t \in hands[j]
        BY <1>3
    <2>2. t \in hands'[j]
        BY <1>2, <2>1
    <2> QED  BY <1>4, <2>1, <2>2 DEF Held
<1> QED  BY <1>5, <1>6 DEF Held

-----------------------------------------------------------------------------
(***************************************************************************)
(* Letters are conserved: one lemma per operation that moves tiles.        *)
(***************************************************************************)

\* Fills hands from the bag: only NUL tiles are lost.
LEMMA SetPlayersHolds ==
    ASSUME Inv, NEW ps \in Rosters, SetPlayers(ps)
    PROVE  Held \subseteq Held' \cup NulTiles
<1>1. PICK dealt \in [DOMAIN ps -> SUBSET bag] :
        /\ hands' = [i \in DOMAIN ps |-> HandOf(i) \cup (dealt[i] \ NulTiles)]
        /\ bag' = bag \ UNION {dealt[i] : i \in DOMAIN ps}
    BY DEF SetPlayers
<1>2. \A i \in DOMAIN players : i \in DOMAIN ps
    BY DEF SetPlayers
<1>3. \A t : t \in InHands' <=> \E i \in DOMAIN ps : t \in hands'[i]
    BY <1>1 DEF InHands
<1>4. ASSUME NEW t \in bag
      PROVE  t \in Held' \cup NulTiles
    <2>1. CASE \E i \in DOMAIN ps : t \in dealt[i]
        <3>1. PICK i \in DOMAIN ps : t \in dealt[i]
            BY <2>1
        <3>2. t \in hands'[i] \cup NulTiles
            BY <1>1, <3>1
        <3> QED  BY <1>3, <3>1, <3>2 DEF Held
    <2>2. CASE ~ \E i \in DOMAIN ps : t \in dealt[i]
        BY <1>1, <1>4, <2>2 DEF Held
    <2> QED  BY <2>1, <2>2
<1>5. ASSUME NEW t \in InHands
      PROVE  t \in Held'
    <2>1. PICK i \in DOMAIN players : t \in hands[i]
        BY InHandsFacts
    <2>2. t \in hands'[i]
        BY <1>1, <1>2, <2>1, SeatFacts DEF HandOf
    <2> QED  BY <1>2, <1>3, <2>1, <2>2 DEF Held
<1> QED  BY <1>4, <1>5 DEF Held

\* A successful exchange puts back all it takes.
LEMMA ChangeHolds ==
    ASSUME Inv, NEW i \in DOMAIN players, NEW request \in Requests, Change(i, request)
    PROVE  Held \subseteq Held' \cup NulTiles
<1>1. PICK back \in Taken(hands[i], request) :
      \E drawn \in Draws(hands[i] \ back, bag \cup back, current_max) :
        /\ hands' = [hands EXCEPT ![i] = (@ \ back) \cup (drawn \ NulTiles)]
        /\ bag' = (bag \cup back) \ drawn
    BY DEF Change
<1>2. PICK drawn :
        /\ hands' = [hands EXCEPT ![i] = (@ \ back) \cup (drawn \ NulTiles)]
        /\ bag' = (bag \cup back) \ drawn
    BY <1>1
<1>3. back \in SUBSET hands[i] /\ players' = players
    BY DEF Taken, Change
<1>4. bag \subseteq bag \cup back /\ back \subseteq bag \cup back
    OBVIOUS
<1> QED  BY <1>2, <1>3, <1>4, RefillHolds

\* So does one that is refused half way.
LEMMA ChangeRefusedHolds ==
    ASSUME Inv, NEW i \in DOMAIN players, NEW request \in Requests,
           ChangeRefused(i, request)
    PROVE  Held \subseteq Held' \cup NulTiles
<1>1. PICK back \in SUBSET hands[i] :
        /\ hands' = [hands EXCEPT ![i] = @ \ back]
        /\ bag' = bag \cup back
    BY DEF ChangeRefused, Taken
<1>2. players' = players
    BY DEF ChangeRefused
<1>3. hands[i] \ back = (hands[i] \ back) \cup ({} \ NulTiles)
    OBVIOUS
<1>4. hands' = [hands EXCEPT ![i] = (@ \ back) \cup ({} \ NulTiles)]
    BY <1>1, <1>3
<1>5. /\ bag' = (bag \cup back) \ {}
      /\ bag \subseteq bag \cup back /\ back \subseteq bag \cup back
    BY <1>1
<1> QED  BY <1>2, <1>4, <1>5, RefillHolds

\* A submission takes from the hand no tile whose letter it does not write.
LEMMA SubmitWordHolds ==
    ASSUME Inv, PendingIsLegal, players # <<>>, SubmitWord, NEW l \in Letters,
           Conserved(Held, board, l)
    PROVE  Conserved(Held', board', l)
<1>1. PICK gone \in Taken(hands[Mover], new_tiles.tiles) :
      \E drawn \in Draws(hands[Mover] \ gone, bag, current_max) :
        /\ hands' = [hands EXCEPT ![Mover] = (@ \ gone) \cup (drawn \ NulTiles)]
        /\ bag' = bag \ drawn
    BY DEF SubmitWord
<1>2. PICK drawn :
        /\ hands' = [hands EXCEPT ![Mover] = (@ \ gone) \cup (drawn \ NulTiles)]
        /\ bag' = bag \ drawn
    BY <1>1
<1>3. /\ Mover \in DOMAIN players
      /\ gone \in SUBSET hands[Mover] /\ gone \in SUBSET Tiles
      /\ players' = players
    BY SeatFacts DEF Taken, SubmitWord
<1>4. Held \ gone \subseteq Held' \cup NulTiles
    BY <1>2, <1>3, RefillHolds
<1>5. /\ WellFormed(new_tiles) /\ Legal(board, new_tiles)
      /\ board' = With(board, new_tiles)
    BY DEF SubmitWord, PendingIsLegal
<1>6. board \in Boards /\ new_tiles \in PlacementType
    BY DEF Inv, TypeOK
<1>7. CountOf(gone, l) =< Occurrences(new_tiles.tiles, l)
    <2>1. /\ Occurrences(new_tiles.tiles, l) \in Nat
          /\ CountOf(hands[Mover], l) \in Nat
        BY <1>3, <1>5, <1>6, WithAddsLetters, CountIsNat, SeatFacts
    <2>2. CountOf(gone, l) = IF CountOf(hands[Mover], l) < Occurrences(new_tiles.tiles, l)
                             THEN CountOf(hands[Mover], l)
                             ELSE Occurrences(new_tiles.tiles, l)
        BY DEF Taken
    <2> QED  BY <2>1, <2>2
<1>8. Held \in SUBSET Tiles /\ Held' \in SUBSET Tiles
    <2>1. Inv'
        BY SubmitWordInv
    <2> QED  BY <2>1, InHandsFacts, InHandsFactsNext
<1> QED  BY <1>3, <1>4, <1>5, <1>6, <1>7, <1>8, PlacementConserves

LEMMA InitLetters == Init => NoLetterVanishes
<1> SUFFICES ASSUME Init, NEW l \in Letters
             PROVE  Conserved(Held, board, l)
    BY DEF NoLetterVanishes, Conserved, Held, CellsOf
<1>1. Inv
    BY InitInv
<1>2. Tiles \subseteq Held \cup NulTiles /\ Held \in SUBSET Tiles /\ Tiles \in SUBSET Tiles
    BY <1>1, InHandsFacts DEF Init, Held
<1>3. CountOf(Tiles, l) =< CountOf(Held, l)
    BY <1>2, CountGrows
<1>4. CountOf(Held, l) \in Nat /\ CountOf(Tiles, l) \in Nat
    BY <1>2, CountIsNat
<1>5. Cardinality(CellsOf(board, l)) \in Nat
    BY CellsFinite DEF CellsOf
<1> QED  BY <1>3, <1>4, <1>5 DEF Conserved

LEMMA NextLetters ==
    Inv /\ PendingIsLegal /\ NoLetterVanishes /\ [Next]_vars => NoLetterVanishes'
<1> SUFFICES ASSUME Inv, PendingIsLegal, NoLetterVanishes, [Next]_vars, NEW l \in Letters
             PROVE  Conserved(Held', board', l)
    BY DEF NoLetterVanishes, Conserved, Held, CellsOf
<1>1. Conserved(Held, board, l)
    BY DEF NoLetterVanishes, Conserved, Held, CellsOf
<1>2. board \in Boards /\ Held \in SUBSET Tiles /\ Held' \in SUBSET Tiles
    BY NextInv, InHandsFacts, InHandsFactsNext DEF Inv, TypeOK
<1>3. ASSUME Held \subseteq Held' \cup NulTiles, board' = board
      PROVE  Conserved(Held', board', l)
    BY <1>1, <1>2, <1>3, HeldConserves
<1>4. CASE players # <<>> /\ SubmitWord
    BY <1>1, <1>4, SubmitWordHolds
<1>5. CASE \E ps \in Rosters : SetPlayers(ps)
    BY <1>3, <1>5, SetPlayersHolds DEF SetPlayers
<1>6. CASE \E i \in DOMAIN players, request \in Requests : Change(i, request)
    BY <1>3, <1>6, ChangeHolds DEF Change
<1>7. CASE \E i \in DOMAIN players, request \in Requests : ChangeRefused(i, request)
    BY <1>3, <1>7, ChangeRefusedHolds DEF ChangeRefused
<1>8. CASE UNCHANGED tableVars
    BY <1>3, <1>8 DEF tableVars, Held, InHands
<1> QED
    BY <1>4, <1>5, <1>6, <1>7, <1>8
    DEF Next, Move, SetPlayersOutOfBounds, SubmitWordOutOfBounds, ChangeOutOfBounds,
        OutOfBounds, TryPlaceTiles, Pass, vars, tableVars

\* Exchanges that succeed or fail half way, submissions of letters the hand
\* lacks, late and repeated starts: no sequence of them loses a letter.
THEOREM NoLetterEverVanishes == Spec => []NoLetterVanishes
BY InitLetters, NextLetters, Invariance, PendingStaysLegal, PTL DEF Spec

-----------------------------------------------------------------------------
(***************************************************************************)
(* Nor does a letter appear from nowhere, except on the board: SubmitWord  *)
(* writes letters the hand does not have.  In a game in which players put  *)
(* down only what they hold the account of every letter is exact, and that *)
(* is the only condition it takes: exchanges, refused ones, NUL slots and  *)
(* late starts do not disturb it.                                          *)
(***************************************************************************)
Exact(held, b, l) ==
    CountOf(held, l) + Cardinality(CellsOf(b, l)) = CountOf(Tiles, l)

LettersAreExact == \A l \in Letters : Exact(Held, board, l)

\* Putting down only what one holds.
PlacesOwnTiles == board' # board => Holds(hands[Mover], new_tiles.tiles)

\* Taking away tiles that are there costs a letter as many as show it.
LEMMA CountTakes ==
    ASSUME NEW S \in SUBSET Tiles, NEW G \in SUBSET S, NEW l
    PROVE  CountOf(S \ G, l) = CountOf(S, l) - CountOf(G, l)
<1> DEFINE A == TilesOf(S, l)
           B == TilesOf(G, l)
<1>1. IsFiniteSet(A) /\ IsFiniteSet(B)
    BY TileSetsFinite DEF TilesOf
<1>2. TilesOf(S \ G, l) = A \ B /\ A \cap B = B
    BY DEF TilesOf
<1>3. CountOf(S \ G, l) = Cardinality(A \ B) /\ CountOf(S, l) = Cardinality(A)
      /\ CountOf(G, l) = Cardinality(B)
    BY <1>2 DEF CountOf, TilesOf
<1> HIDE DEF A, B
<1>4. Cardinality(A \ B) = Cardinality(A) - Cardinality(A \cap B)
    BY <1>1, FS_Difference
<1> QED  BY <1>2, <1>3, <1>4

\* Bag and hands that differ by NUL tiles show every letter equally often.
LEMMA CountSame ==
    ASSUME NEW S \in SUBSET Tiles, NEW T \in SUBSET S, S \subseteq T \cup NulTiles,
           NEW l \in Letters
    PROVE  CountOf(S, l) = CountOf(T, l)
<1>1. TilesOf(S, l) = TilesOf(T, l)
    BY GameAssumption DEF TilesOf, NulTiles, GameAssumption
<1> QED  BY <1>1 DEF CountOf, TilesOf

\* A hand that gives `gone` away and is filled from the bag, and perhaps from what
\* it gave away, holds nothing it did not hold.
LEMMA RefillAdds ==
    ASSUME Inv, NEW i \in DOMAIN players, NEW gone \in SUBSET hands[i],
           NEW from \in SUBSET (bag \cup gone), NEW drawn \in SUBSET from,
           hands' = [hands EXCEPT ![i] = (@ \ gone) \cup (drawn \ NulTiles)],
           bag' = from \ drawn,
           players' = players
    PROVE  Held' \subseteq Held
<1>1. DOMAIN hands = DOMAIN players
    BY SeatFacts
<1>2. /\ DOMAIN hands' = DOMAIN players
      /\ hands'[i] = (hands[i] \ gone) \cup (drawn \ NulTiles)
      /\ \A j \in DOMAIN players \ {i} : hands'[j] = hands[j]
    BY <1>1
<1>3. hands[i] \subseteq Held /\ from \subseteq Held
    BY <1>1 DEF Held, InHands
<1>4. \A j \in DOMAIN players : hands'[j] \subseteq Held
    BY <1>1, <1>2, <1>3 DEF Held, InHands
<1> QED  BY <1>2, <1>3, <1>4 DEF Held, InHands

\* What a submission puts down has left bag and hands, when no tile is in two places.
LEMMA SubmitTakes ==
    ASSUME Inv, NoTileIsTwice, NEW i \in DOMAIN players, NEW gone \in SUBSET hands[i],
           NEW drawn \in SUBSET bag,
           hands' = [hands EXCEPT ![i] = (@ \ gone) \cup (drawn \ NulTiles)],
           bag' = bag \ drawn,
           players' = players
    PROVE  Held' \cap gone = {}
<1>1. DOMAIN hands = DOMAIN players
    BY SeatFacts
<1>2. /\ DOMAIN hands' = DOMAIN players
      /\ hands'[i] = (hands[i] \ gone) \cup (drawn \ NulTiles)
      /\ \A j \in DOMAIN players \ {i} : hands'[j] = hands[j]
    BY <1>1
<1>3. gone \cap bag = {} /\ \A j \in DOMAIN players \ {i} : gone \cap hands[j] = {}
    BY <1>1 DEF NoTileIsTwice
<1>4. \A j \in DOMAIN players : hands'[j] \cap gone = {}
    BY <1>2, <1>3
<1> QED  BY <1>2, <1>3, <1>4 DEF Held, InHands

\* The account stays exact when only NUL tiles leave bag and hands.
LEMMA HeldExact ==
    ASSUME NEW held \in SUBSET Tiles, NEW heldNext \in SUBSET held,
           held \subseteq heldNext \cup NulTiles,
           NEW b, NEW l \in Letters, Exact(held, b, l)
    PROVE  Exact(heldNext, b, l)
BY CountSame DEF Exact

\* A submission of letters the hand has moves them from the hand to the board.
LEMMA SubmitWordExact ==
    ASSUME Inv, PendingIsLegal, NoTileIsTwice, players # <<>>, SubmitWord,
           Holds(hands[Mover], new_tiles.tiles), NEW l \in Letters, Exact(Held, board, l)
    PROVE  Exact(Held', board', l)
<1>1. PICK gone \in Taken(hands[Mover], new_tiles.tiles) :
      \E drawn \in Draws(hands[Mover] \ gone, bag, current_max) :
        /\ hands' = [hands EXCEPT ![Mover] = (@ \ gone) \cup (drawn \ NulTiles)]
        /\ bag' = bag \ drawn
    BY DEF SubmitWord
<1>2. PICK drawn \in Draws(hands[Mover] \ gone, bag, current_max) :
        /\ hands' = [hands EXCEPT ![Mover] = (@ \ gone) \cup (drawn \ NulTiles)]
        /\ bag' = bag \ drawn
    BY <1>1
<1>3. /\ Mover \in DOMAIN players
      /\ gone \in SUBSET hands[Mover] /\ drawn \in SUBSET bag
      /\ players' = players
    BY SeatFacts DEF Taken, Draws, SubmitWord
<1>4. Held \ gone \subseteq Held' \cup NulTiles
    BY <1>2, <1>3, RefillHolds
<1>5. Held' \subseteq Held
    <2>1. bag \in SUBSET (bag \cup gone)
        OBVIOUS
    <2> QED  BY <1>2, <1>3, <2>1, RefillAdds
<1>6. Held' \cap gone = {}
    BY <1>2, <1>3, SubmitTakes
<1>7. Held \in SUBSET Tiles /\ gone \in SUBSET Held
    <2>1. DOMAIN hands = DOMAIN players
        BY SeatFacts
    <2> QED  BY <1>3, <2>1, InHandsFacts DEF Held, InHands
<1>8. CountOf(Held', l) = CountOf(Held \ gone, l)
    <2>1. Held \ gone \in SUBSET Tiles /\ Held' \in SUBSET (Held \ gone)
        BY <1>5, <1>6, <1>7
    <2> QED  BY <1>4, <2>1, CountSame
<1>9. CountOf(Held \ gone, l) = CountOf(Held, l) - CountOf(gone, l)
    BY <1>7, CountTakes
<1>10. /\ WellFormed(new_tiles) /\ Legal(board, new_tiles)
       /\ board' = With(board, new_tiles)
       /\ board \in Boards /\ new_tiles \in PlacementType
    BY DEF SubmitWord, PendingIsLegal, Inv, TypeOK
<1>11. /\ Occurrences(new_tiles.tiles, l) \in Nat
       /\ Cardinality(CellsOf(board', l)) =
             Cardinality(CellsOf(board, l)) + Occurrences(new_tiles.tiles, l)
    BY <1>10, WithAddsLetters
<1>12. CountOf(gone, l) = Occurrences(new_tiles.tiles, l)
    <2>1. CountOf(hands[Mover], l) \in Nat
        BY <1>3, CountIsNat, SeatFacts
    <2>2. CountOf(gone, l) = IF CountOf(hands[Mover], l) < Occurrences(new_tiles.tiles, l)
                             THEN CountOf(hands[Mover], l)
                             ELSE Occurrences(new_tiles.tiles, l)
        BY DEF Taken
    <2>3. Occurrences(new_tiles.tiles, l) =< CountOf(hands[Mover], l)
        BY DEF Holds
    <2> QED  BY <1>11, <2>1, <2>2, <2>3
<1>13. /\ CountOf(Held, l) \in Nat /\ CountOf(Tiles, l) \in Nat
       /\ Cardinality(CellsOf(board, l)) \in Nat
    BY <1>7, CountIsNat, CellsFinite DEF CellsOf
<1> QED  BY <1>8, <1>9, <1>11, <1>12, <1>13 DEF Exact

\* A start or late start deals tiles of the bag.
LEMMA SetPlayersAdds ==
    ASSUME Inv, NEW ps \in Rosters, SetPlayers(ps)
    PROVE  Held' \subseteq Held
<1>1. PICK dealt \in [DOMAIN ps -> SUBSET bag] :
        /\ hands' = [i \in DOMAIN ps |-> HandOf(i) \cup (dealt[i] \ NulTiles)]
        /\ bag' = bag \ UNION {dealt[i] : i \in DOMAIN ps}
    BY DEF SetPlayers
<1>2. \A i \in DOMAIN ps : HandOf(i) \subseteq Held
    BY DEF HandOf, Held, InHands
<1>3. \A i \in DOMAIN ps : hands'[i] \subseteq Held
    BY <1>1, <1>2 DEF Held
<1> QED  BY <1>1, <1>3 DEF Held, InHands

\* An exchange, and one that is refused half way, move tiles of the hand and the bag.
LEMMA ChangeAdds ==
    ASSUME Inv, NEW i \in DOMAIN players, NEW request \in Requests,
           Change(i, request) \/ ChangeRefused(i, request)
    PROVE  Held' \subseteq Held
<1>1. CASE Change(i, request)
    <2>1. PICK back \in Taken(hands[i], request) :
          \E drawn \in Draws(hands[i] \ back, bag \cup back, current_max) :
            /\ hands' = [hands EXCEPT ![i] = (@ \ back) \cup (drawn \ NulTiles)]
            /\ bag' = (bag \cup back) \ drawn
        BY <1>1 DEF Change
    <2>2. PICK drawn \in Draws(hands[i] \ back, bag \cup back, current_max) :
            /\ hands' = [hands EXCEPT ![i] = (@ \ back) \cup (drawn \ NulTiles)]
            /\ bag' = (bag \cup back) \ drawn
        BY <2>1
    <2>3. /\ back \in SUBSET hands[i] /\ drawn \in SUBSET (bag \cup back)
          /\ bag \cup back \in SUBSET (bag \cup back)
          /\ players' = players
        BY <1>1 DEF Taken, Draws, Change
    <2> QED  BY <2>2, <2>3, RefillAdds
<1>2. CASE ChangeRefused(i, request)
    <2>1. PICK back \in SUBSET hands[i] :
            /\ hands' = [hands EXCEPT ![i] = @ \ back]
            /\ bag' = bag \cup back
        BY <1>2 DEF ChangeRefused, Taken
    <2>2. (hands[i] \ back) \cup ({} \ NulTiles) = hands[i] \ back
        OBVIOUS
    <2>3. /\ hands' = [hands EXCEPT ![i] = (@ \ back) \cup ({} \ NulTiles)]
          /\ bag' = (bag \cup back) \ {}
          /\ players' = players
        BY <1>2, <2>1, <2>2 DEF ChangeRefused
    <2>4. /\ bag \cup back \in SUBSET (bag \cup back)
          /\ {} \in SUBSET (bag \cup back)
        OBVIOUS
    <2> QED  BY <2>3, <2>4, RefillAdds
<1> QED  BY <1>1, <1>2

LEMMA NextExact ==
    ASSUME Inv, PendingIsLegal, NoTileIsTwice, LettersAreExact, [Next]_vars,
           board' # board => PlacesOwnTiles
    PROVE  LettersAreExact'
<1> SUFFICES ASSUME NEW l \in Letters
             PROVE  Exact(Held', board', l)
    BY DEF LettersAreExact
<1>1. Exact(Held, board, l) /\ Held \in SUBSET Tiles
    BY InHandsFacts DEF LettersAreExact
<1>2. ASSUME Held \subseteq Held' \cup NulTiles, Held' \subseteq Held, board' = board
      PROVE  Exact(Held', board', l)
    BY <1>1, <1>2, HeldExact
<1>3. CASE players # <<>> /\ SubmitWord
    <2>1. board' # board
        BY <1>3, SubmitWordFacts
    <2> QED  BY <1>1, <1>3, <2>1, SubmitWordExact DEF PlacesOwnTiles
<1>4. CASE \E ps \in Rosters : SetPlayers(ps)
    BY <1>2, <1>4, SetPlayersHolds, SetPlayersAdds DEF SetPlayers
<1>5. CASE \E i \in DOMAIN players, request \in Requests : Change(i, request)
    BY <1>2, <1>5, ChangeHolds, ChangeAdds DEF Change
<1>6. CASE \E i \in DOMAIN players, request \in Requests : ChangeRefused(i, request)
    BY <1>2, <1>6, ChangeRefusedHolds, ChangeAdds DEF ChangeRefused
<1>7. CASE UNCHANGED tableVars
    BY <1>1, <1>7 DEF tableVars, Held, InHands
<1> QED
    BY <1>3, <1>4, <1>5, <1>6, <1>7
    DEF Next, Move, SetPlayersOutOfBounds, SubmitWordOutOfBounds, ChangeOutOfBounds,
        OutOfBounds, TryPlaceTiles, Pass, vars, tableVars

\* In a game in which nobody puts down a letter he does not hold, every letter is
\* counted in bag, hands and board exactly as often as the bag had it at the start:
\* what the engine fails to check in SubmitWord is the only source of letters.
THEOREM LettersStayExact ==
    Spec /\ [][PlacesOwnTiles]_vars => []LettersAreExact
<1>1. Init => LettersAreExact
    <2> SUFFICES ASSUME Init, NEW l \in Letters
                 PROVE  Exact(Held, board, l)
        BY DEF LettersAreExact
    <2>1. Held = Tiles
        BY DEF Init, Held, InHands
    <2>2. CellsOf(board, l) = {}
        BY BoardAssumption DEF Init, CellsOf, EmptyBoard, BoardAssumption
    <2>3. CountOf(Tiles, l) \in Nat /\ Cardinality(CellsOf(board, l)) = 0
        BY <2>2, CountIsNat, FS_EmptySet
    <2> QED  BY <2>1, <2>3 DEF Exact
<1>2. /\ Inv /\ PendingIsLegal /\ NoTileIsTwice /\ LettersAreExact
      /\ [Next]_vars /\ [PlacesOwnTiles]_vars
      => LettersAreExact'
    <2>1. [PlacesOwnTiles]_vars => (board' # board => PlacesOwnTiles)
        BY DEF vars
    <2> QED  BY <2>1, NextExact
<1> QED  BY <1>1, <1>2, Invariance, PendingStaysLegal, TilesStayApart, PTL DEF Spec
=============================================================================
