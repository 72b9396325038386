------------------------- MODULE ScrabbleGameProofs -------------------------
(***************************************************************************)
(* Theorems about ScrabbleGame, for every board, bag, set of players and   *)
(* every definition of PlacementScore that satisfies its assumption.       *)
(***************************************************************************)
EXTENDS ScrabbleGame, FiniteSetTheorems, TLAPS

-----------------------------------------------------------------------------
(***************************************************************************)
(* Facts about the operators the actions are built from.                   *)
(***************************************************************************)

\* Sets of tiles are finite, so the sizes the code reads are numbers.
LEMMA TileSetsFinite ==
    ASSUME NEW S \in SUBSET Tiles
    PROVE  IsFiniteSet(S) /\ Cardinality(S) \in Nat
BY FS_Subset, FS_CardinalityType, GameAssumption DEF GameAssumption

\* Writing a placement on a board leaves a board.
LEMMA WithIsBoard ==
    ASSUME NEW b \in Boards, NEW p \in PlacementType
    PROVE  With(b, p) \in Boards
<1> SUFFICES ASSUME NEW c \in Cells
             PROVE  With(b, p)[c] \in Letters \cup {NoLetter}
    BY DEF With, Boards
<1>1. CASE \E i \in DOMAIN p.tiles : At(p, i) = c
    <2> DEFINE k == CHOOSE i \in DOMAIN p.tiles : At(p, i) = c
    <2>1. k \in DOMAIN p.tiles /\ At(p, k) = c
        BY <1>1
    <2>2. p.tiles \in Seq(Letters)
        BY DEF PlacementType
    <2>4. With(b, p)[c] = p.tiles[k]
        BY <1>1 DEF With
    <2> HIDE DEF k
    <2>3. p.tiles[k] \in Letters
        BY <2>1, <2>2
    <2> QED  BY <2>3, <2>4
<1>2. CASE ~ \E i \in DOMAIN p.tiles : At(p, i) = c
    <2>1. With(b, p)[c] = b[c]
        BY <1>2 DEF With
    <2> QED  BY <2>1 DEF Boards
<1> QED  BY <1>1, <1>2

\* A well-formed legal placement has a tile for each coordinate.
LEMMA SameDomain ==
    ASSUME NEW p \in PlacementType, WellFormed(p)
    PROVE  /\ DOMAIN p.tiles = DOMAIN p.coordinates
           /\ DOMAIN p.tiles = 1 .. Len(p.tiles)
BY DEF PlacementType, WellFormed

\* Writing a legal placement leaves every occupied cell as it was.
LEMMA WithKeepsLetters ==
    ASSUME NEW b \in Boards, NEW p \in PlacementType, WellFormed(p), Legal(b, p),
           NEW c \in Cells, b[c] # NoLetter
    PROVE  With(b, p)[c] = b[c]
<1>1. ~ \E i \in DOMAIN p.tiles : At(p, i) = c
    BY SameDomain DEF Legal, OnFreeCells
<1> QED  BY <1>1 DEF With

\* Writing a legal placement fills a cell that was empty.
LEMMA WithFillsACell ==
    ASSUME NEW b \in Boards, NEW p \in PlacementType, WellFormed(p), Legal(b, p)
    PROVE  \E c \in Cells : b[c] = NoLetter /\ With(b, p)[c] # NoLetter
<1>1. p.coordinates \in Seq(Seq(Int)) /\ p.tiles \in Seq(Letters)
    BY DEF PlacementType
<1>2. 1 \in DOMAIN p.coordinates
    BY <1>1 DEF Legal
<1> DEFINE c == At(p, 1)
<1>3. c \in Cells /\ b[c] = NoLetter
    BY <1>2 DEF Legal, InBoard, OnFreeCells
<1>4. \E i \in DOMAIN p.tiles : At(p, i) = c
    BY <1>2, SameDomain
<1> DEFINE k == CHOOSE i \in DOMAIN p.tiles : At(p, i) = c
<1>5. k \in DOMAIN p.tiles
    BY <1>4
<1>6. With(b, p)[c] = p.tiles[k]
    BY <1>3, <1>4 DEF With
<1> HIDE DEF c, k
<1>7. p.tiles[k] \in Letters
    BY <1>1, <1>5
<1>8. With(b, p)[c] # NoLetter
    BY <1>6, <1>7, BoardAssumption DEF BoardAssumption
<1> QED  BY <1>3, <1>8

\* What FillHand draws comes from the bag, is counted by the random counter and
\* fits into the hand.
LEMMA DrawsFit ==
    ASSUME NEW hand \in SUBSET Tiles, NEW from \in SUBSET Tiles, NEW max \in Int,
           NEW drawn \in Draws(hand, from, max), Cardinality(hand) =< TilesMax
    PROVE  /\ drawn \subseteq from
           /\ Cardinality(drawn) \in Nat
           /\ Cardinality(drawn) =< max
           /\ Cardinality(hand \cup (drawn \ NulTiles)) =< TilesMax
<1> DEFINE kept == drawn \ NulTiles
<1>1. drawn \subseteq from /\ Cardinality(drawn) =< max
    BY DEF Draws
<1>2. drawn \in SUBSET Tiles /\ kept \in SUBSET Tiles
    BY <1>1
<1>3. /\ IsFiniteSet(hand) /\ Cardinality(hand) \in Nat
      /\ IsFiniteSet(kept) /\ Cardinality(kept) \in Nat
      /\ Cardinality(drawn) \in Nat
    BY <1>2, TileSetsFinite
<1>4. TilesMax \in Nat
    BY GameAssumption DEF GameAssumption
<1>5. \/ Cardinality(kept) = TilesMax - Cardinality(hand)
      \/ Cardinality(kept) < TilesMax - Cardinality(hand)
    BY DEF Draws
<1>6. Cardinality(hand \cup kept) =
          Cardinality(hand) + Cardinality(kept) - Cardinality(hand \cap kept)
    BY <1>3, FS_Union
<1>7. Cardinality(hand \cap kept) \in Nat
    BY TileSetsFinite
<1> HIDE DEF kept
<1>8. Cardinality(hand \cup kept) =< TilesMax
    BY <1>3, <1>4, <1>5, <1>6, <1>7
<1> QED  BY <1>1, <1>3, <1>8 DEF kept

\* Drawing keeps the random counter at or below the size of the bag.
LEMMA DrawsKeepCounter ==
    ASSUME NEW hand \in SUBSET Tiles, NEW from \in SUBSET Tiles, NEW max \in Nat,
           NEW drawn \in Draws(hand, from, max), Cardinality(hand) =< TilesMax,
           max =< Cardinality(from)
    PROVE  /\ max - Cardinality(drawn) \in Nat
           /\ max - Cardinality(drawn) =< Cardinality(from \ drawn)
<1>0. max \in Int
    OBVIOUS
<1>1. /\ drawn \subseteq from
      /\ Cardinality(drawn) \in Nat
      /\ Cardinality(drawn) =< max
    BY <1>0, DrawsFit, Zenon
<1>2. Cardinality(from \ drawn) = Cardinality(from) - Cardinality(drawn)
    <2>1. IsFiniteSet(from) /\ IsFiniteSet(drawn)
        BY <1>1, TileSetsFinite
    <2>2. from \cap drawn = drawn
        BY <1>1
    <2> QED  BY <2>1, <2>2, FS_Difference
<1>3. Cardinality(from) \in Nat
    BY TileSetsFinite
<1> QED  BY <1>1, <1>2, <1>3

\* Putting tiles back makes no bag smaller.
LEMMA BagGrows ==
    ASSUME NEW S \in SUBSET Tiles, NEW T \in SUBSET Tiles
    PROVE  Cardinality(S) =< Cardinality(S \cup T)
<1>1. IsFiniteSet(S \cup T)
    BY TileSetsFinite
<1>2. S \in SUBSET (S \cup T)
    OBVIOUS
<1> QED  BY <1>1, <1>2, FS_Subset

\* A hand that gives tiles away stays within its limit.
LEMMA HandShrinks ==
    ASSUME NEW hand \in SUBSET Tiles, NEW gone \in SUBSET hand,
           Cardinality(hand) =< TilesMax
    PROVE  /\ hand \ gone \in SUBSET Tiles
           /\ Cardinality(hand \ gone) =< TilesMax
<1>1. IsFiniteSet(hand) /\ Cardinality(hand) \in Nat
    BY TileSetsFinite
<1>2. hand \ gone \in SUBSET hand
    OBVIOUS
<1>3. Cardinality(hand \ gone) =< Cardinality(hand)
    BY <1>1, <1>2, FS_Subset
<1>4. Cardinality(hand \ gone) \in Nat /\ TilesMax \in Nat
    BY TileSetsFinite, GameAssumption DEF GameAssumption
<1> QED  BY <1>1, <1>3, <1>4

-----------------------------------------------------------------------------
(***************************************************************************)
(* The inductive invariant: the type invariant needs the counter to count  *)
(* no further than the bag, the draws need hands within their limit.       *)
(***************************************************************************)
BagInv == DrawStaysInBag /\ HandsAreBounded

Inv == TypeOK /\ BagInv

\* The sequences of hands and points follow the sequence of players.
LEMMA SeatFacts ==
    ASSUME Inv
    PROVE  /\ DOMAIN players = 1 .. Len(players) /\ Len(players) \in Nat
           /\ DOMAIN hands = DOMAIN players /\ DOMAIN scores = DOMAIN players
           /\ \A i \in DOMAIN players :
                /\ hands[i] \in SUBSET Tiles
                /\ hands[i] \in SUBSET (Tiles \ NulTiles)
                /\ Cardinality(hands[i]) =< TilesMax
           /\ players # <<>> => Mover \in DOMAIN players
<1>1. players \in Seq(Users)
    BY DEF Inv, TypeOK
<1>2. DOMAIN players = 1 .. Len(players) /\ Len(players) \in Nat
    BY <1>1
<1>3. DOMAIN hands = DOMAIN players /\ DOMAIN scores = DOMAIN players
    BY DEF Inv, TypeOK
<1>4. \A i \in DOMAIN players : hands[i] \in SUBSET (Tiles \ NulTiles)
    BY DEF Inv, TypeOK
<1>5. \A i \in DOMAIN players : Cardinality(hands[i]) =< TilesMax
    BY <1>3 DEF Inv, BagInv, HandsAreBounded
<1>6. players # <<>> => Mover \in DOMAIN players
    <2>1. players # <<>> => current_player \in 0 .. Len(players) - 1
        BY DEF Inv, TypeOK
    <2> QED  BY <1>2, <2>1 DEF Mover
<1> QED  BY <1>2, <1>3, <1>4, <1>5, <1>6

\* Ending the turn clears the placement and seats a player to move.
LEMMA EndTurnType ==
    ASSUME Inv, players # <<>>, EndTurn
    PROVE  /\ new_tiles' \in PlacementType
           /\ score' = -1
           /\ current_player' \in 0 .. Len(players) - 1
<1>1. new_tiles' \in PlacementType
    BY DEF EndTurn, NoPlacement, PlacementType
<1>2. Len(players) \in Nat /\ Len(players) > 0
    BY DEF Inv, TypeOK
<1>3. current_player \in Nat
    BY <1>2 DEF Inv, TypeOK
<1>4. (current_player + 1) % Len(players) \in 0 .. Len(players) - 1
    BY <1>2, <1>3
<1> QED  BY <1>1, <1>4 DEF EndTurn

\* A hand that gives `gone` away and is filled from `from` leaves the state
\* well typed: what SubmitWord and Change have in common.
LEMMA RefillInv ==
    ASSUME Inv, players # <<>>, EndTurn,
           NEW i \in DOMAIN players, NEW gone \in SUBSET hands[i],
           NEW from \in SUBSET Tiles, current_max =< Cardinality(from),
           NEW drawn \in Draws(hands[i] \ gone, from, current_max),
           hands' = [hands EXCEPT ![i] = (@ \ gone) \cup (drawn \ NulTiles)],
           bag' = from \ drawn,
           current_max' = current_max - Cardinality(drawn),
           scores' \in [DOMAIN players -> Nat],
           board' \in Boards,
           players' = players,
           oob' = oob
    PROVE  Inv'
<1> DEFINE rest == hands[i] \ gone
<1>1. /\ hands[i] \in SUBSET Tiles
      /\ hands[i] \in SUBSET (Tiles \ NulTiles)
      /\ Cardinality(hands[i]) =< TilesMax
      /\ DOMAIN hands = DOMAIN players
    BY SeatFacts
<1>2. rest \in SUBSET Tiles /\ Cardinality(rest) =< TilesMax
    BY <1>1, HandShrinks
<1>3. current_max \in Nat /\ current_max \in Int
    BY DEF Inv, TypeOK
<1>4. drawn \in Draws(rest, from, current_max)
    OBVIOUS
<1> HIDE DEF rest
<1>5. /\ drawn \subseteq from
      /\ Cardinality(rest \cup (drawn \ NulTiles)) =< TilesMax
    BY <1>2, <1>3, <1>4, DrawsFit, Zenon
<1>6. /\ current_max - Cardinality(drawn) \in Nat
      /\ current_max - Cardinality(drawn) =< Cardinality(from \ drawn)
    BY <1>2, <1>3, <1>4, DrawsKeepCounter, Zenon
<1>7. TypeOK'
    <2>1. hands' \in [DOMAIN players' -> SUBSET (Tiles \ NulTiles)]
        <3>1. (hands[i] \ gone) \cup (drawn \ NulTiles) \in SUBSET (Tiles \ NulTiles)
            BY <1>1, <1>5
        <3>2. hands \in [DOMAIN players -> SUBSET (Tiles \ NulTiles)]
            BY DEF Inv, TypeOK
        <3> QED  BY <3>1, <3>2
    <2>2. bag' \subseteq Tiles
        OBVIOUS
    <2>3. current_max' \in Nat
        BY <1>6
    <2>4. /\ new_tiles' \in PlacementType
          /\ score' \in Nat \cup {-1}
          /\ current_player' \in 0 .. Len(players) - 1
        BY EndTurnType
    <2>5. players \in Seq(Users) /\ oob \in BOOLEAN
        BY DEF Inv, TypeOK
    <2> QED  BY <2>1, <2>2, <2>3, <2>4, <2>5 DEF TypeOK
<1>8. BagInv'
    <2>1. DrawStaysInBag'
        BY <1>6 DEF DrawStaysInBag
    <2>2. HandsAreBounded'
        <3> SUFFICES ASSUME NEW k \in DOMAIN hands'
                     PROVE  Cardinality(hands'[k]) =< TilesMax
            BY DEF HandsAreBounded
        <3>1. DOMAIN hands' = DOMAIN players
            BY <1>1
        <3>2. CASE k = i
            BY <1>1, <1>5, <3>2 DEF rest
        <3>3. CASE k # i
            <4>1. hands'[k] = hands[k]
                BY <1>1, <3>3
            <4> QED  BY <3>1, <4>1, SeatFacts
        <3> QED  BY <3>2, <3>3
    <2> QED  BY <2>1, <2>2 DEF BagInv
<1> QED  BY <1>7, <1>8 DEF Inv

-----------------------------------------------------------------------------
(***************************************************************************)
(* The invariant is preserved: one lemma per operation.                    *)
(***************************************************************************)

LEMMA InitInv == Init => Inv
<1> SUFFICES ASSUME Init
             PROVE  Inv
    OBVIOUS
<1>1. Cardinality(Tiles) \in Nat
    BY TileSetsFinite
<1>2. NoPlacement \in PlacementType
    BY DEF NoPlacement, PlacementType
<1>3. EmptyBoard \in Boards
    BY DEF EmptyBoard, Boards
<1>4. players \in Seq(Users)
    BY DEF Init
<1>5. DOMAIN players = {} /\ DOMAIN hands = {} /\ DOMAIN scores = {}
    BY DEF Init
<1>6. /\ hands \in [DOMAIN players -> SUBSET (Tiles \ NulTiles)]
      /\ scores \in [DOMAIN players -> Nat]
    BY <1>5 DEF Init
<1>7. TypeOK
    <2>1. current_player \in 0 .. (IF players = <<>> THEN 0 ELSE Len(players) - 1)
        BY DEF Init
    <2>2. bag \subseteq Tiles /\ current_max \in Nat /\ board \in Boards
        BY <1>1, <1>3 DEF Init
    <2>3. new_tiles \in PlacementType /\ score \in Nat \cup {-1} /\ oob \in BOOLEAN
        BY <1>2 DEF Init
    <2> QED  BY <1>4, <1>6, <2>1, <2>2, <2>3 DEF TypeOK
<1>8. BagInv
    BY <1>1, <1>5 DEF Init, BagInv, DrawStaysInBag, HandsAreBounded
<1> QED  BY <1>7, <1>8 DEF Inv

\* The players' draws, one after the other: each takes from what is left, and
\* together they take no more than the counter allows.
LEMMA DealFacts ==
    ASSUME Inv, NEW n \in Nat, NEW dealt \in [1 .. n -> SUBSET bag], Deal(dealt, n)
    PROVE  LET drawn == UNION {dealt[i] : i \in 1 .. n}
           IN  /\ \A i \in 1 .. n :
                    Cardinality(HandOf(i) \cup (dealt[i] \ NulTiles)) =< TilesMax
               /\ current_max - Cardinality(drawn) \in Nat
               /\ current_max - Cardinality(drawn) =< Cardinality(bag \ drawn)
<1> DEFINE drawn == UNION {dealt[i] : i \in 1 .. n}
<1>1. bag \in SUBSET Tiles /\ current_max \in Nat /\ current_max =< Cardinality(bag)
    BY DEF Inv, TypeOK, BagInv, DrawStaysInBag
<1>2. \A i \in 1 .. n : HandOf(i) \in SUBSET Tiles /\ Cardinality(HandOf(i)) =< TilesMax
    <2>1. Cardinality({}) =< TilesMax
        BY FS_EmptySet, GameAssumption DEF GameAssumption
    <2> QED  BY <2>1, SeatFacts DEF HandOf
<1>3. \A i \in 1 .. n :
        /\ DealtBefore(dealt, i) \in SUBSET bag
        /\ Cardinality(DealtBefore(dealt, i)) \in Nat
    <2> SUFFICES ASSUME NEW i \in 1 .. n
                 PROVE  /\ DealtBefore(dealt, i) \in SUBSET bag
                        /\ Cardinality(DealtBefore(dealt, i)) \in Nat
        OBVIOUS
    <2>1. \A j \in 1 .. i - 1 : j \in 1 .. n
        OBVIOUS
    <2>2. DealtBefore(dealt, i) \in SUBSET bag
        BY <2>1 DEF DealtBefore
    <2> QED  BY <1>1, <2>2, TileSetsFinite
<1>4. \A i \in 1 .. n :
        /\ dealt[i] \in SUBSET bag
        /\ Cardinality(dealt[i]) =< current_max - Cardinality(DealtBefore(dealt, i))
        /\ Cardinality(HandOf(i) \cup (dealt[i] \ NulTiles)) =< TilesMax
    <2> SUFFICES ASSUME NEW i \in 1 .. n
                 PROVE  /\ dealt[i] \in SUBSET bag
                        /\ Cardinality(dealt[i]) =<
                             current_max - Cardinality(DealtBefore(dealt, i))
                        /\ Cardinality(HandOf(i) \cup (dealt[i] \ NulTiles)) =< TilesMax
        OBVIOUS
    <2> DEFINE before == DealtBefore(dealt, i)
               max    == current_max - Cardinality(before)
    <2>1. dealt[i] \in Draws(HandOf(i), bag \ before, max)
        BY DEF Deal
    <2>2. HandOf(i) \in SUBSET Tiles /\ Cardinality(HandOf(i)) =< TilesMax
        BY <1>2
    <2>3. bag \ before \in SUBSET Tiles /\ max \in Int
        BY <1>1, <1>3
    <2> HIDE DEF before, max
    <2>4. /\ Cardinality(dealt[i]) =< max
          /\ Cardinality(HandOf(i) \cup (dealt[i] \ NulTiles)) =< TilesMax
        BY <2>1, <2>2, <2>3, DrawsFit, Zenon
    <2>5. dealt[i] \in SUBSET bag
        OBVIOUS
    <2> QED  BY <2>4, <2>5 DEF before, max
<1>5. drawn \in SUBSET bag /\ drawn \in SUBSET Tiles
    BY <1>1
<1>6. Cardinality(drawn) \in Nat /\ Cardinality(drawn) =< current_max
    <2>1. CASE n = 0
        <3>1. drawn = {}
            BY <2>1
        <3>2. Cardinality(drawn) = 0
            BY <3>1, FS_EmptySet
        <3> HIDE DEF drawn
        <3> QED  BY <1>1, <3>2
    <2>2. CASE n > 0
        <3>1. n \in 1 .. n
            BY <2>2
        <3>2. drawn = DealtBefore(dealt, n) \cup dealt[n]
            <4>1. 1 .. n = (1 .. n - 1) \cup {n}
                BY <2>2
            <4> QED  BY <4>1 DEF DealtBefore
        <3> DEFINE before == DealtBefore(dealt, n)
        <3>3. before \in SUBSET Tiles /\ dealt[n] \in SUBSET Tiles
            BY <1>1, <1>3, <1>4, <3>1
        <3>4. /\ IsFiniteSet(before) /\ Cardinality(before) \in Nat
              /\ IsFiniteSet(dealt[n]) /\ Cardinality(dealt[n]) \in Nat
              /\ Cardinality(before \cap dealt[n]) \in Nat
            BY <3>3, TileSetsFinite
        <3>5. Cardinality(drawn) = Cardinality(before) + Cardinality(dealt[n])
                                       - Cardinality(before \cap dealt[n])
            BY <3>2, <3>4, FS_Union
        <3>6. Cardinality(dealt[n]) =< current_max - Cardinality(before)
            BY <1>4, <3>1
        <3>7. Cardinality(drawn) \in Nat
            BY <1>5, TileSetsFinite
        <3> HIDE DEF before, drawn
        <3> QED  BY <1>1, <3>4, <3>5, <3>6, <3>7
    <2> QED  BY <2>1, <2>2
<1>7. Cardinality(bag \ drawn) = Cardinality(bag) - Cardinality(drawn)
    <2>1. IsFiniteSet(bag) /\ bag \cap drawn = drawn
        BY <1>1, <1>5, TileSetsFinite
    <2> HIDE DEF drawn
    <2> QED  BY <2>1, FS_Difference
<1>8. Cardinality(bag) \in Nat
    BY <1>1, TileSetsFinite
<1> HIDE DEF drawn
<1>9. /\ current_max - Cardinality(drawn) \in Nat
      /\ current_max - Cardinality(drawn) =< Cardinality(bag \ drawn)
    BY <1>1, <1>6, <1>7, <1>8
<1> QED  BY <1>4, <1>9 DEF drawn

LEMMA SetPlayersInv ==
    ASSUME Inv, NEW ps \in Rosters, SetPlayers(ps)
    PROVE  Inv'
<1>1. ps \in Seq(Users)
    BY GameAssumption DEF GameAssumption
<1>2. DOMAIN ps = 1 .. Len(ps) /\ Len(ps) \in Nat
    BY <1>1
<1>3. PICK dealt \in [DOMAIN ps -> SUBSET bag] :
        LET drawn == UNION {dealt[i] : i \in DOMAIN ps}
        IN  /\ Deal(dealt, Len(ps))
            /\ players' = ps
            /\ hands' = [i \in DOMAIN ps |-> HandOf(i) \cup (dealt[i] \ NulTiles)]
            /\ scores' = [i \in DOMAIN ps |-> ScoreOf(i)]
            /\ bag' = bag \ drawn
            /\ current_max' = current_max - Cardinality(drawn)
    BY DEF SetPlayers
<1> DEFINE drawn == UNION {dealt[i] : i \in DOMAIN ps}
<1>4. dealt \in [1 .. Len(ps) -> SUBSET bag]
    BY <1>2
<1>5. /\ \A i \in DOMAIN ps :
            Cardinality(HandOf(i) \cup (dealt[i] \ NulTiles)) =< TilesMax
      /\ current_max - Cardinality(drawn) \in Nat
      /\ current_max - Cardinality(drawn) =< Cardinality(bag \ drawn)
    BY <1>2, <1>3, <1>4, DealFacts
<1>6. bag' = bag \ drawn /\ current_max' = current_max - Cardinality(drawn)
    BY <1>3
<1> HIDE DEF drawn
<1>7. bag \subseteq Tiles
    BY DEF Inv, TypeOK
<1>8. TypeOK'
    <2>1. hands' \in [DOMAIN players' -> SUBSET (Tiles \ NulTiles)]
        <3>1. \A i \in DOMAIN ps : HandOf(i) \in SUBSET (Tiles \ NulTiles)
            BY SeatFacts DEF HandOf
        <3>2. \A i \in DOMAIN ps : dealt[i] \ NulTiles \in SUBSET (Tiles \ NulTiles)
            BY <1>7
        <3> QED  BY <1>3, <3>1, <3>2
    <2>2. scores' \in [DOMAIN players' -> Nat]
        <3>1. \A i \in DOMAIN ps : ScoreOf(i) \in Nat
            BY DEF ScoreOf, Inv, TypeOK
        <3> QED  BY <1>3, <3>1
    <2>3. current_player' \in
              0 .. (IF players' = <<>> THEN 0 ELSE Len(players') - 1)
        <3>1. players' = ps /\ current_player' = current_player
            BY <1>3 DEF SetPlayers
        <3>2. CASE players = <<>>
            <4>1. current_player = 0
                BY <3>2 DEF Inv, TypeOK
            <4>2. ps # <<>> => Len(ps) > 0
                BY <1>1
            <4> QED  BY <1>2, <3>1, <4>1, <4>2
        <3>3. CASE players # <<>>
            <4>1. /\ Mover \in DOMAIN players
                  /\ current_player \in 0 .. Len(players) - 1
                  /\ Len(players) \in Nat
                BY <3>3, SeatFacts DEF Inv, TypeOK
            <4>2. Mover \in DOMAIN ps
                BY <4>1 DEF SetPlayers
            <4>3. current_player \in 0 .. Len(ps) - 1 /\ ps # <<>>
                BY <1>1, <1>2, <4>1, <4>2 DEF Mover
            <4> QED  BY <3>1, <4>3
        <3> QED  BY <3>2, <3>3
    <2>4. bag' \subseteq Tiles /\ current_max' \in Nat
        BY <1>5, <1>6, <1>7
    <2>5. players' \in Seq(Users)
        BY <1>1, <1>3
    <2>6. UNCHANGED <<board, new_tiles, score, oob>>
        BY DEF SetPlayers, pendingVars
    <2> QED  BY <2>1, <2>2, <2>3, <2>4, <2>5, <2>6 DEF Inv, TypeOK
<1>9. BagInv'
    <2>1. DrawStaysInBag'
        BY <1>5, <1>6 DEF DrawStaysInBag
    <2>2. HandsAreBounded'
        BY <1>3, <1>5 DEF HandsAreBounded
    <2> QED  BY <2>1, <2>2 DEF BagInv
<1> QED  BY <1>8, <1>9 DEF Inv

LEMMA TryPlaceTilesInv ==
    ASSUME Inv, NEW p \in Placements, TryPlaceTiles(p)
    PROVE  Inv'
<1>1. p \in PlacementType
    BY GameAssumption DEF GameAssumption
<1>2. new_tiles' \in PlacementType
    BY <1>1 DEF TryPlaceTiles, Inv, TypeOK
<1>3. score' \in Nat \cup {-1}
    <2>1. CASE WellFormed(p) /\ Legal(board, p)
        <3>1. score' = PlacementScore(board, p)
            BY <2>1 DEF TryPlaceTiles
        <3>2. board \in Boards
            BY DEF Inv, TypeOK
        <3> QED  BY <2>1, <3>1, <3>2, ScoreAssumption DEF ScoreAssumption
    <2>2. CASE ~(WellFormed(p) /\ Legal(board, p))
        BY <2>2 DEF TryPlaceTiles
    <2> QED  BY <2>1, <2>2
<1>4. UNCHANGED <<tableVars, current_player, oob>>
    BY DEF TryPlaceTiles
<1>5. TypeOK'
    BY <1>2, <1>3, <1>4 DEF Inv, TypeOK, tableVars
<1>6. BagInv'
    BY <1>4 DEF Inv, BagInv, DrawStaysInBag, HandsAreBounded, tableVars
<1> QED  BY <1>5, <1>6 DEF Inv

LEMMA SubmitWordInv ==
    ASSUME Inv, players # <<>>, SubmitWord
    PROVE  Inv'
<1>1. PICK gone \in Taken(hands[Mover], new_tiles.tiles) :
      \E drawn \in Draws(hands[Mover] \ gone, bag, current_max) :
        /\ hands' = [hands EXCEPT ![Mover] = (@ \ gone) \cup (drawn \ NulTiles)]
        /\ bag' = bag \ drawn
        /\ current_max' = current_max - Cardinality(drawn)
    BY DEF SubmitWord
<1>2. PICK drawn \in Draws(hands[Mover] \ gone, bag, current_max) :
        /\ hands' = [hands EXCEPT ![Mover] = (@ \ gone) \cup (drawn \ NulTiles)]
        /\ bag' = bag \ drawn
        /\ current_max' = current_max - Cardinality(drawn)
    BY <1>1
<1>3. gone \in SUBSET hands[Mover]
    BY DEF Taken
<1>4. bag \in SUBSET Tiles /\ current_max =< Cardinality(bag)
    BY DEF Inv, TypeOK, BagInv, DrawStaysInBag
<1>5. scores' \in [DOMAIN players -> Nat]
    <2>1. scores \in [DOMAIN players -> Nat] /\ score \in Nat
        BY DEF SubmitWord, Inv, TypeOK
    <2>2. scores' = [scores EXCEPT ![Mover] = @ + score]
        BY DEF SubmitWord
    <2>3. Mover \in DOMAIN players
        BY SeatFacts
    <2>4. scores[Mover] + score \in Nat
        BY <2>1, <2>3
    <2> QED  BY <2>1, <2>2, <2>4
<1>6. board' \in Boards
    BY WithIsBoard DEF SubmitWord, Inv, TypeOK
<1>7. EndTurn /\ players' = players /\ oob' = oob
    BY DEF SubmitWord
<1>8. Mover \in DOMAIN players
    BY SeatFacts
<1> QED  BY <1>2, <1>3, <1>4, <1>5, <1>6, <1>7, <1>8, RefillInv

LEMMA PassInv ==
    ASSUME Inv, players # <<>>, Pass
    PROVE  Inv'
<1>1. /\ new_tiles' \in PlacementType
      /\ score' = -1
      /\ current_player' \in 0 .. Len(players) - 1
    BY EndTurnType DEF Pass
<1>2. UNCHANGED <<tableVars, oob>>
    BY DEF Pass
<1>3. TypeOK'
    BY <1>1, <1>2 DEF Inv, TypeOK, tableVars
<1>4. BagInv'
    BY <1>2 DEF Inv, BagInv, DrawStaysInBag, HandsAreBounded, tableVars
<1> QED  BY <1>3, <1>4 DEF Inv

LEMMA ChangeInv ==
    ASSUME Inv, players # <<>>, NEW i \in DOMAIN players, NEW request,
           Change(i, request)
    PROVE  Inv'
<1>1. PICK back \in Taken(hands[i], request) :
      \E drawn \in Draws(hands[i] \ back, bag \cup back, current_max) :
        /\ hands' = [hands EXCEPT ![i] = (@ \ back) \cup (drawn \ NulTiles)]
        /\ bag' = (bag \cup back) \ drawn
        /\ current_max' = current_max - Cardinality(drawn)
    BY DEF Change
<1>2. PICK drawn \in Draws(hands[i] \ back, bag \cup back, current_max) :
        /\ hands' = [hands EXCEPT ![i] = (@ \ back) \cup (drawn \ NulTiles)]
        /\ bag' = (bag \cup back) \ drawn
        /\ current_max' = current_max - Cardinality(drawn)
    BY <1>1
<1>3. back \in SUBSET hands[i] /\ back \in SUBSET Tiles
    BY SeatFacts DEF Taken
<1>4. bag \in SUBSET Tiles /\ bag \cup back \in SUBSET Tiles
    BY <1>3 DEF Inv, TypeOK
<1>5. current_max =< Cardinality(bag \cup back)
    <2>1. current_max =< Cardinality(bag) /\ current_max \in Nat
        BY DEF Inv, TypeOK, BagInv, DrawStaysInBag
    <2>2. Cardinality(bag) \in Nat /\ Cardinality(bag \cup back) \in Nat
        BY <1>4, TileSetsFinite
    <2>3. Cardinality(bag) =< Cardinality(bag \cup back)
        BY <1>3, <1>4, BagGrows
    <2> QED  BY <2>1, <2>2, <2>3
<1>6. scores' \in [DOMAIN players -> Nat] /\ board' \in Boards
    BY DEF Change, Inv, TypeOK
<1>7. EndTurn /\ players' = players /\ oob' = oob
    BY DEF Change
<1> QED  BY <1>2, <1>3, <1>4, <1>5, <1>6, <1>7, RefillInv

LEMMA ChangeRefusedInv ==
    ASSUME Inv, NEW i \in DOMAIN players, NEW request,
           ChangeRefused(i, request)
    PROVE  Inv'
<1>1. PICK back \in SUBSET hands[i] :
        /\ hands' = [hands EXCEPT ![i] = @ \ back]
        /\ bag' = bag \cup back
    BY DEF ChangeRefused, Taken
<1>2. UNCHANGED <<players, scores, current_player, current_max, board,
                  new_tiles, score, oob>>
    BY DEF ChangeRefused, pendingVars
<1>3. back \in SUBSET Tiles /\ bag \in SUBSET Tiles
    BY SeatFacts DEF Inv, TypeOK
<1>4. hands \in [DOMAIN players -> SUBSET (Tiles \ NulTiles)]
    BY DEF Inv, TypeOK
<1>5. TypeOK'
    <2>1. hands' \in [DOMAIN players' -> SUBSET (Tiles \ NulTiles)]
        BY <1>1, <1>2, <1>4
    <2> QED  BY <1>1, <1>2, <1>3, <2>1 DEF Inv, TypeOK
<1>6. DrawStaysInBag'
    <2>1. current_max =< Cardinality(bag) /\ current_max \in Nat
        BY DEF Inv, TypeOK, BagInv, DrawStaysInBag
    <2>2. Cardinality(bag) \in Nat /\ Cardinality(bag \cup back) \in Nat
        BY <1>3, TileSetsFinite
    <2> QED  BY <1>1, <1>2, <1>3, <2>1, <2>2, BagGrows DEF DrawStaysInBag
<1>7. HandsAreBounded'
    <2> SUFFICES ASSUME NEW k \in DOMAIN hands'
                 PROVE  Cardinality(hands'[k]) =< TilesMax
        BY DEF HandsAreBounded
    <2>1. hands[k] \in SUBSET Tiles /\ Cardinality(hands[k]) =< TilesMax
        BY <1>1, SeatFacts
    <2>2. hands'[k] = hands[k] \/ hands'[k] = hands[k] \ back
        BY <1>1, <1>4
    <2>3. Cardinality(hands[k] \ (back \cap hands[k])) =< TilesMax
        BY <2>1, HandShrinks
    <2>4. hands[k] \ (back \cap hands[k]) = hands[k] \ back
        OBVIOUS
    <2> QED  BY <2>1, <2>2, <2>3, <2>4
<1> QED  BY <1>5, <1>6, <1>7 DEF Inv, BagInv

\* Every step of the engine preserves the invariant.
LEMMA NextInv == Inv /\ [Next]_vars => Inv'
<1> SUFFICES ASSUME Inv, [Next]_vars
             PROVE  Inv'
    OBVIOUS
<1>1. CASE \E ps \in Rosters : SetPlayers(ps)
    BY <1>1, SetPlayersInv
<1>2. CASE OutOfBounds
    <2>1. TypeOK'
        BY <1>2 DEF OutOfBounds, Inv, TypeOK, tableVars, pendingVars
    <2>2. BagInv'
        BY <1>2 DEF OutOfBounds, Inv, BagInv, DrawStaysInBag, HandsAreBounded, tableVars
    <2> QED  BY <2>1, <2>2 DEF Inv
<1>3. CASE players # <<>> /\ \E p \in Placements : TryPlaceTiles(p)
    BY <1>3, TryPlaceTilesInv
<1>4. CASE players # <<>> /\ SubmitWord
    BY <1>4, SubmitWordInv
<1>5. CASE players # <<>> /\ Pass
    BY <1>5, PassInv
<1>6. CASE /\ players # <<>>
           /\ \E i \in DOMAIN players, request \in Requests : Change(i, request)
    BY <1>6, ChangeInv
<1>7. CASE \E i \in DOMAIN players, request \in Requests : ChangeRefused(i, request)
    BY <1>7, ChangeRefusedInv
<1>8. CASE UNCHANGED vars
    <2>1. TypeOK'
        BY <1>8 DEF vars, Inv, TypeOK
    <2>2. BagInv'
        BY <1>8 DEF vars, Inv, BagInv, DrawStaysInBag, HandsAreBounded
    <2> QED  BY <2>1, <2>2 DEF Inv
<1> QED
    BY <1>1, <1>2, <1>3, <1>4, <1>5, <1>6, <1>7, <1>8
    DEF Next, Move, SetPlayersOutOfBounds, SubmitWordOutOfBounds, ChangeOutOfBounds

THEOREM Invariance == Spec => []Inv
<1> QED  BY InitInv, NextInv, PTL DEF Spec

\* Every variable of the engine keeps its type; in particular the counter of
\* the randomizer and the points never become negative and a seat is to move.
THEOREM TypeCorrect == Spec => []TypeOK
<1>1. Inv => TypeOK
    BY DEF Inv
<1> QED  BY <1>1, Invariance, PTL

\* The index DrawTile_ computes from a counter above zero is one of the bag,
\* for every bag and every sequence of draws and exchanges.
THEOREM DrawsStayInBag == Spec => []DrawStaysInBag
<1>1. Inv => DrawStaysInBag
    BY DEF Inv, BagInv
<1> QED  BY <1>1, Invariance, PTL

\* No sequence of operations leaves a hand with more than TilesMax tiles.
THEOREM HandsStayBounded == Spec => []HandsAreBounded
<1>1. Inv => HandsAreBounded
    BY DEF Inv, BagInv
<1> QED  BY <1>1, Invariance, PTL

-----------------------------------------------------------------------------
(***************************************************************************)
(* Pending placements.  A placement is checked in one operation and put on *)
(* the board in a later one; what was checked is still true by then        *)
(* because every operation that touches the board also drops the placement.*)
(***************************************************************************)

LEMMA InitPending == Init => PendingIsLegal
BY DEF Init, PendingIsLegal

LEMMA NextPending == Inv /\ PendingIsLegal /\ [Next]_vars => PendingIsLegal'
<1> SUFFICES ASSUME Inv, PendingIsLegal, [Next]_vars
             PROVE  PendingIsLegal'
    OBVIOUS
<1>1. CASE UNCHANGED <<board, new_tiles, score>>
    BY <1>1 DEF PendingIsLegal
<1>2. CASE EndTurn
    BY <1>2 DEF EndTurn, PendingIsLegal
<1>3. ASSUME NEW p \in Placements, TryPlaceTiles(p)
      PROVE  PendingIsLegal'
    <2>1. CASE WellFormed(p) /\ Legal(board, p)
        <3>1. new_tiles' = p /\ score' = PlacementScore(board, p) /\ board' = board
            BY <1>3, <2>1 DEF TryPlaceTiles, tableVars
        <3> QED  BY <2>1, <3>1 DEF PendingIsLegal
    <2>2. CASE ~(WellFormed(p) /\ Legal(board, p))
        BY <1>3, <2>2 DEF TryPlaceTiles, PendingIsLegal
    <2> QED  BY <2>1, <2>2
<1>4. CASE Next
    <2>1. CASE \E ps \in Rosters : SetPlayers(ps)
        BY <1>1, <2>1 DEF SetPlayers, pendingVars
    <2>2. CASE OutOfBounds
        BY <1>1, <2>2 DEF OutOfBounds, pendingVars, tableVars
    <2>3. CASE \E p \in Placements : TryPlaceTiles(p)
        BY <1>3, <2>3
    <2>4. CASE SubmitWord \/ Pass
        BY <1>2, <2>4 DEF SubmitWord, Pass
    <2>5. CASE \E i \in DOMAIN players, request \in Requests : Change(i, request)
        BY <1>2, <2>5 DEF Change
    <2>6. CASE \E i \in DOMAIN players, request \in Requests : ChangeRefused(i, request)
        BY <1>1, <2>6 DEF ChangeRefused, pendingVars
    <2> QED
        BY <1>4, <2>1, <2>2, <2>3, <2>4, <2>5, <2>6
        DEF Next, Move, SetPlayersOutOfBounds, SubmitWordOutOfBounds, ChangeOutOfBounds
<1>5. CASE UNCHANGED vars
    BY <1>1, <1>5 DEF vars
<1> QED  BY <1>4, <1>5

\* A placement SubmitWord would accept is legal on the board as it is now, and
\* is worth there what it was worth when it was checked.
THEOREM PendingStaysLegal == Spec => []PendingIsLegal
BY InitPending, NextPending, Invariance, PTL DEF Spec

-----------------------------------------------------------------------------
(***************************************************************************)
(* Steps.  Only SubmitWord changes the board or the points of a seat.      *)
(***************************************************************************)

\* What a submission does to the board and the points.
LEMMA SubmitWordFacts ==
    ASSUME Inv, PendingIsLegal, players # <<>>, SubmitWord
    PROVE  /\ board' = With(board, new_tiles) /\ board' \in Boards
           /\ \E c \in Cells : board[c] = NoLetter /\ board'[c] # NoLetter
           /\ \A c \in Cells : board[c] # NoLetter => board'[c] = board[c]
           /\ score \in Nat /\ score = PlacementScore(board, new_tiles)
           /\ Mover \in DOMAIN scores /\ scores \in [DOMAIN players -> Nat]
           /\ scores' = [scores EXCEPT ![Mover] = @ + score]
<1>1. /\ board' = With(board, new_tiles)
      /\ scores' = [scores EXCEPT ![Mover] = @ + score]
      /\ score # -1
    BY DEF SubmitWord
<1>2. /\ board \in Boards /\ new_tiles \in PlacementType
      /\ score \in Nat /\ scores \in [DOMAIN players -> Nat]
    BY <1>1 DEF Inv, TypeOK
<1>3. /\ WellFormed(new_tiles) /\ Legal(board, new_tiles)
      /\ score = PlacementScore(board, new_tiles)
    BY <1>1 DEF PendingIsLegal
<1>4. board' \in Boards
    BY <1>1, <1>2, WithIsBoard
<1>5. \E c \in Cells : board[c] = NoLetter /\ board'[c] # NoLetter
    BY <1>1, <1>2, <1>3, WithFillsACell
<1>6. \A c \in Cells : board[c] # NoLetter => board'[c] = board[c]
    BY <1>1, <1>2, <1>3, WithKeepsLetters
<1>7. Mover \in DOMAIN scores
    BY SeatFacts
<1> QED  BY <1>1, <1>2, <1>3, <1>4, <1>5, <1>6, <1>7

\* A step is a submission, or adds seats, or leaves seats, board and points alone.
LEMMA StepKinds ==
    ASSUME Inv, [Next]_vars
    PROVE  \/ players # <<>> /\ SubmitWord
           \/ \E ps \in Rosters : SetPlayers(ps)
           \/ players # <<>> /\ EndTurn /\ UNCHANGED <<players, board, scores>>
           \/ UNCHANGED <<players, board, scores, current_player>>
<1>1. CASE UNCHANGED vars
    BY <1>1 DEF vars
<1>2. CASE OutOfBounds
    BY <1>2 DEF OutOfBounds, tableVars
<1>3. CASE \E p \in Placements : TryPlaceTiles(p)
    BY <1>3 DEF TryPlaceTiles, tableVars
<1>4. CASE players # <<>> /\ Pass
    BY <1>4 DEF Pass, tableVars
<1>5. CASE /\ players # <<>>
           /\ \E i \in DOMAIN players, request \in Requests : Change(i, request)
    BY <1>5 DEF Change
<1>6. CASE \E i \in DOMAIN players, request \in Requests : ChangeRefused(i, request)
    BY <1>6 DEF ChangeRefused
<1> QED
    BY <1>1, <1>2, <1>3, <1>4, <1>5, <1>6
    DEF Next, Move, SetPlayersOutOfBounds, SubmitWordOutOfBounds, ChangeOutOfBounds

\* A letter on the board stays where it is.
LEMMA StepKeepsBoard ==
    ASSUME Inv, PendingIsLegal, [Next]_vars
    PROVE  \A c \in Cells : board[c] # NoLetter => board'[c] = board[c]
<1>1. CASE players # <<>> /\ SubmitWord
    BY <1>1, SubmitWordFacts
<1>2. CASE \E ps \in Rosters : SetPlayers(ps)
    BY <1>2 DEF SetPlayers
<1>3. CASE board' = board
    BY <1>3
<1> QED  BY <1>1, <1>2, <1>3, StepKinds

\* No step, on any board and with any sequence of placements pending, refused
\* or passed over before it, changes a letter that lies on the board.
THEOREM BoardStaysPermanent == Spec => BoardIsPermanent
<1> DEFINE Permanent == \A c \in Cells : board[c] # NoLetter => board'[c] = board[c]
<1>1. Inv /\ PendingIsLegal /\ [Next]_vars => [Permanent]_vars
    BY StepKeepsBoard
<1> QED  BY <1>1, Invariance, PendingStaysLegal, PTL DEF Spec, BoardIsPermanent

\* Points are earned by the player to move only, for tiles the same step puts
\* on the board, as many as they are worth there.
THEOREM PointsStayForTiles == Spec => PointsAreForTiles
<1> DEFINE Earned ==
        \A i \in DOMAIN scores :
            scores'[i] # scores[i] =>
                /\ i = Mover
                /\ board' = With(board, new_tiles)
                /\ board' # board
                /\ scores'[i] = scores[i] + PlacementScore(board, new_tiles)
<1>1. Inv /\ PendingIsLegal /\ [Next]_vars => [Earned]_vars
    <2> SUFFICES ASSUME Inv, PendingIsLegal, [Next]_vars
                 PROVE  Earned
        OBVIOUS
    <2>1. CASE players # <<>> /\ SubmitWord
        <3>1. /\ board' = With(board, new_tiles) /\ board' # board
              /\ score = PlacementScore(board, new_tiles)
              /\ scores' = [scores EXCEPT ![Mover] = @ + score]
              /\ scores \in [DOMAIN players -> Nat]
            BY <2>1, SubmitWordFacts
        <3> QED  BY <3>1
    <2>2. CASE \E ps \in Rosters : SetPlayers(ps)
        <3>1. PICK ps \in Rosters : SetPlayers(ps)
            BY <2>2
        <3>2. scores' = [i \in DOMAIN ps |-> ScoreOf(i)]
            BY <3>1 DEF SetPlayers
        <3>3. \A i \in DOMAIN scores : i \in DOMAIN ps
            BY <3>1, SeatFacts DEF SetPlayers
        <3> QED  BY <3>2, <3>3 DEF ScoreOf
    <2>3. CASE scores' = scores
        BY <2>3
    <2> QED  BY <2>1, <2>2, <2>3, StepKinds
<1> QED  BY <1>1, Invariance, PendingStaysLegal, PTL DEF Spec, PointsAreForTiles

-----------------------------------------------------------------------------
(***************************************************************************)
(* Tiles.  What is drawn leaves the bag for one hand, and what a hand puts *)
(* back leaves the hand.                                                   *)
(***************************************************************************)

\* A hand that gives `gone` away and is filled from `from`, which has no tiles
\* but those of the bag and the ones given back.
LEMMA RefillApart ==
    ASSUME Inv, NoTileIsTwice, NEW i \in DOMAIN players, NEW gone \in SUBSET hands[i],
           NEW from \in SUBSET (bag \cup gone), NEW drawn \in SUBSET from,
           hands' = [hands EXCEPT ![i] = (@ \ gone) \cup (drawn \ NulTiles)],
           bag' = from \ drawn
    PROVE  NoTileIsTwice'
<1>1. DOMAIN hands = DOMAIN players
    BY SeatFacts
<1>2. /\ DOMAIN hands' = DOMAIN hands
      /\ hands'[i] = (hands[i] \ gone) \cup (drawn \ NulTiles)
      /\ \A j \in DOMAIN hands \ {i} : hands'[j] = hands[j]
    BY <1>1
<1>3. /\ hands[i] \cap bag = {}
      /\ \A j \in DOMAIN hands \ {i} :
            hands[j] \cap bag = {} /\ hands[j] \cap hands[i] = {}
    BY <1>1 DEF NoTileIsTwice
<1>4. hands'[i] \cap bag' = {}
    BY <1>2, <1>3
<1>5. \A j \in DOMAIN hands \ {i} :
        hands'[j] \cap bag' = {} /\ hands'[j] \cap hands'[i] = {}
    BY <1>2, <1>3
<1>6. \A j, k \in DOMAIN hands \ {i} : j # k => hands'[j] \cap hands'[k] = {}
    BY <1>2 DEF NoTileIsTwice
<1> QED  BY <1>2, <1>4, <1>5, <1>6 DEF NoTileIsTwice

\* Each player of a start draws from what the players before him have left.
LEMMA SetPlayersApart ==
    ASSUME Inv, NoTileIsTwice, NEW ps \in Rosters, SetPlayers(ps)
    PROVE  NoTileIsTwice'
<1>1. PICK dealt \in [DOMAIN ps -> SUBSET bag] :
        /\ Deal(dealt, Len(ps))
        /\ hands' = [i \in DOMAIN ps |-> HandOf(i) \cup (dealt[i] \ NulTiles)]
        /\ bag' = bag \ UNION {dealt[i] : i \in DOMAIN ps}
    BY DEF SetPlayers
<1>2. DOMAIN ps = 1 .. Len(ps) /\ Len(ps) \in Nat
    BY GameAssumption DEF GameAssumption
<1>3. \A i \in DOMAIN ps : HandOf(i) \cap bag = {}
    BY DEF HandOf, NoTileIsTwice
<1>4. \A i, j \in DOMAIN ps : i # j => HandOf(i) \cap HandOf(j) = {}
    BY DEF HandOf, NoTileIsTwice
<1>5. \A i, j \in DOMAIN ps : i < j => dealt[i] \cap dealt[j] = {}
    <2> SUFFICES ASSUME NEW i \in DOMAIN ps, NEW j \in DOMAIN ps, i < j
                 PROVE  dealt[i] \cap dealt[j] = {}
        OBVIOUS
    <2>1. dealt[i] \subseteq DealtBefore(dealt, j)
        <3>1. i \in 1 .. j - 1
            BY <1>2
        <3> QED  BY <3>1 DEF DealtBefore
    <2>2. dealt[j] \subseteq bag \ DealtBefore(dealt, j)
        BY <1>1, <1>2 DEF Deal, Draws
    <2> QED  BY <2>1, <2>2
<1>6. \A i, j \in DOMAIN ps : i # j => dealt[i] \cap dealt[j] = {}
    <2>1. \A i, j \in DOMAIN ps : i # j => i < j \/ j < i
        BY <1>2
    <2> QED  BY <1>5, <2>1
<1>7. \A i \in DOMAIN ps : dealt[i] \subseteq bag
    OBVIOUS
<1>8. \A i \in DOMAIN ps : hands'[i] \cap bag' = {}
    BY <1>1, <1>3
<1>9. \A i, j \in DOMAIN ps : i # j => hands'[i] \cap hands'[j] = {}
    BY <1>1, <1>3, <1>4, <1>6, <1>7
<1> QED  BY <1>1, <1>8, <1>9 DEF NoTileIsTwice

\* Every step of the engine keeps tiles apart.
LEMMA NextApart ==
    ASSUME Inv, NoTileIsTwice, [Next]_vars
    PROVE  NoTileIsTwice'
<1>1. CASE UNCHANGED <<hands, bag>>
    BY <1>1 DEF NoTileIsTwice
<1>2. CASE \E ps \in Rosters : SetPlayers(ps)
    BY <1>2, SetPlayersApart
<1>3. CASE players # <<>> /\ SubmitWord
    <2>1. PICK gone \in Taken(hands[Mover], new_tiles.tiles) :
          \E drawn \in Draws(hands[Mover] \ gone, bag, current_max) :
            /\ hands' = [hands EXCEPT ![Mover] = (@ \ gone) \cup (drawn \ NulTiles)]
            /\ bag' = bag \ drawn
        BY <1>3 DEF SubmitWord
    <2>2. PICK drawn \in Draws(hands[Mover] \ gone, bag, current_max) :
            /\ hands' = [hands EXCEPT ![Mover] = (@ \ gone) \cup (drawn \ NulTiles)]
            /\ bag' = bag \ drawn
        BY <2>1
    <2>3. /\ gone \in SUBSET hands[Mover] /\ drawn \in SUBSET bag
          /\ bag \in SUBSET (bag \cup gone)
        BY DEF Taken, Draws
    <2>4. Mover \in DOMAIN players
        BY <1>3, SeatFacts
    <2> QED  BY <2>2, <2>3, <2>4, RefillApart
<1>4. ASSUME NEW i \in DOMAIN players, NEW request \in Requests, Change(i, request)
      PROVE  NoTileIsTwice'
    <2>1. PICK back \in Taken(hands[i], request) :
          \E drawn \in Draws(hands[i] \ back, bag \cup back, current_max) :
            /\ hands' = [hands EXCEPT ![i] = (@ \ back) \cup (drawn \ NulTiles)]
            /\ bag' = (bag \cup back) \ drawn
        BY <1>4 DEF Change
    <2>2. PICK drawn \in Draws(hands[i] \ back, bag \cup back, current_max) :
            /\ hands' = [hands EXCEPT ![i] = (@ \ back) \cup (drawn \ NulTiles)]
            /\ bag' = (bag \cup back) \ drawn
        BY <2>1
    <2>3. /\ back \in SUBSET hands[i] /\ drawn \in SUBSET (bag \cup back)
          /\ bag \cup back \in SUBSET (bag \cup back)
        BY DEF Taken, Draws
    <2> QED  BY <2>2, <2>3, RefillApart
<1>5. ASSUME NEW i \in DOMAIN players, NEW request \in Requests, ChangeRefused(i, request)
      PROVE  NoTileIsTwice'
    <2>1. PICK back \in SUBSET hands[i] :
            /\ hands' = [hands EXCEPT ![i] = @ \ back]
            /\ bag' = bag \cup back
        BY <1>5 DEF ChangeRefused, Taken
    <2>2. (hands[i] \ back) \cup ({} \ NulTiles) = hands[i] \ back /\ bag' = bag' \ {}
        OBVIOUS
    <2>3. /\ hands' = [hands EXCEPT ![i] = (@ \ back) \cup ({} \ NulTiles)]
          /\ bag' = (bag \cup back) \ {}
        BY <2>1, <2>2
    <2>4. /\ bag \cup back \in SUBSET (bag \cup back)
          /\ {} \in SUBSET (bag \cup back)
        OBVIOUS
    <2> QED  BY <2>3, <2>4, RefillApart
<1>6. CASE OutOfBounds \/ (\E p \in Placements : TryPlaceTiles(p)) \/ Pass
    BY <1>1, <1>6 DEF OutOfBounds, TryPlaceTiles, Pass, tableVars
<1>7. CASE UNCHANGED vars
    BY <1>1, <1>7 DEF vars
<1> QED
    BY <1>2, <1>3, <1>4, <1>5, <1>6, <1>7
    DEF Next, Move, SetPlayersOutOfBounds, SubmitWordOutOfBounds, ChangeOutOfBounds

\* No tile is ever in two hands, or in a hand and in the bag, however often players
\* are added and whatever is exchanged, refused or submitted.
THEOREM TilesStayApart == Spec => []NoTileIsTwice
<1>1. Init => NoTileIsTwice
    BY DEF Init, NoTileIsTwice
<1>2. Inv /\ NoTileIsTwice /\ [Next]_vars => NoTileIsTwice'
    BY NextApart
<1> QED  BY <1>1, <1>2, Invariance, PTL DEF Spec

-----------------------------------------------------------------------------
(***************************************************************************)
(* Draws.  DrawsKeepContract is false of the code, as the run engine_draws *)
(* shows.  Two things break it, exchanges and NUL slots, and these theorems*)
(* say that nothing else does: every draw takes a tile and counts one, so  *)
(* without exchanges the counter is the size of the bag.                   *)
(***************************************************************************)
CounterIsBagSize == current_max = Cardinality(bag) /\ ~oob

\* Taking tiles from a bag and counting them keeps the two in step.
LEMMA CountedDraw ==
    ASSUME Inv, CounterIsBagSize, NEW drawn \in SUBSET bag
    PROVE  current_max - Cardinality(drawn) = Cardinality(bag \ drawn)
<1>1. bag \in SUBSET Tiles /\ drawn \in SUBSET Tiles
    BY DEF Inv, TypeOK
<1>2. IsFiniteSet(bag) /\ IsFiniteSet(drawn)
    BY <1>1, TileSetsFinite
<1>3. bag \cap drawn = drawn
    OBVIOUS
<1>4. Cardinality(bag \ drawn) = Cardinality(bag) - Cardinality(drawn)
    BY <1>2, <1>3, FS_Difference
<1> QED  BY <1>4 DEF CounterIsBagSize

\* A counter that is the size of the bag does not run out before the bag does.
LEMMA NoDrawOutside ==
    ASSUME Inv, CounterIsBagSize, NEW before \in SUBSET bag, NEW hand
    PROVE  ~RunsOut(hand, bag \ before, current_max - Cardinality(before))
<1>1. current_max - Cardinality(before) = Cardinality(bag \ before)
    BY CountedDraw
<1>2. Cardinality(bag \ before) \in Nat
    BY TileSetsFinite DEF Inv, TypeOK
<1> QED  BY <1>1, <1>2 DEF RunsOut

\* Without exchanges no step makes the counter and the bag drift apart.
LEMMA NextCounter ==
    ASSUME Requests = {}, Inv, CounterIsBagSize, [Next]_vars
    PROVE  CounterIsBagSize'
<1>1. CASE UNCHANGED <<bag, current_max, oob>>
    BY <1>1 DEF CounterIsBagSize
<1>2. ASSUME NEW ps \in Rosters, SetPlayers(ps)
      PROVE  CounterIsBagSize'
    <2>1. PICK dealt \in [DOMAIN ps -> SUBSET bag] :
            /\ bag' = bag \ UNION {dealt[i] : i \in DOMAIN ps}
            /\ current_max' = current_max - Cardinality(UNION {dealt[i] : i \in DOMAIN ps})
        BY <1>2 DEF SetPlayers
    <2>2. UNION {dealt[i] : i \in DOMAIN ps} \in SUBSET bag
        OBVIOUS
    <2>3. oob' = oob
        BY <1>2 DEF SetPlayers
    <2> QED  BY <2>1, <2>2, <2>3, CountedDraw DEF CounterIsBagSize
<1>3. ASSUME NEW ps \in Rosters, SetPlayersOutOfBounds(ps)
      PROVE  FALSE
    <2>1. PICK k \in DOMAIN ps : \E dealt \in [1 .. k - 1 -> SUBSET bag] :
            RunsOut(HandOf(k), bag \ DealtBefore(dealt, k),
                    current_max - Cardinality(DealtBefore(dealt, k)))
        BY <1>3 DEF SetPlayersOutOfBounds
    <2>2. PICK dealt \in [1 .. k - 1 -> SUBSET bag] :
            RunsOut(HandOf(k), bag \ DealtBefore(dealt, k),
                    current_max - Cardinality(DealtBefore(dealt, k)))
        BY <2>1
    <2>3. DealtBefore(dealt, k) \in SUBSET bag
        BY DEF DealtBefore
    <2> QED  BY <2>2, <2>3, NoDrawOutside
<1>4. CASE SubmitWord
    <2>1. PICK gone \in Taken(hands[Mover], new_tiles.tiles) :
            \E drawn \in Draws(hands[Mover] \ gone, bag, current_max) :
                /\ bag' = bag \ drawn
                /\ current_max' = current_max - Cardinality(drawn)
        BY <1>4 DEF SubmitWord
    <2>2. PICK drawn \in Draws(hands[Mover] \ gone, bag, current_max) :
                /\ bag' = bag \ drawn
                /\ current_max' = current_max - Cardinality(drawn)
        BY <2>1
    <2>3. drawn \in SUBSET bag
        BY DEF Draws
    <2>4. oob' = oob
        BY <1>4 DEF SubmitWord
    <2> QED  BY <2>2, <2>3, <2>4, CountedDraw DEF CounterIsBagSize
<1>5. CASE SubmitWordOutOfBounds
    <2>1. PICK gone \in Taken(hands[Mover], new_tiles.tiles) :
            RunsOut(hands[Mover] \ gone, bag, current_max)
        BY <1>5 DEF SubmitWordOutOfBounds
    <2>2. /\ {} \in SUBSET bag /\ bag \ {} = bag
          /\ Cardinality({}) = 0 /\ current_max - 0 = current_max
        BY FS_EmptySet DEF Inv, TypeOK
    <2>3. ~RunsOut(hands[Mover] \ gone, bag \ {}, current_max - Cardinality({}))
        BY <2>2, NoDrawOutside
    <2> QED  BY <2>1, <2>2, <2>3
<1>6. CASE (\E p \in Placements : TryPlaceTiles(p)) \/ Pass
    BY <1>1, <1>6 DEF TryPlaceTiles, Pass, tableVars
<1>7. CASE UNCHANGED vars
    BY <1>1, <1>7 DEF vars
<1> QED  BY <1>2, <1>3, <1>4, <1>5, <1>6, <1>7 DEF Next, Move

\* In a game whose players make no exchanges, the counter of the randomizer is the
\* size of the bag, and no draw goes outside the bag: not at a start or a late
\* start, and not when the last tiles are drawn, NUL slots or not.
THEOREM DrawsStayInsideWithoutExchanges ==
    ASSUME Requests = {}
    PROVE  Spec => []CounterIsBagSize
<1>1. Init => CounterIsBagSize
    BY DEF Init, CounterIsBagSize
<1>2. Inv /\ CounterIsBagSize /\ [Next]_vars => CounterIsBagSize'
    BY NextCounter
<1> QED  BY <1>1, <1>2, Invariance, PTL DEF Spec

\* What a submission leaves in the hand: as much as fits, unless the bag is empty
\* or a NUL slot cut the drawing short.
LEMMA SubmissionFillsHand ==
    ASSUME Inv, NoTileIsTwice, players # <<>>, SubmitWord
    PROVE  \/ Cardinality(hands'[Mover]) = TilesMax
           \/ bag' = {}
           \/ (bag \ bag') \cap NulTiles # {}
<1>1. PICK gone \in Taken(hands[Mover], new_tiles.tiles) :
        \E drawn \in Draws(hands[Mover] \ gone, bag, current_max) :
            /\ hands' = [hands EXCEPT ![Mover] = (@ \ gone) \cup (drawn \ NulTiles)]
            /\ bag' = bag \ drawn
    BY DEF SubmitWord
<1>2. PICK drawn \in Draws(hands[Mover] \ gone, bag, current_max) :
        /\ hands' = [hands EXCEPT ![Mover] = (@ \ gone) \cup (drawn \ NulTiles)]
        /\ bag' = bag \ drawn
    BY <1>1
<1> DEFINE rest == hands[Mover] \ gone
<1>3. drawn \in SUBSET bag
    BY DEF Draws
<1>4. \/ /\ Cardinality(drawn \ NulTiles) = TilesMax - Cardinality(rest)
         /\ drawn \cap NulTiles = {}
      \/ drawn = bag
      \/ drawn \cap NulTiles # {}
    <2>1. \/ /\ Cardinality(drawn \ NulTiles) = TilesMax - Cardinality(rest)
             /\ drawn \cap NulTiles = {}
          \/ drawn = bag
          \/ Cardinality(drawn \cap NulTiles) = 1
        BY DEF Draws
    <2> DEFINE met == drawn \cap NulTiles
    <2>2. Cardinality(met) = 1 => met # {}
        <3>1. Cardinality({}) = 0
            BY FS_EmptySet
        <3>2. met = {} => Cardinality(met) = 0
            BY <3>1, Zenon
        <3> HIDE DEF met
        <3> QED  BY <3>2
    <2> HIDE DEF rest
    <2> QED  BY <2>1, <2>2, Zenon
<1>5. CASE drawn = bag
    BY <1>2, <1>5
<1>6. CASE drawn \cap NulTiles # {}
    <2>1. bag \ bag' = drawn
        BY <1>2, <1>3
    <2> QED  BY <1>6, <2>1
<1>7. CASE /\ Cardinality(drawn \ NulTiles) = TilesMax - Cardinality(rest)
           /\ drawn \cap NulTiles = {}
    <2>1. Mover \in DOMAIN hands /\ hands[Mover] \in SUBSET Tiles
        BY SeatFacts
    <2>2. hands'[Mover] = rest \cup drawn /\ drawn \ NulTiles = drawn
        BY <1>2, <1>7, <2>1
    <2>3. rest \cap drawn = {}
        BY <1>3, <2>1 DEF NoTileIsTwice
    <2>4. rest \in SUBSET Tiles /\ drawn \in SUBSET Tiles
        BY <1>3, <2>1 DEF Inv, TypeOK
    <2> HIDE DEF rest
    <2>5. /\ IsFiniteSet(rest) /\ IsFiniteSet(drawn)
          /\ Cardinality(rest) \in Nat /\ Cardinality(drawn) \in Nat
        BY <2>4, TileSetsFinite
    <2>6. Cardinality(rest \cup drawn) =
              Cardinality(rest) + Cardinality(drawn) - Cardinality(rest \cap drawn)
        BY <2>5, FS_Union
    <2>7. Cardinality(rest \cap drawn) = 0
        BY <2>3, FS_EmptySet
    <2>8. TilesMax \in Nat
        BY GameAssumption DEF GameAssumption
    <2>9. Cardinality(drawn) = TilesMax - Cardinality(rest)
        BY <1>7, <2>2
    <2>10. Cardinality(rest \cup drawn) = TilesMax
        BY <2>5, <2>6, <2>7, <2>8, <2>9
    <2> QED  BY <2>2, <2>10
<1> QED  BY <1>4, <1>5, <1>6, <1>7

\* Two things break the contract of DrawTile_: exchanges, which let the counter run
\* out, and NUL slots, which end the drawing early.  Without exchanges no step goes
\* outside the bag, and who submits has a full hand after it, or the bag is empty,
\* or his draw met a NUL slot.
THEOREM DrawsKeptWithoutExchanges ==
    ASSUME Requests = {}
    PROVE  Spec => [][/\ ~oob'
                      /\ board' # board =>
                            \/ Cardinality(hands'[Mover]) = TilesMax
                            \/ bag' = {}
                            \/ (bag \ bag') \cap NulTiles # {}]_vars
<1> DEFINE Kept == /\ ~oob'
                   /\ board' # board =>
                         \/ Cardinality(hands'[Mover]) = TilesMax
                         \/ bag' = {}
                         \/ (bag \ bag') \cap NulTiles # {}
<1>1. Inv /\ CounterIsBagSize /\ NoTileIsTwice /\ [Next]_vars => [Kept]_vars
    <2> SUFFICES ASSUME Inv, CounterIsBagSize, NoTileIsTwice, [Next]_vars
                 PROVE  Kept
        OBVIOUS
    <2>1. ~oob'
        BY NextCounter DEF CounterIsBagSize
    <2>2. CASE players # <<>> /\ SubmitWord
        BY <2>1, <2>2, SubmissionFillsHand
    <2>3. CASE \E ps \in Rosters : SetPlayers(ps)
        BY <2>1, <2>3 DEF SetPlayers
    <2>4. CASE board' = board
        BY <2>1, <2>4
    <2> QED  BY <2>2, <2>3, <2>4, StepKinds
<1> QED  BY <1>1, Invariance, TilesStayApart, DrawsStayInsideWithoutExchanges, PTL DEF Spec

\* In particular the contract holds of a game without exchanges whose bag has no
\* NUL slot.
COROLLARY ContractKept ==
    ASSUME Requests = {}, NulTiles = {}
    PROVE  Spec => DrawsKeepContract
<1> DEFINE Kept == /\ ~oob'
                   /\ board' # board =>
                         \/ Cardinality(hands'[Mover]) = TilesMax
                         \/ bag' = {}
                         \/ (bag \ bag') \cap NulTiles # {}
           Contract == /\ ~oob'
                       /\ board' # board =>
                            Cardinality(hands'[Mover]) = TilesMax \/ bag' = {}
<1>1. [Kept]_vars => [Contract]_vars
    OBVIOUS
<1> QED  BY <1>1, DrawsKeptWithoutExchanges, PTL DEF DrawsKeepContract

-----------------------------------------------------------------------------
(***************************************************************************)
(* Refinement.  With seats, points, turn and board read off the engine's   *)
(* state, SetPlayers is Join, SubmitWord is Play, Pass and Change are Skip,*)
(* and TryPlaceTiles, a refused Change and a draw outside the bag are      *)
(* stuttering steps.                                                       *)
(***************************************************************************)

LEMMA SetPlayersIsJoin ==
    ASSUME Inv, NEW ps \in Rosters, SetPlayers(ps)
    PROVE  Public!Join
<1>1. /\ ps \in Seq(Users) /\ players \in Seq(Users)
      /\ DOMAIN ps = 1 .. Len(ps) /\ Len(ps) \in Nat
      /\ DOMAIN players = 1 .. Len(players) /\ Len(players) \in Nat
    BY GameAssumption DEF GameAssumption, Inv, TypeOK
<1>2. /\ players' = ps
      /\ scores' = [i \in DOMAIN ps |-> ScoreOf(i)]
      /\ \A i \in DOMAIN players : i \in DOMAIN ps /\ ps[i] = players[i]
      /\ UNCHANGED <<current_player, board>>
    BY DEF SetPlayers
<1>3. Len(ps) >= Len(players)
    <2>1. CASE Len(players) = 0
        BY <1>1, <2>1
    <2>2. CASE Len(players) > 0
        <3>1. Len(players) \in DOMAIN ps
            BY <1>1, <1>2, <2>2
        <3> QED  BY <1>1, <3>1
    <2> QED  BY <1>1, <2>1, <2>2
<1>4. DOMAIN scores = DOMAIN players
    BY SeatFacts
<1>5. \A i \in DOMAIN ps : scores'[i] = IF i \in DOMAIN players THEN scores[i] ELSE 0
    BY <1>2, <1>4 DEF ScoreOf
<1> QED  BY <1>2, <1>3, <1>5 DEF Public!Join

LEMMA SubmitWordIsPlay ==
    ASSUME Inv, PendingIsLegal, players # <<>>, SubmitWord
    PROVE  Public!Play
<1>1. /\ board' \in Public!Boards
      /\ \E c \in Public!Cells : board[c] = NoLetter /\ board'[c] # NoLetter
      /\ \A c \in Public!Cells : board[c] # NoLetter => board'[c] = board[c]
    BY SubmitWordFacts DEF Boards, Cells, Public!Boards, Public!Cells
<1>2. Public!NextTurn
    BY DEF SubmitWord, EndTurn, Public!NextTurn
<1>3. /\ scores' = [scores EXCEPT ![Mover] = @ + score]
      /\ scores \in [DOMAIN players -> Nat] /\ score \in Nat
    BY SubmitWordFacts
<1>4. \A i \in DOMAIN scores :
        IF i = current_player + 1 THEN scores'[i] >= scores[i] ELSE scores'[i] = scores[i]
    <2> SUFFICES ASSUME NEW i \in DOMAIN scores
                 PROVE  IF i = current_player + 1 THEN scores'[i] >= scores[i]
                                                  ELSE scores'[i] = scores[i]
        OBVIOUS
    <2>1. CASE i = current_player + 1
        <3>1. scores'[i] = scores[i] + score
            BY <1>3, <2>1 DEF Mover
        <3>2. scores[i] \in Nat
            BY <1>3
        <3> QED  BY <1>3, <2>1, <3>1, <3>2
    <2>2. CASE i # current_player + 1
        BY <1>3, <2>2 DEF Mover
    <2> QED  BY <2>1, <2>2
<1>5. DOMAIN scores' = DOMAIN scores
    BY <1>3
<1> QED  BY <1>1, <1>2, <1>4, <1>5 DEF Public!Play

\* The engine implements the turn game, for every board and bag, every scoring
\* function, and every way players join, place, exchange and pass.
THEOREM EnginePlaysTurnGame == Spec => PlaysTurnGame
<1>1. Init => Public!Init
    BY DEF Init, Public!Init, EmptyBoard, Cells, Public!EmptyBoard, Public!Cells
<1>2. Inv /\ PendingIsLegal /\ [Next]_vars => [Public!Next]_(Public!vars)
    <2> SUFFICES ASSUME Inv, PendingIsLegal, [Next]_vars
                 PROVE  Public!Next \/ UNCHANGED Public!vars
        OBVIOUS
    <2>1. CASE players # <<>> /\ SubmitWord
        BY <2>1, SubmitWordIsPlay DEF Public!Next
    <2>2. CASE \E ps \in Rosters : SetPlayers(ps)
        BY <2>2, SetPlayersIsJoin DEF Public!Next
    <2>3. CASE players # <<>> /\ EndTurn /\ UNCHANGED <<players, board, scores>>
        BY <2>3 DEF EndTurn, Public!Next, Public!Skip, Public!NextTurn
    <2>4. CASE UNCHANGED <<players, board, scores, current_player>>
        BY <2>4 DEF Public!vars
    <2> QED  BY <2>1, <2>2, <2>3, <2>4, StepKinds
<1> QED  BY <1>1, <1>2, Invariance, PendingStaysLegal, PTL
         DEF Spec, PlaysTurnGame, Public!Spec
=============================================================================
