---------------------------- MODULE ScrabbleRules ----------------------------
(***************************************************************************)
(* The rules engine together with the words it looks for: ScrabbleGame     *)
(* whose PlacementScore is the PlacementScoreOf of WordFinder (a .cfg says *)
(* PlacementScore <- PlacementScoreOf).  The properties relate the board   *)
(* that builds up over a game to the dictionary given to the constructor   *)
(* as word_checker.                                                        *)
(***************************************************************************)
EXTENDS ScrabbleGame, WordFinder

\* The engine asks WordFinder.
ASSUME RulesAssumption ==
    \A b \in Boards, p \in Placements :
        WellFormed(p) /\ Legal(b, p) => PlacementScore(b, p) = PlacementScoreOf(b, p)

\* Every word that can be read on the board, along either axis, was accepted by
\* word_checker: GetNewWords_ has collected all the words each placement formed
\* (ScrabbleGame.hpp:294-310).
EveryWordInDictionary ==
    \A s \in WordsOn(board) : Spell(board, s) \in Dictionary

\* Every word a submission forms was accepted by word_checker, the words its
\* tiles extend or join included, if no empty cell separates the tiles; also on
\* a board that has other words by then.
SubmittedWordsAreInDictionary ==
    [][board' # board /\ Gapless(board, new_tiles) =>
        \A s \in FormedBy(board, new_tiles) : Spell(board', s) \in Dictionary]_vars

\* The points of a pending placement are those of the words that contain one of
\* its tiles, each counted once, when no empty cell separates the tiles.
PendingScoreIsWordTotal ==
    score # -1 /\ Gapless(board, new_tiles) =>
        score = FormedTotal(board, new_tiles)
=============================================================================
