---------------------------- MODULE Minesweeper ----------------------------
(* The game of Prj3.c: a menu, a field of numbers and mines made at random, *)
(* the squares the player has opened, and the games played and won at each *)
(* level.                                                                  *)
EXTENDS Integers, FiniteSetsExt, SequencesExt, Functions

CONSTANTS Side,         \* rows and columns of the field
          Mines,        \* mines of each level
          OtherLevel,   \* a level the menu does not offer
          MaxGames      \* bound on the games of a session

VARIABLES field,        \* numbers and mines, <<>> between two games
          temp,         \* what the player sees of it
          level_num,
          total, win,   \* games of each level, and those won
          \* what the properties are about, no variable of the code:
          lost,         \* games that ended on a mine
          picked        \* squares the player chose in this game

gameVars == <<field, temp, level_num, total, win, lost, picked>>

MINE == -1
COVERED == -2
Squares == (0 .. Side - 1) \X (0 .. Side - 1)
Levels == DOMAIN Mines
Playing == field # <<>>
MineNum(level) == IF level \in Levels THEN Mines[level] ELSE 0

\* The squares around each one row by row, itself among them, as both loops visit them.
Around ==
    LET steps == <<-1, 0, 1>>
        visit(s) == FlattenSeq([i \in 1 .. 3 |-> [j \in 1 .. 3 |-> <<s[1] + steps[i], s[2] + steps[j]>>]])
    IN [s \in Squares |-> SelectSeq(visit(s), LAMBDA n : n \in Squares)]
Count(level, counts) == IF level \in Levels THEN [counts EXCEPT ![level] = @ + 1] ELSE counts

\* Squares are drawn until enough of them had no mine before.
setField(level) ==
    \E mines \in kSubset(MineNum(level), Squares) :
        field' = [s \in Squares |->
                    IF s \in mines THEN MINE ELSE Cardinality(ToSet(Around[s]) \cap mines)]

\* What is seen once S is opened: around a zero every square that is not a
\* mine, and from each zero that was covered on in the same way.
RECURSIVE openTile(_, _)
openTile_still(seen, s) ==
    LET open(t, n) ==
          IF field[n] = MINE \/ (field[n] = 0 /\ t[n] # COVERED) THEN t
          ELSE [t EXCEPT ![n] = field[n]]
    IN IF field[s] = 0 THEN FoldLeft(open, seen, Around[s]) ELSE [seen EXCEPT ![s] = field[s]]
openTile(seen, s) ==
    LET open(t, n) ==
          IF field[n] = MINE \/ (field[n] = 0 /\ t[n] # COVERED) THEN t
          ELSE LET opened == [t EXCEPT ![n] = field[n]]
               IN IF field[n] = 0 THEN openTile(opened, n) ELSE opened
    IN IF field[s] = 0 THEN FoldLeft(open, seen, Around[s]) ELSE [seen EXCEPT ![s] = field[s]]

Covered(seen) == {s \in Squares : seen[s] = COVERED}

\* main() clears the field after every choice of the menu.
Clear == field' = <<>> /\ temp' = <<>> /\ level_num' = 0 /\ picked' = {}

----------------------------------------------------------------------------
StartGame(level) ==
    /\ ~Playing /\ FoldFunction(LAMBDA n, sum : n + sum, 0, total) < MaxGames
    /\ setField(level)
    /\ total' = Count(level, total)
    /\ temp' = [s \in Squares |-> COVERED]
    /\ level_num' = level
    /\ UNCHANGED <<win, lost, picked>>

\* The player picks a square; play_game() then compares what is covered with
\* the mines of the level.
Bang(s) ==
    /\ Playing /\ field[s] = MINE
    /\ lost' = Count(level_num, lost)
    /\ Clear
    /\ UNCHANGED <<total, win>>

Pick(s) ==
    /\ Playing /\ field[s] # MINE
    /\ LET seen == openTile(temp, s)
       IN IF Cardinality(Covered(seen)) = MineNum(level_num)
          THEN /\ win' = Count(level_num, win)
               /\ Clear
               /\ UNCHANGED <<total, lost>>
          ELSE /\ temp' = seen
               /\ picked' = IF seen = temp THEN picked ELSE picked \cup {s}
               /\ UNCHANGED <<field, level_num, total, win, lost>>

GameInit ==
    /\ field = <<>> /\ temp = <<>> /\ level_num = 0 /\ picked = {}
    /\ total = [l \in Levels |-> 0] /\ win = total /\ lost = total
GameNext ==
    \/ \E level \in Levels \cup {OtherLevel} : StartGame(level)
    \/ \E s \in Squares : Bang(s) \/ Pick(s)
GameSpec == GameInit /\ [][GameNext]_gameVars

----------------------------------------------------------------------------
\* Squares that open with those of S: the squares around its zeros, and on.
Grown(S) == S \cup UNION {ToSet(Around[s]) : s \in {s \in S : field[s] = 0}}
Region(S) == LET after[n \in 0 .. Side * Side] == IF n = 0 THEN S ELSE Grown(after[n - 1])
             IN after[Side * Side]

(* What the player sees is the field on the squares that open with the     *)
(* chosen ones, and nothing else, whatever order the recursion of          *)
(* openTile() takes; the game goes on while a square without a mine is     *)
(* covered, and each game that was begun was won, lost or is being played. *)
GameExact ==
    /\ Playing =>
         /\ temp = [s \in Squares |-> IF s \in Region(picked) THEN field[s] ELSE COVERED]
         /\ \E s \in Covered(temp) : field[s] # MINE
    /\ \A l \in Levels :
         total[l] = win[l] + lost[l] + (IF Playing /\ level_num = l THEN 1 ELSE 0)
=============================================================================
