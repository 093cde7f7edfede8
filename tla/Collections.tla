---------------------------- MODULE Collections -----------------------------
(***************************************************************************)
(* What the shell promises: named sequences, sets and arrays of bits, and  *)
(* what each command, given its operands, does to them and prints.         *)
(*                                                                         *)
(* Three things the comments promise are left out, for the code does not   *)
(* keep them.  In a set whose elements hash_apply() changed in place an    *)
(* element may not be found (hash.c:132).  A bit behind those one          *)
(* instruction reaches may stay as it was, or as malloc() left it          *)
(* (bitmap.c:163).  And what bitmap_scan_and_flip() of zero bits answers   *)
(* is not said (bitmap.c:326).                                             *)
(***************************************************************************)
EXTENDS Integers, Sequences, SequencesExt, FiniteSets

CONSTANTS Data, Slots, Exact    \* Exact: bits in reach of every instruction

VARIABLES
  lists,        \* name -> sequence of Data
  sets,         \* name -> [keys, loose]
  bits,         \* name -> sequence of BOOLEAN
  room,         \* list slots never used so far
  out           \* the last command, the names and numbers behind it, what it printed

cvars == <<lists, sets, bits, room, out>>

Asked(command) == out'.command = command
Silent(command) == Asked(command) /\ out'.answer = << >>
Says(command, answer) == Asked(command) /\ out'.answer = <<answer>>
Name(i) == out'.names[i]
Arg(i) == out'.args[i]

CInit ==
  /\ lists = << >> /\ sets = << >> /\ bits = << >> /\ room = Slots
  /\ out = [command |-> "", names |-> <<"">>, args |-> << >>, answer |-> << >>]

Put(f, n, v) == [x \in DOMAIN f \cup {n} |-> IF x = n THEN v ELSE f[x]]
Drop(f, n) == [x \in DOMAIN f \ {n} |-> f[x]]

(* create, delete, dumpdata.  When every slot has been used a list may     *)
(* stay.                                                                   *)
Create ==
  /\ Silent("create") /\ Name(1) \notin DOMAIN lists \cup DOMAIN sets \cup DOMAIN bits
  /\ \/ lists' = Put(lists, Name(1), << >>) /\ room' = room - 1 /\ UNCHANGED <<sets, bits>>
     \/ /\ sets' = Put(sets, Name(1), [keys |-> {}, loose |-> FALSE])
        /\ UNCHANGED <<lists, bits, room>>
     \/ /\ Name(1) \in DOMAIN bits' /\ bits' = Put(bits, Name(1), bits'[Name(1)])
        /\ Len(bits'[Name(1)]) = Arg(1)
        /\ \A i \in 1 .. Arg(1) : i <= Exact => ~bits'[Name(1)][i]
        /\ UNCHANGED <<lists, sets, room>>
Delete ==
  /\ Silent("delete") /\ UNCHANGED <<sets, room>>
  /\ \/ Name(1) \in DOMAIN lists /\ lists' = Drop(lists, Name(1)) /\ UNCHANGED bits
     \/ Name(1) \in DOMAIN bits /\ bits' = Drop(bits, Name(1)) /\ UNCHANGED lists
     \/ Name(1) \in DOMAIN lists /\ room = 0 /\ UNCHANGED <<lists, bits>>
Dumpdata ==
  /\ UNCHANGED <<lists, sets, bits, room>>
  /\ \/ Name(1) \in DOMAIN lists /\ Says("dumpdata_list", lists[Name(1)])
     \/ Name(1) \in DOMAIN bits /\ Says("dumpdata_bitmap", bits[Name(1)])
     \/ /\ Name(1) \in DOMAIN sets
        /\ Asked("dumpdata_hash") /\ ToSet(out'.answer[1]) = sets[Name(1)].keys

Smaller(s, d) == Cardinality({i \in DOMAIN s : s[i] <= d})
Permuted(s, t) ==
  Len(s) = Len(t) /\ \A d \in Data : Cardinality({i \in DOMAIN s : s[i] = d})
                                     = Cardinality({i \in DOMAIN t : t[i] = d})
Runs(s) == {i \in DOMAIN s : i = 1 \/ s[i] # s[i - 1]}
Pick(s, I) == [k \in 1 .. Cardinality(I) |->
                 s[CHOOSE i \in I : Cardinality({j \in I : j <= i}) = k]]
Largest(s) == CHOOSE d \in ToSet(s) : \A e \in ToSet(s) : e <= d
Smallest(s) == CHOOSE d \in ToSet(s) : \A e \in ToSet(s) : d <= e

ListChange(n) ==
  LET s == lists[n]
      Now(t) == lists' = [lists EXCEPT ![n] = t]
  IN \/ Silent("list_insert") /\ Now(InsertAt(s, Arg(1) + 1, Arg(2)))
     \/ Silent("list_push_front") /\ Now(<<Arg(1)>> \o s)
     \/ Silent("list_push_back") /\ Now(Append(s, Arg(1)))
     \/ Silent("list_insert_ordered")
        /\ \E i \in 1 .. Len(s) + 1 :
             /\ \A j \in 1 .. i - 1 : s[j] <= Arg(1)
             /\ i <= Len(s) => s[i] > Arg(1)
             /\ Now(InsertAt(s, i, Arg(1)))
     \/ Silent("list_remove") /\ Now(RemoveAt(s, Arg(1) + 1))
     \/ Silent("list_pop_front") /\ s # << >> /\ Now(Tail(s))
     \/ Silent("list_pop_back") /\ s # << >> /\ Now(Front(s))
     \/ Silent("list_reverse") /\ Now(Reverse(s))
     \/ Silent("list_sort") /\ Now(SortSeq(s, <))
     \/ Silent("list_shuffle") /\ Permuted(s, lists'[n]) /\ Now(lists'[n])
     \/ Silent("list_swap")
        /\ Now([s EXCEPT ![Arg(1) + 1] = s[Arg(2) + 1], ![Arg(2) + 1] = s[Arg(1) + 1]])
     \/ Silent("list_unique") /\ Len(out'.names) = 1 /\ Now(Pick(s, Runs(s)))

(* Commands on two lists: list_splice, also within one list, and           *)
(* list_unique with a list for the duplicates.                             *)
TwoLists(n, o) ==
  LET s == lists[n]
      t == lists[o]
  IN \/ Silent("list_splice")
        /\ \E a \in {Arg(1)}, b \in {Arg(2)}, c \in {Arg(3)} :
             LET cut == SubSeq(t, b + 1, c)
             IN IF n # o
                THEN lists' = [lists EXCEPT
                       ![n] = SubSeq(s, 1, a) \o cut \o SubSeq(s, a + 1, Len(s)),
                       ![o] = SubSeq(t, 1, b) \o SubSeq(t, c + 1, Len(t))]
                ELSE LET left == [i \in 1 .. b |-> i] \o [i \in 1 .. Len(t) - c |-> c + i]
                         k == IF a <= b THEN a ELSE a - (c - b)
                     IN lists' = [lists EXCEPT ![n] =
                          [i \in 1 .. k |-> t[left[i]]] \o cut
                          \o [i \in 1 .. Len(left) - k |-> t[left[k + i]]]]
     \/ /\ Silent("list_unique") /\ n # o
        /\ lists' = [lists EXCEPT ![n] = Pick(s, Runs(s)),
                                  ![o] = t \o Pick(s, DOMAIN s \ Runs(s))]

ListAnswer(n) ==
  LET s == lists[n]
  IN \/ Says("list_size", Len(s))
     \/ Says("list_empty", s = << >>)
     \/ s # << >> /\ Says("list_front", s[1])
     \/ s # << >> /\ Says("list_back", s[Len(s)])
     \/ s # << >> /\ Says("list_max", Largest(s))
     \/ s # << >> /\ Says("list_min", Smallest(s))

Lists ==
  /\ UNCHANGED <<sets, bits, room>> /\ Name(1) \in DOMAIN lists
  /\ \/ ListChange(Name(1))
     \/ Len(out'.names) = 2 /\ TwoLists(Name(1), Name(2))
     \/ UNCHANGED lists /\ ListAnswer(Name(1))

Sets ==
  /\ UNCHANGED <<lists, bits, room>>
  /\ Name(1) \in DOMAIN sets
  /\ LET n == Name(1)
         s == sets[n].keys
         loose == sets[n].loose
         Now(t) == sets' = [sets EXCEPT ![n].keys = t]
     IN \/ (Silent("hash_insert") \/ Silent("hash_replace")) /\ Now(s \cup {Arg(1)})
        \/ Silent("hash_delete") /\ (Now(s \ {Arg(1)}) \/ (loose /\ UNCHANGED sets))
        \/ Silent("hash_clear") /\ sets' = [sets EXCEPT ![n] = [keys |-> {}, loose |-> FALSE]]
        \/ Silent("hash_apply") /\ sets' = [sets EXCEPT ![n] = [keys |-> {k ^ Arg(1) : k \in s}, loose |-> TRUE]]
        \/ /\ UNCHANGED sets
           /\ \/ Says("hash_find", Arg(1)) /\ Arg(1) \in s
              \/ Silent("hash_find") /\ (Arg(1) \notin s \/ loose)
              \/ \E k \in {Cardinality(s)} :
                   Says("hash_size", k) \/ (loose /\ Asked("hash_size") /\ out'.answer[1] > k)
              \/ Says("hash_empty", s = {})

True(b, i, c) == Cardinality({j \in i + 1 .. i + c : b[j]})

BitAnswer(b) ==
  \/ Says("bitmap_size", Len(b))
  \/ Says("bitmap_test", b[Arg(1) + 1])
  \/ LET ones == True(b, Arg(1), Arg(2)) IN
     \/ Says("bitmap_count", IF Arg(3) THEN ones ELSE Arg(2) - ones)
     \/ Says("bitmap_contains", IF Arg(3) THEN ones > 0 ELSE ones < Arg(2))
     \/ Says("bitmap_any", ones > 0)
     \/ Says("bitmap_none", ones = 0)
     \/ Says("bitmap_all", ones = Arg(2))

(* Answers of bitmap_scan: the first of c bits that are all v from i on.   *)
Group(b, i, c, v) == \A j \in i + 1 .. i + c : b[j] = v
Scans(b, i, c, v, at) ==
  \/ /\ at \in i .. Len(b) - c /\ Group(b, at, c, v)
     /\ \A j \in i .. at - 1 : ~Group(b, j, c, v)
  \/ at = -1 /\ \A j \in i .. Len(b) - c : ~Group(b, j, c, v)

BitChange(n) ==
  LET b == bits[n]
      new == bits'[n]
      Now(t) == /\ bits' = [bits EXCEPT ![n] = new] /\ Len(new) = Len(t)
                /\ \A i \in DOMAIN t : new[i] = t[i] \/ (i > Exact /\ new[i] = b[i])
      Fill(i, c, v) == [j \in DOMAIN b |-> IF j \in i + 1 .. i + c THEN v ELSE b[j]]
  IN \/ Silent("bitmap_set") /\ Now(Fill(Arg(1), 1, Arg(2)))
     \/ Silent("bitmap_mark") /\ Now(Fill(Arg(1), 1, TRUE))
     \/ Silent("bitmap_reset") /\ Now(Fill(Arg(1), 1, FALSE))
     \/ Silent("bitmap_flip") /\ Now([b EXCEPT ![Arg(1) + 1] = ~@])
     \/ Silent("bitmap_set_all") /\ Now(Fill(0, Len(b), Arg(1)))
     \/ Silent("bitmap_set_multiple") /\ Now(Fill(Arg(1), Arg(2), Arg(3)))
     \/ Asked("bitmap_scan_and_flip") /\ Arg(2) = 0 /\ Now(b)
     \/ Asked("bitmap_scan_and_flip") /\ Arg(2) > 0
        /\ \E at \in {out'.answer[1]} :
             /\ Scans(b, Arg(1), Arg(2), Arg(3), at)
             /\ Now(IF at = -1 THEN b ELSE Fill(at, Arg(2), ~Arg(3)))
     \/ Silent("bitmap_expand")
        /\ bits' = [bits EXCEPT ![n] = new] /\ Len(new) = Len(b) + Arg(1)
        /\ \A i \in DOMAIN new : i <= Exact => new[i] = (i \in DOMAIN b /\ b[i])

Bits ==
  /\ UNCHANGED <<lists, sets, room>>
  /\ Name(1) \in DOMAIN bits
  /\ \/ BitChange(Name(1))
     \/ UNCHANGED bits /\ BitAnswer(bits[Name(1)])
     \/ /\ UNCHANGED bits /\ Asked("bitmap_scan")
        /\ Scans(bits[Name(1)], Arg(1), Arg(2), Arg(3), out'.answer[1])

Quit == Silent("quit") /\ UNCHANGED <<lists, sets, bits, room>>

CNext == Quit \/ Create \/ Delete \/ Dumpdata \/ Lists \/ Sets \/ Bits
CSpec == CInit /\ [][CNext]_cvars
=============================================================================
