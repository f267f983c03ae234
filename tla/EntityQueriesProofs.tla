------------------------- MODULE EntityQueriesProofs -------------------------
(***************************************************************************)
(* Proofs about EntityQueries, for a caller's stack of any depth.  Each    *)
(* helper has a contract: from a run it may be called in, what the runs it *)
(* ends in have on the stack, for each way of leaving it.                  *)
(***************************************************************************)
EXTENDS EntityQueries, SequenceTheorems, TLAPS

\* What a slot is pushed for.
Slots ==
    {"caller", "userdata", "error", "registry", "nil", "globals", "function", "other",
     "string", "get_field", "set_field", "ents", "number", "entity", "parent", "true",
     "false", "vector", "angle", "table", "key", "value"}

\* How a helper may be left; "erred" only inside a call.
Hows == {"go", "no", "done", "thrown", "raised", "erred"}

Runs == [st : Seq(Slots), base : Nat, how : Hows, bad : BOOLEAN, peak : Int, low : Int,
         done : Nat, chunks : SUBSET Slots]

\* The slots on the stack, and the one at an index.
Size(r) == Len(r.st)
At(r, k) == r.st[k]

\* A run in which nothing has gone wrong so far.
Clean(r) ==
    /\ r \in Runs /\ ~r.bad
    /\ r.low = 0 /\ r.peak <= LUA_MINSTACK
    /\ Size(r) >= r.base

\* A run that came of r has set nothing since, and kept the h slots at the bottom.
Over(r, t, h) ==
    /\ Clean(t) /\ t.base = r.base /\ t.done = r.done
    /\ h <= Size(t) /\ \A k \in 1..h : At(t, k) = At(r, k)

\* There is room for n slots more.
Room(r, n) == Size(r) + n <= r.base + LUA_MINSTACK

-----------------------------------------------------------------------------
(* The calls of ILuaBase, slot by slot.                                    *)

\* What a clean run is, field by field.
LEMMA CleanIs ==
    ASSUME NEW r, Clean(r)
    PROVE  /\ r \in Runs /\ r.st \in Seq(Slots) /\ r.base \in Nat /\ r.how \in Hows
           /\ r.bad = FALSE /\ r.peak \in Int /\ r.peak <= LUA_MINSTACK /\ r.low = 0
           /\ r.done \in Nat /\ Size(r) \in Nat /\ Size(r) >= r.base
           /\ LUA_MINSTACK \in Nat /\ LUA_MINSTACK >= 20
<1>1. /\ r \in Runs /\ r.st \in Seq(Slots) /\ r.base \in Nat /\ r.how \in Hows
      /\ r.bad = FALSE /\ r.peak \in Int /\ r.peak <= LUA_MINSTACK /\ r.low = 0
      /\ r.done \in Nat /\ Size(r) >= r.base
  BY DEF Clean, Runs
<1>2. Size(r) \in Nat
  BY <1>1 DEF Size
<1> QED
  BY <1>1, <1>2, ConstantsAssumption

\* How the numbers of a clean run compare, for the steps that only count.
LEMMA Numbers ==
    ASSUME NEW r, Clean(r)
    PROVE  Size(r) \in Nat /\ r.base \in Nat /\ Size(r) >= r.base /\ LUA_MINSTACK \in Nat
  BY CleanIs

LEMMA OverSelf ==
    ASSUME NEW r, Clean(r)
    PROVE  Over(r, r, Size(r))
  BY Numbers DEF Over

LEMMA OverTrans ==
    ASSUME NEW r, NEW s, NEW t, NEW g \in Int, NEW h \in Int, NEW m \in Int,
           Over(r, s, g), Over(s, t, h), m <= g, m <= h
    PROVE  Over(r, t, m)
<1>1. Size(t) \in Nat
  BY Numbers DEF Over
<1> QED
  BY <1>1 DEF Over

\* Only the stack counts.
LEMMA Restacked ==
    ASSUME NEW r, Clean(r), NEW st \in Seq(Slots), NEW t \in Runs, NEW h \in Int,
           t.st = st, Len(st) >= r.base, h <= Len(st), \A k \in 1..h : st[k] = r.st[k],
           t.base = r.base, t.bad = r.bad, t.low = r.low, t.peak <= LUA_MINSTACK,
           t.done = r.done
    PROVE  Over(r, t, h) /\ Size(t) = Len(st) /\ \A k : At(t, k) = st[k]
<1>1. Clean(t)
  BY CleanIs DEF Clean, Size
<1> QED
  BY <1>1 DEF Over, Size, At

LEMMA EndIs ==
    ASSUME NEW r, Clean(r), NEW how \in Hows
    PROVE  /\ Over(r, End(r, how), Size(r)) /\ End(r, how).how = how
           /\ Size(End(r, how)) = Size(r)
<1> DEFINE t == End(r, how)
<1>0. /\ r \in Runs /\ r.st \in Seq(Slots) /\ r.peak <= LUA_MINSTACK /\ Size(r) \in Nat
      /\ Size(r) >= r.base
  BY CleanIs
<1>1. /\ t \in Runs /\ t.st = r.st /\ t.base = r.base /\ t.how = how /\ t.bad = r.bad
      /\ t.low = r.low /\ t.peak = r.peak /\ t.done = r.done
  BY <1>0 DEF End, Runs
<1> HIDE DEF t
<1>2. Over(r, t, Size(r)) /\ Size(t) = Size(r)
  BY <1>0, <1>1, Restacked DEF Size
<1> QED
  BY <1>1, <1>2 DEF t

LEMMA PushIs ==
    ASSUME NEW r, Clean(r), Room(r, 1), NEW x \in Slots
    PROVE  /\ Over(r, Push(r, x), Size(r)) /\ Push(r, x).how = r.how
           /\ Size(Push(r, x)) = Size(r) + 1 /\ At(Push(r, x), Size(r) + 1) = x
<1> DEFINE t == Push(r, x)
           st == Append(r.st, x)
           height == Len(r.st) + 1 - r.base
<1>0. /\ r \in Runs /\ r.st \in Seq(Slots) /\ r.base \in Nat
      /\ r.peak \in Int /\ r.peak <= LUA_MINSTACK /\ Size(r) \in Nat
      /\ Size(r) >= r.base /\ LUA_MINSTACK \in Nat
  BY CleanIs
<1>1. height \in Int /\ height <= LUA_MINSTACK
  BY <1>0 DEF Room, Size
<1>2. /\ st \in Seq(Slots) /\ Len(st) = Len(r.st) + 1
      /\ \A k \in 1..Len(r.st) : st[k] = r.st[k]
      /\ st[Len(r.st) + 1] = x
  BY <1>0, AppendProperties
<1> HIDE DEF st
<1>3. t = [r EXCEPT !.st = st, !.peak = IF height > @ THEN height ELSE @]
  BY DEF Push, st
<1> HIDE DEF height
<1>4. /\ t \in Runs /\ t.st = st /\ t.peak = (IF height > r.peak THEN height ELSE r.peak)
      /\ t.base = r.base /\ t.how = r.how /\ t.bad = r.bad /\ t.low = r.low /\ t.done = r.done
  BY <1>0, <1>1, <1>2, <1>3 DEF Runs
<1> HIDE DEF t
<1>5. t.peak <= LUA_MINSTACK
  BY <1>0, <1>1, <1>4
<1>6. Size(r) <= Len(st) /\ Len(st) >= r.base
  BY <1>0, <1>2 DEF Size
<1>7. Over(r, t, Size(r)) /\ Size(t) = Len(st) /\ \A k : At(t, k) = st[k]
  BY <1>0, <1>2, <1>4, <1>5, <1>6, Restacked DEF Size
<1> QED
  BY <1>2, <1>4, <1>7 DEF t, Size

\* What is left of the stack when the slots above the m lowest are popped.
LEMMA ShortenedIs ==
    ASSUME NEW s \in Seq(Slots), NEW m \in Nat, m <= Len(s)
    PROVE  /\ SubSeq(s, 1, m) \in Seq(Slots) /\ Len(SubSeq(s, 1, m)) = m
           /\ \A k \in 1..m : SubSeq(s, 1, m)[k] = s[k]
  OBVIOUS

LEMMA PopIs ==
    ASSUME NEW r, Clean(r), NEW n \in Nat, Size(r) - n >= r.base
    PROVE  /\ Over(r, Pop(r, n), Size(r) - n) /\ Pop(r, n).how = r.how
           /\ Size(Pop(r, n)) = Size(r) - n
<1> DEFINE t == Pop(r, n)
           st == SubSeq(r.st, 1, Len(r.st) - n)
           height == Len(r.st) - n - r.base
<1>0. /\ r \in Runs /\ r.st \in Seq(Slots) /\ r.base \in Nat
      /\ r.peak \in Int /\ r.peak <= LUA_MINSTACK /\ Size(r) \in Nat
      /\ Size(r) >= r.base /\ LUA_MINSTACK \in Nat /\ r.low = 0
  BY CleanIs
<1>1. height \in Int /\ height >= 0 /\ Len(r.st) - n \in Nat /\ Len(r.st) - n <= Len(r.st)
  BY <1>0 DEF Size
<1>2. /\ st \in Seq(Slots) /\ Len(st) = Len(r.st) - n
      /\ \A k \in 1..(Len(r.st) - n) : st[k] = r.st[k]
  BY <1>0, <1>1, ShortenedIs
<1> HIDE DEF st
<1>3. t = [r EXCEPT !.st = st, !.low = IF height < @ THEN height ELSE @]
  BY DEF Pop, st
<1> HIDE DEF height
<1>4. /\ t \in Runs /\ t.st = st /\ t.low = (IF height < r.low THEN height ELSE r.low)
      /\ t.base = r.base /\ t.how = r.how /\ t.bad = r.bad /\ t.peak = r.peak /\ t.done = r.done
  BY <1>0, <1>1, <1>2, <1>3 DEF Runs
<1> HIDE DEF t
<1>5. t.low = r.low
  BY <1>0, <1>1, <1>4
<1>6. Size(r) - n \in Int /\ Size(r) - n <= Len(st) /\ Len(st) >= r.base
  BY <1>0, <1>2 DEF Size
<1>7. Over(r, t, Size(r) - n) /\ Size(t) = Len(st)
  BY <1>0, <1>2, <1>4, <1>5, <1>6, Restacked DEF Size
<1> QED
  BY <1>2, <1>4, <1>7 DEF t, Size

LEMMA RemoveSecondIs ==
    ASSUME NEW r, Clean(r), Size(r) - 2 >= r.base
    PROVE  /\ Over(r, RemoveSecond(r), Size(r) - 2) /\ RemoveSecond(r).how = r.how
           /\ Size(RemoveSecond(r)) = Size(r) - 1
           /\ At(RemoveSecond(r), Size(r) - 1) = At(r, Size(r))
<1> DEFINE t == RemoveSecond(r)
           cut == SubSeq(r.st, 1, Len(r.st) - 2)
           st == Append(cut, r.st[Len(r.st)])
<1>0. /\ r \in Runs /\ r.st \in Seq(Slots) /\ r.base \in Nat
      /\ r.peak \in Int /\ r.peak <= LUA_MINSTACK /\ Size(r) \in Nat /\ Size(r) >= r.base
  BY CleanIs
<1>1. Len(r.st) - 2 \in Nat /\ Len(r.st) - 2 <= Len(r.st) /\ r.st[Len(r.st)] \in Slots
  BY <1>0 DEF Size
<1>2. /\ cut \in Seq(Slots) /\ Len(cut) = Len(r.st) - 2
      /\ \A k \in 1..(Len(r.st) - 2) : cut[k] = r.st[k]
  BY <1>0, <1>1
<1> HIDE DEF cut
<1>3. /\ st \in Seq(Slots) /\ Len(st) = Len(r.st) - 1
      /\ \A k \in 1..(Len(r.st) - 2) : st[k] = r.st[k]
      /\ st[Len(r.st) - 1] = r.st[Len(r.st)]
  <2>1. /\ st \in Seq(Slots) /\ Len(st) = Len(cut) + 1
        /\ \A k \in 1..Len(cut) : st[k] = cut[k]
        /\ st[Len(cut) + 1] = r.st[Len(r.st)]
    BY <1>1, <1>2, AppendProperties
  <2> QED
    BY <1>0, <1>1, <1>2, <2>1
<1> HIDE DEF st
<1>4. t = [r EXCEPT !.st = st]
  BY DEF RemoveSecond, st, cut
<1>5. /\ t \in Runs /\ t.st = st /\ t.low = r.low /\ t.peak = r.peak
      /\ t.base = r.base /\ t.how = r.how /\ t.bad = r.bad /\ t.done = r.done
  BY <1>0, <1>3, <1>4 DEF Runs
<1> HIDE DEF t
<1>6. Size(r) - 2 \in Int /\ Size(r) - 2 <= Len(st) /\ Len(st) >= r.base
  BY <1>0, <1>3 DEF Size
<1>7. Over(r, t, Size(r) - 2) /\ Size(t) = Len(st) /\ \A k : At(t, k) = st[k]
  BY <1>0, <1>3, <1>5, <1>6, Restacked DEF Size
<1>8. At(t, Size(r) - 1) = At(r, Size(r))
  BY <1>3, <1>7 DEF Size, At
<1> QED
  BY <1>3, <1>5, <1>7, <1>8 DEF t, Size

\* A call that takes n slots leaves a message or its results in their place; with the
\* error checked, nothing or one of the values.
Called(r, u, n, returns) ==
    /\ Over(r, u, Size(r) - n)
    /\ \/ u.how = "erred" /\ Size(u) = Size(r) - n + 1
       \/ /\ u.how = "go"
          /\ \E v \in returns : /\ Size(u) = Size(r) - n + Len(v)
                                /\ \A k \in 1..Len(v) : At(u, Size(r) - n + k) = v[k]

Checked(r, u, n, values) ==
    /\ Over(r, u, Size(r) - n)
    /\ \/ u.how = "thrown" /\ Size(u) = Size(r) - n
       \/ u.how = "go" /\ Size(u) = Size(r) - n + 1 /\ At(u, Size(u)) \in values

\* The call is one of n slots, and finds what it wants.
Sound(r, n, want) ==
    /\ Clean(r) /\ r.how = "go" /\ Room(r, 0) /\ Size(r) - n >= r.base
    /\ n \in Nat \ {0} /\ Len(want) = n /\ Meets(r.st, want)

\* Two stacks of slots, one on the other.
LEMMA Concatenated ==
    ASSUME NEW S \in Seq(Slots), NEW T \in Seq(Slots)
    PROVE  /\ S \o T \in Seq(Slots) /\ Len(S \o T) = Len(S) + Len(T)
           /\ \A k \in 1..Len(S) : (S \o T)[k] = S[k]
           /\ \A k \in 1..Len(T) : (S \o T)[Len(S) + k] = T[k]
  OBVIOUS

LEMMA PCallIs ==
    ASSUME NEW r, NEW n, NEW want, Sound(r, n, want), NEW returns \in SUBSET Seq(Slots),
           NEW u \in PCall(r, want, returns)
    PROVE  Called(r, u, n, returns)
<1>0. /\ r \in Runs /\ r.st \in Seq(Slots) /\ r.base \in Nat /\ r.peak \in Int
      /\ r.peak <= LUA_MINSTACK /\ Size(r) \in Nat /\ Size(r) >= r.base
      /\ LUA_MINSTACK \in Nat /\ r.bad = FALSE
      /\ Clean(r) /\ r.how = "go" /\ Size(r) <= r.base + LUA_MINSTACK /\ Size(r) - n >= r.base
      /\ n \in Nat \ {0} /\ Len(want) = n /\ Meets(r.st, want)
  <2>1. /\ Clean(r) /\ r.how = "go" /\ Size(r) <= r.base + LUA_MINSTACK
        /\ Size(r) - n >= r.base /\ n \in Nat \ {0} /\ Len(want) = n /\ Meets(r.st, want)
    <3>1. Room(r, 0) /\ Size(r) + 0 = Size(r)
      BY Numbers DEF Sound
    <3> QED
      BY <3>1 DEF Sound, Room
  <2> QED
    BY <2>1, CleanIs
<1> DEFINE st == SubSeq(r.st, 1, Len(r.st) - n)
           after == [r EXCEPT !.st = SubSeq(@, 1, Len(@) - Len(want)),
                              !.bad = @ \/ ~Meets(r.st, want)]
<1>1. Len(r.st) - n \in Nat /\ Len(r.st) - n <= Len(r.st) /\ Len(r.st) = Size(r)
  BY <1>0 DEF Size
<1>2. /\ st \in Seq(Slots) /\ Len(st) = Size(r) - n /\ \A k \in 1..(Size(r) - n) : st[k] = r.st[k]
  <2>1. PICK m \in Nat : m = Len(r.st) - n
    BY <1>1
  <2>2. r.st \in Seq(Slots) /\ m <= Len(r.st)
    BY <1>0, <1>1, <2>1
  <2>3. /\ SubSeq(r.st, 1, m) \in Seq(Slots) /\ Len(SubSeq(r.st, 1, m)) = m
        /\ \A k \in 1..m : SubSeq(r.st, 1, m)[k] = r.st[k]
    BY <2>2, ShortenedIs
  <2>4. m = Size(r) - n
    BY <1>1, <2>1
  <2> QED
    BY <2>1, <2>3, <2>4
<1>3. after = [r EXCEPT !.st = st, !.bad = FALSE]
  BY <1>0
<1>4. PCall(r, want, returns) \subseteq
        {End(Push(after, "error"), "erred")} \cup {[after EXCEPT !.st = @ \o v] : v \in returns}
  BY Zenon DEF PCall
<1> HIDE DEF after
<1>5. /\ after \in Runs /\ after.st = st /\ after.base = r.base /\ after.how = r.how
      /\ after.bad = r.bad /\ after.low = r.low /\ after.peak = r.peak /\ after.done = r.done
  <2>1. r \in Runs /\ r.bad = FALSE /\ st \in Seq(Slots)
    BY <1>0, <1>2
  <2> HIDE DEF st
  <2> QED
    BY <1>3, <2>1 DEF Runs
<1> HIDE DEF st
<1>6. /\ Over(r, after, Size(r) - n) /\ Size(after) = Size(r) - n
      /\ \A k : At(after, k) = st[k]
  <2>1. PICK h \in Int : h = Size(r) - n
    BY <1>0
  <2>2. Len(st) = h /\ h >= r.base
    BY <1>0, <1>2, <2>1
  <2>3. \A k \in 1..h : st[k] = r.st[k]
    BY <1>2, <2>1
  <2>4. /\ Clean(r) /\ st \in Seq(Slots) /\ after \in Runs /\ after.st = st
        /\ h <= Len(st) /\ Len(st) >= r.base /\ after.base = r.base
        /\ after.bad = r.bad /\ after.low = r.low /\ after.peak <= LUA_MINSTACK
        /\ after.done = r.done
    BY <1>0, <1>2, <1>5, <2>2
  <2>5. Over(r, after, h) /\ Size(after) = Len(st) /\ \A k : At(after, k) = st[k]
    BY <2>3, <2>4, Restacked
  <2> QED
    BY <2>1, <2>2, <2>5
<1>7. Clean(after) /\ Room(after, 1)
  <2>1. Clean(after)
    BY <1>6 DEF Over
  <2> QED
    BY <1>0, <1>5, <1>6, <2>1 DEF Room
<1>8. CASE u = End(Push(after, "error"), "erred")
  <2> DEFINE p == Push(after, "error")
  <2>1. Over(after, p, Size(after)) /\ Size(p) = Size(after) + 1
    BY <1>7, PushIs DEF Slots
  <2>2. Clean(p) /\ "erred" \in Hows
    BY <2>1 DEF Over, Hows
  <2>3. Over(p, u, Size(p)) /\ u.how = "erred" /\ Size(u) = Size(p)
    BY <1>8, <2>2, EndIs
  <2> HIDE DEF p
  <2>4. Over(r, p, Size(r) - n)
    BY <1>0, <1>6, <2>1, OverTrans
  <2>5. Over(r, u, Size(r) - n)
    BY <1>0, <1>6, <2>1, <2>3, <2>4, OverTrans
  <2> QED
    BY <1>6, <2>1, <2>3, <2>5 DEF Called
<1>9. ASSUME NEW v \in returns, u = [after EXCEPT !.st = @ \o v]
      PROVE  Called(r, u, n, returns)
  <2> DEFINE longer == st \o v
  <2>1. v \in Seq(Slots)
    OBVIOUS
  <2>2. /\ longer \in Seq(Slots) /\ Len(longer) = Len(st) + Len(v) /\ Len(v) \in Nat
        /\ \A k \in 1..Len(st) : longer[k] = st[k]
        /\ \A k \in 1..Len(v) : longer[Len(st) + k] = v[k]
    <3>1. st \in Seq(Slots)
      BY <1>2
    <3> QED
      BY <2>1, <3>1, Concatenated
  <2>3. u = [after EXCEPT !.st = longer]
    BY <1>5, <1>9
  <2> HIDE DEF longer
  <2>4. /\ u \in Runs /\ u.st = longer /\ u.base = r.base /\ u.how = r.how
        /\ u.bad = r.bad /\ u.low = r.low /\ u.peak = r.peak /\ u.done = r.done
    BY <1>5, <2>2, <2>3 DEF Runs
  <2>5. Size(r) - n \in Int /\ Size(r) - n <= Len(longer) /\ Len(longer) >= r.base
    <3>1. /\ Size(r) \in Nat /\ n \in Nat /\ r.base \in Nat /\ Size(r) - n >= r.base
          /\ Len(st) = Size(r) - n
      BY <1>0, <1>2
    <3>2. Len(longer) = Len(st) + Len(v) /\ Len(v) \in Nat
      BY <2>2
    <3> QED
      BY <3>1, <3>2
  <2>6. \A k \in 1..(Size(r) - n) : longer[k] = r.st[k]
    BY <1>2, <2>2
  <2>7. /\ Over(r, u, Size(r) - n) /\ Size(u) = Len(longer)
        /\ \A k : At(u, k) = longer[k]
    <3>1. u.bad = r.bad /\ u.low = r.low /\ u.peak <= LUA_MINSTACK
      BY <1>0, <2>4
    <3>2. PICK h \in Int : h = Size(r) - n
      BY <2>5
    <3>3. h <= Len(longer) /\ \A k \in 1..h : longer[k] = r.st[k]
      BY <2>5, <2>6, <3>2
    <3>4. /\ Clean(r) /\ longer \in Seq(Slots) /\ u \in Runs /\ u.st = longer
          /\ Len(longer) >= r.base /\ u.base = r.base /\ u.done = r.done
      BY <1>0, <2>2, <2>4, <2>5
    <3>5. /\ Over(r, u, h) /\ Size(u) = Len(longer) /\ \A k : At(u, k) = longer[k]
      BY <3>1, <3>3, <3>4, Restacked
    <3> QED
      BY <3>2, <3>5
  <2>8. /\ Size(u) = Size(r) - n + Len(v)
        /\ \A k \in 1..Len(v) : At(u, Size(r) - n + k) = v[k]
    BY <1>2, <2>2, <2>7
  <2> QED
    BY <1>0, <2>4, <2>7, <2>8 DEF Called
<1> QED
  BY <1>4, <1>8, <1>9

LEMMA PCallCheckedIs ==
    ASSUME NEW r, NEW n, NEW want, Sound(r, n, want), NEW values \in SUBSET Slots,
           NEW u \in PCallChecked(r, want, One(values))
    PROVE  Checked(r, u, n, values)
<1>0. Clean(r) /\ Size(r) \in Nat /\ r.base \in Nat /\ Size(r) - n >= r.base /\ n \in Nat \ {0}
  BY Numbers DEF Sound
<1>1. PICK s \in PCall(r, want, One(values)) :
          u = IF s.how = "erred" THEN End(Pop(s, 1), "thrown") ELSE s
  BY DEF PCallChecked
<1>2. One(values) \in SUBSET Seq(Slots)
  <2> SUFFICES ASSUME NEW v \in values PROVE <<v>> \in Seq(Slots)
    BY DEF One
  <2> QED
    OBVIOUS
<1>3. Called(r, s, n, One(values))
  BY <1>2, PCallIs
<1>4. Clean(s) /\ s.base = r.base /\ Size(s) \in Nat
  BY <1>3, Numbers DEF Called, Over
<1>5. CASE s.how = "erred"
  <2>1. Over(r, s, Size(r) - n) /\ Size(s) = Size(r) - n + 1
    BY <1>3, <1>5 DEF Called
  <2> DEFINE p == Pop(s, 1)
  <2>2. Over(s, p, Size(s) - 1) /\ Size(p) = Size(s) - 1
    BY <1>0, <1>4, <2>1, PopIs
  <2>3. Clean(p) /\ "thrown" \in Hows
    BY <2>2 DEF Over, Hows
  <2>4. Over(p, u, Size(p)) /\ u.how = "thrown" /\ Size(u) = Size(p)
    BY <1>1, <1>5, <2>3, EndIs
  <2> HIDE DEF p
  <2>5. Over(r, p, Size(r) - n)
    BY <1>0, <2>1, <2>2, OverTrans
  <2>6. Over(r, u, Size(r) - n)
    BY <1>0, <2>1, <2>2, <2>4, <2>5, OverTrans
  <2> QED
    BY <1>0, <2>1, <2>2, <2>4, <2>6 DEF Checked
<1>6. CASE s.how # "erred"
  <2>1. PICK v \in One(values) : /\ Size(s) = Size(r) - n + Len(v)
                                 /\ \A k \in 1..Len(v) : At(s, Size(r) - n + k) = v[k]
    BY <1>3, <1>6 DEF Called
  <2>2. PICK x \in values : v = <<x>>
    BY DEF One
  <2>3. Len(v) = 1 /\ v[1] = x
    BY <2>2
  <2>4. Size(s) = Size(r) - n + 1
    BY <2>1, <2>3
  <2>5. At(s, Size(r) - n + 1) = x
    BY <2>1, <2>3
  <2>6. u = s /\ u.how = "go" /\ Over(r, u, Size(r) - n)
    BY <1>1, <1>3, <1>6 DEF Called
  <2> QED
    BY <1>0, <2>4, <2>5, <2>6 DEF Checked
<1> QED
  BY <1>5, <1>6

\* Nothing of a query's is bad when the slots of a call are those it is written for.
LEMMA Meets2 ==
    ASSUME NEW r, Clean(r), Size(r) >= 2, NEW f, NEW b,
           At(r, Size(r) - 1) \in {f, "other"}, At(r, Size(r)) = b
    PROVE  Meets(r.st, <<f, b>>)
<1>1. Len(<<f, b>>) = 2 /\ <<f, b>>[1] = f /\ <<f, b>>[2] = b
  OBVIOUS
<1>2. Size(r) \in Nat /\ Size(r) = Len(r.st)
  BY CleanIs DEF Size
<1>3. Size(r) - 2 >= 0 /\ r.st[Size(r) - 2 + 1] \in {f, "other"} /\ r.st[Size(r) - 2 + 2] = b
  BY <1>2 DEF At
<1>4. \A k \in 2..2 : r.st[Size(r) - 2 + k] = <<f, b>>[k]
  BY <1>1, <1>3
<1> QED
  BY <1>1, <1>2, <1>3, <1>4 DEF Meets

LEMMA Meets3 ==
    ASSUME NEW r, Clean(r), Size(r) >= 3, NEW f, NEW b, NEW c,
           At(r, Size(r) - 2) \in {f, "other"}, At(r, Size(r) - 1) = b, At(r, Size(r)) = c
    PROVE  Meets(r.st, <<f, b, c>>)
<1>1. Len(<<f, b, c>>) = 3 /\ <<f, b, c>>[1] = f /\ <<f, b, c>>[2] = b /\ <<f, b, c>>[3] = c
  OBVIOUS
<1>2. Size(r) \in Nat /\ Size(r) = Len(r.st)
  BY CleanIs DEF Size
<1>3. /\ Size(r) - 3 >= 0 /\ r.st[Size(r) - 3 + 1] \in {f, "other"}
      /\ r.st[Size(r) - 3 + 2] = b /\ r.st[Size(r) - 3 + 3] = c
  BY <1>2 DEF At
<1>4. \A k \in 2..3 : k = 2 \/ k = 3
  OBVIOUS
<1>5. \A k \in 2..3 : r.st[Size(r) - 3 + k] = <<f, b, c>>[k]
  BY <1>1, <1>3, <1>4
<1> QED
  BY <1>1, <1>2, <1>3, <1>5 DEF Meets

LEMMA Meets4 ==
    ASSUME NEW r, Clean(r), Size(r) >= 4, NEW f, NEW b, NEW c, NEW d,
           At(r, Size(r) - 3) \in {f, "other"}, At(r, Size(r) - 2) = b,
           At(r, Size(r) - 1) = c, At(r, Size(r)) = d
    PROVE  Meets(r.st, <<f, b, c, d>>)
<1>1. /\ Len(<<f, b, c, d>>) = 4 /\ <<f, b, c, d>>[1] = f /\ <<f, b, c, d>>[2] = b
      /\ <<f, b, c, d>>[3] = c /\ <<f, b, c, d>>[4] = d
  OBVIOUS
<1>2. Size(r) \in Nat /\ Size(r) = Len(r.st)
  BY CleanIs DEF Size
<1>3. /\ Size(r) - 4 >= 0 /\ r.st[Size(r) - 4 + 1] \in {f, "other"}
      /\ r.st[Size(r) - 4 + 2] = b /\ r.st[Size(r) - 4 + 3] = c /\ r.st[Size(r) - 4 + 4] = d
  BY <1>2 DEF At
<1>4. \A k \in 2..4 : k = 2 \/ k = 3 \/ k = 4
  OBVIOUS
<1>5. \A k \in 2..4 : r.st[Size(r) - 4 + k] = <<f, b, c, d>>[k]
  BY <1>1, <1>3, <1>4
<1> QED
  BY <1>1, <1>2, <1>3, <1>5 DEF Meets

LEMMA Push2Is ==
    ASSUME NEW r, Clean(r), Room(r, 2), NEW x \in Slots, NEW y \in Slots
    PROVE  /\ Over(r, Push(Push(r, x), y), Size(r)) /\ Push(Push(r, x), y).how = r.how
           /\ Size(Push(Push(r, x), y)) = Size(r) + 2
           /\ At(Push(Push(r, x), y), Size(r) + 1) = x /\ At(Push(Push(r, x), y), Size(r) + 2) = y
<1> DEFINE p == Push(r, x)
           q == Push(p, y)
<1>0. Size(r) \in Nat /\ r.base \in Nat /\ LUA_MINSTACK \in Nat /\ Room(r, 1)
  BY Numbers DEF Room
<1>1. /\ Over(r, p, Size(r)) /\ p.how = r.how
      /\ Size(p) = Size(r) + 1 /\ At(p, Size(r) + 1) = x
  BY <1>0, PushIs
<1>2. Clean(p) /\ Room(p, 1)
  BY <1>0, <1>1 DEF Over, Room
<1> HIDE DEF p
<1>3. /\ Over(p, q, Size(p)) /\ q.how = p.how
      /\ Size(q) = Size(p) + 1 /\ At(q, Size(p) + 1) = y
  BY <1>2, PushIs
<1> HIDE DEF q
<1>4. Over(r, q, Size(r))
  BY <1>0, <1>1, <1>3, OverTrans
<1>5. At(q, Size(r) + 1) = x
  BY <1>0, <1>1, <1>3 DEF Over
<1> QED
  BY <1>0, <1>1, <1>3, <1>4, <1>5 DEF p, q

LEMMA Push3Is ==
    ASSUME NEW r, Clean(r), Room(r, 3), NEW x \in Slots, NEW y \in Slots, NEW z \in Slots
    PROVE  /\ Over(r, Push(Push(Push(r, x), y), z), Size(r))
           /\ Push(Push(Push(r, x), y), z).how = r.how
           /\ Size(Push(Push(Push(r, x), y), z)) = Size(r) + 3
           /\ At(Push(Push(Push(r, x), y), z), Size(r) + 1) = x
           /\ At(Push(Push(Push(r, x), y), z), Size(r) + 2) = y
           /\ At(Push(Push(Push(r, x), y), z), Size(r) + 3) = z
<1> DEFINE p == Push(Push(r, x), y)
           q == Push(p, z)
<1>0. Size(r) \in Nat /\ r.base \in Nat /\ LUA_MINSTACK \in Nat /\ Room(r, 2)
  BY Numbers DEF Room
<1>1. /\ Over(r, p, Size(r)) /\ p.how = r.how
      /\ Size(p) = Size(r) + 2 /\ At(p, Size(r) + 1) = x /\ At(p, Size(r) + 2) = y
  BY <1>0, Push2Is
<1>2. Clean(p) /\ Room(p, 1)
  BY <1>0, <1>1 DEF Over, Room
<1> HIDE DEF p
<1>3. /\ Over(p, q, Size(p)) /\ q.how = p.how
      /\ Size(q) = Size(p) + 1 /\ At(q, Size(p) + 1) = z
  BY <1>2, PushIs
<1> HIDE DEF q
<1>4. Over(r, q, Size(r))
  BY <1>0, <1>1, <1>3, OverTrans
<1>5. At(q, Size(r) + 1) = x /\ At(q, Size(r) + 2) = y
  BY <1>0, <1>1, <1>3 DEF Over
<1> QED
  BY <1>0, <1>1, <1>3, <1>4, <1>5 DEF p, q

LEMMA Sound2 ==
    ASSUME NEW r, Clean(r), r.how = "go", Room(r, 0), Size(r) - 2 >= r.base, NEW f, NEW b,
           At(r, Size(r) - 1) \in {f, "other"}, At(r, Size(r)) = b
    PROVE  Sound(r, 2, <<f, b>>)
<1>1. Size(r) >= 2 /\ Len(<<f, b>>) = 2 /\ 2 \in Nat \ {0}
  BY Numbers
<1>2. Meets(r.st, <<f, b>>)
  BY <1>1, Meets2
<1> QED
  BY <1>1, <1>2 DEF Sound

LEMMA Sound3 ==
    ASSUME NEW r, Clean(r), r.how = "go", Room(r, 0), Size(r) - 3 >= r.base, NEW f, NEW b, NEW c,
           At(r, Size(r) - 2) \in {f, "other"}, At(r, Size(r) - 1) = b, At(r, Size(r)) = c
    PROVE  Sound(r, 3, <<f, b, c>>)
<1>1. Size(r) >= 3 /\ Len(<<f, b, c>>) = 3 /\ 3 \in Nat \ {0}
  BY Numbers
<1>2. Meets(r.st, <<f, b, c>>)
  BY <1>1, Meets3
<1> QED
  BY <1>1, <1>2 DEF Sound

LEMMA Sound4 ==
    ASSUME NEW r, Clean(r), r.how = "go", Room(r, 0), Size(r) - 4 >= r.base,
           NEW f, NEW b, NEW c, NEW d,
           At(r, Size(r) - 3) \in {f, "other"}, At(r, Size(r) - 2) = b,
           At(r, Size(r) - 1) = c, At(r, Size(r)) = d
    PROVE  Sound(r, 4, <<f, b, c, d>>)
<1>1. Size(r) >= 4 /\ Len(<<f, b, c, d>>) = 4 /\ 4 \in Nat \ {0}
  BY Numbers
<1>2. Meets(r.st, <<f, b, c, d>>)
  BY <1>1, Meets4
<1> QED
  BY <1>1, <1>2 DEF Sound

-----------------------------------------------------------------------------
(* EntityQuery's helpers.  Each lemma is a helper's contract: the run it   *)
(* is called with, the room it needs, and the runs it ends in.             *)

\* The helper pushed one of the values; left the stack as it was; left at most n slots on
\* it; or was left by an exception, or a Lua error, half done.
Pushes(r, t, values) ==
    Over(r, t, Size(r)) /\ t.how = "go" /\ Size(t) = Size(r) + 1 /\ At(t, Size(t)) \in values
Restores(r, t, how) == Over(r, t, Size(r)) /\ t.how = how /\ Size(t) = Size(r)
Leaves(r, t, n) == Over(r, t, Size(r)) /\ Size(t) <= Size(r) + n
Fails(r, t) ==
    \/ t.how = "thrown" /\ Leaves(r, t, 1)
    \/ t.how = "raised" /\ Leaves(r, t, 2)

\* A run that goes on, and the runs a helper's contract is about.
Going(r, n) == Clean(r) /\ r.how = "go" /\ Room(r, n)

LEMMA GetFieldIs ==
    ASSUME NEW r, Going(r, 1), NEW values \in SUBSET Slots, NEW t \in GetField(r, values)
    PROVE  Pushes(r, t, values) \/ Restores(r, t, "raised")
<1>1. Clean(r) /\ r.how = "go" /\ Room(r, 1) /\ "raised" \in Hows
  BY DEF Going, Hows
<1>2. CASE t = End(r, "raised")
  BY <1>1, <1>2, EndIs DEF Restores
<1>3. ASSUME NEW v \in values, t = Push(r, v)
      PROVE  Pushes(r, t, values)
  <2>1. /\ Over(r, t, Size(r)) /\ t.how = "go" /\ Size(t) = Size(r) + 1 /\ At(t, Size(r) + 1) = v
    BY <1>1, <1>3, PushIs
  <2> QED
    BY <2>1 DEF Pushes
<1> QED
  BY <1>2, <1>3 DEF GetField

\* push_registry_chunk.
LEMMA ChunkIs ==
    ASSUME NEW r, Going(r, 4), NEW name \in {"get_field", "set_field"},
           NEW t \in PushRegistryChunk(r, name)
    PROVE  Pushes(r, t, {name, "other"}) \/ Fails(r, t)
<1> DEFINE registry == Push(r, "registry")
           globals == Push(Pop(Push(registry, "nil"), 1), "globals")
           G == GetField(globals, {"function", "other"})
           compile(s) == Push(Push(RemoveSecond(s), "string"), "string")
           compiled(s) == PCallChecked(compile(s), <<"function", "string", "string">>,
                                       One({name, "other"}))
           copied(s) == Push(s, Top(s))
           stored(s) == [Pop(copied(s), 1) EXCEPT !.chunks =
                            IF Top(s) = name THEN @ \cup {name} ELSE @]
           store(s) == {stored(s)}
           C == Then(G, compiled)
           D == Then(C, store)
<1>0. /\ Clean(r) /\ r.how = "go" /\ Size(r) \in Nat /\ r.base \in Nat /\ Size(r) >= r.base
      /\ LUA_MINSTACK \in Nat /\ Size(r) + 4 <= r.base + LUA_MINSTACK
      /\ Room(r, 1)
  BY Numbers DEF Going, Room
<1>1. t \in Then(IF name \in r.chunks THEN {Push(registry, name)} ELSE D, DropBelow)
  BY DEF PushRegistryChunk
<1>2. /\ Over(r, registry, Size(r)) /\ registry.how = "go" /\ Size(registry) = Size(r) + 1
      /\ Clean(registry) /\ registry.base = r.base
  BY <1>0, PushIs DEF Slots, Over
<1> HIDE DEF registry
\* One slot above the registry, and it goes: DropBelow.
<1>3. ASSUME NEW s, Over(r, s, Size(r)), Size(s) = Size(r) + 2, s.how = "go",
             At(s, Size(s)) \in {name, "other"}, t = RemoveSecond(s)
      PROVE  Pushes(r, t, {name, "other"})
  <2>1. Clean(s) /\ Size(s) - 2 >= s.base
    BY <1>0, <1>3 DEF Over
  <2>2. /\ Over(s, t, Size(s) - 2) /\ t.how = "go" /\ Size(t) = Size(s) - 1
        /\ At(t, Size(s) - 1) = At(s, Size(s))
    BY <1>3, <2>1, RemoveSecondIs
  <2>3. Over(r, t, Size(r))
    BY <1>0, <1>3, <2>2, OverTrans
  <2> QED
    BY <1>0, <1>3, <2>2, <2>3 DEF Pushes
<1>4. CASE name \in r.chunks
  <2> DEFINE s == Push(registry, name)
  <2>1. t = RemoveSecond(s)
    <3>1. s.how = "go"
      BY <1>0, <1>2, PushIs DEF Slots, Room
    <3> QED
      BY <1>1, <1>4, <3>1 DEF Then, DropBelow
  <2>2. Room(registry, 1) /\ name \in Slots
    BY <1>0, <1>2 DEF Room, Slots
  <2>3. /\ Over(registry, s, Size(registry)) /\ s.how = "go" /\ Size(s) = Size(r) + 2
        /\ At(s, Size(s)) = name
    BY <1>0, <1>2, <2>2, PushIs
  <2>4. Over(r, s, Size(r))
    BY <1>0, <1>2, <2>3, OverTrans
  <2> QED
    BY <1>3, <2>1, <2>3, <2>4
<1>5. CASE name \notin r.chunks
  <2> DEFINE n == Push(registry, "nil")
             m == Pop(n, 1)
  <2>1. Over(r, n, Size(r)) /\ Size(n) = Size(r) + 2 /\ n.how = "go" /\ Clean(n) /\ n.base = r.base
    <3>1. Room(registry, 1)
      BY <1>0, <1>2 DEF Room
    <3>2. Over(registry, n, Size(registry)) /\ Size(n) = Size(registry) + 1 /\ n.how = "go"
      BY <1>2, <3>1, PushIs DEF Slots
    <3> HIDE DEF n
    <3>3. Over(r, n, Size(r))
      BY <1>0, <1>2, <3>2, OverTrans
    <3> QED
      BY <1>0, <1>2, <3>2, <3>3 DEF Over
  <2> HIDE DEF n
  <2>2. Over(r, m, Size(r)) /\ Size(m) = Size(r) + 1 /\ m.how = "go" /\ Clean(m) /\ m.base = r.base
    <3>1. Over(n, m, Size(n) - 1) /\ Size(m) = Size(n) - 1 /\ m.how = "go"
      BY <1>0, <2>1, PopIs
    <3>2. Over(r, m, Size(r))
      BY <1>0, <2>1, <3>1, OverTrans
    <3> QED
      BY <1>0, <2>1, <3>1, <3>2 DEF Over
  <2> HIDE DEF m
  <2>3. Over(r, globals, Size(r)) /\ Size(globals) = Size(r) + 2 /\ Going(globals, 2)
        /\ globals.base = r.base
    <3>1. Room(m, 1)
      BY <1>0, <2>2 DEF Room
    <3>2. Over(m, globals, Size(m)) /\ Size(globals) = Size(m) + 1 /\ globals.how = "go"
      BY <2>2, <3>1, PushIs DEF Slots, m, n
    <3> HIDE DEF globals
    <3>3. Over(r, globals, Size(r))
      BY <1>0, <2>2, <3>2, OverTrans
    <3> QED
      BY <1>0, <2>2, <3>2, <3>3 DEF Over, Room, Going
  <2> HIDE DEF globals
  <2>4. ASSUME NEW s \in G
        PROVE  /\ Over(r, s, Size(r)) /\ Clean(s) /\ s.base = r.base
               /\ \/ s.how = "raised" /\ Size(s) = Size(r) + 2
                  \/ /\ s.how = "go" /\ Size(s) = Size(r) + 3
                     /\ At(s, Size(s)) \in {"function", "other"}
    <3>1. Pushes(globals, s, {"function", "other"}) \/ Restores(globals, s, "raised")
      <4>1. Going(globals, 1) /\ {"function", "other"} \in SUBSET Slots
        BY <2>3, Numbers DEF Going, Room, Slots
      <4> QED
        BY <4>1, GetFieldIs
    <3>2. /\ Over(globals, s, Size(globals))
          /\ \/ s.how = "raised" /\ Size(s) = Size(r) + 2
             \/ /\ s.how = "go" /\ Size(s) = Size(r) + 3
                      /\ At(s, Size(s)) \in {"function", "other"}
      BY <1>0, <2>3, <3>1 DEF Pushes, Restores
    <3>3. Over(r, s, Size(r))
      BY <1>0, <2>3, <3>2, OverTrans
    <3> QED
      BY <3>2, <3>3 DEF Over
  <2> HIDE DEF G
  <2>5. ASSUME NEW s \in G, s.how = "go"
        PROVE  /\ Over(r, compile(s), Size(r)) /\ Size(compile(s)) = Size(r) + 4
               /\ Sound(compile(s), 3, <<"function", "string", "string">>)
    <3> DEFINE x == RemoveSecond(s)
               c == compile(s)
    <3>1. /\ Over(r, x, Size(r)) /\ Size(x) = Size(r) + 2 /\ x.how = "go" /\ Clean(x)
          /\ At(x, Size(x)) \in {"function", "other"} /\ x.base = r.base
      <4>1. Size(s) - 2 >= s.base
        BY <1>0, <2>4, <2>5
      <4>2. /\ Over(s, x, Size(s) - 2) /\ Size(x) = Size(s) - 1 /\ x.how = "go"
            /\ At(x, Size(s) - 1) = At(s, Size(s))
        BY <2>4, <2>5, <4>1, RemoveSecondIs
      <4> HIDE DEF x
      <4>3. Over(r, x, Size(r))
        BY <1>0, <2>4, <2>5, <4>2, OverTrans
      <4> QED
        BY <1>0, <2>4, <2>5, <4>2, <4>3 DEF Over
    <3>2. c = Push(Push(x, "string"), "string") /\ Room(x, 2)
      BY <1>0, <3>1 DEF Room
    <3> HIDE DEF x, c
    <3>3. /\ Over(x, c, Size(x)) /\ Size(c) = Size(x) + 2 /\ c.how = "go"
          /\ At(c, Size(x) + 1) = "string" /\ At(c, Size(x) + 2) = "string"
      <4>1. "string" \in Slots
        BY DEF Slots
      <4> QED
        BY <3>1, <3>2, <4>1, Push2Is
    <3>4. Over(r, c, Size(r))
      BY <1>0, <3>1, <3>3, OverTrans
    <3>5. At(c, Size(c) - 2) \in {"function", "other"}
      BY <1>0, <3>1, <3>3 DEF Over
    <3>6. Clean(c) /\ Room(c, 0) /\ Size(c) - 3 >= c.base
      BY <1>0, <3>1, <3>3, <3>4 DEF Over, Room
    <3>7. At(c, Size(c) - 1) = "string" /\ At(c, Size(c)) = "string"
      BY <1>0, <3>1, <3>3
    <3>8. Sound(c, 3, <<"function", "string", "string">>)
      BY <3>3, <3>5, <3>6, <3>7, Sound3
    <3> QED
      BY <1>0, <3>1, <3>3, <3>4, <3>8 DEF c
  <2>6. ASSUME NEW s \in C
        PROVE  /\ Over(r, s, Size(r)) /\ Clean(s) /\ s.base = r.base
               /\ \/ Fails(r, s)
                  \/ s.how = "go" /\ Size(s) = Size(r) + 2 /\ At(s, Size(s)) \in {name, "other"}
    <3>1. (s \in G /\ s.how # "go") \/ \E x \in G : x.how = "go" /\ s \in compiled(x)
      BY DEF Then
    <3>2. CASE s \in G /\ s.how # "go"
      BY <1>0, <2>4, <3>2 DEF Fails, Leaves
    <3>3. ASSUME NEW x \in G, x.how = "go", s \in compiled(x)
          PROVE  /\ Over(r, s, Size(r)) /\ Clean(s) /\ s.base = r.base
                 /\ \/ Fails(r, s)
                    \/ /\ s.how = "go" /\ Size(s) = Size(r) + 2
                       /\ At(s, Size(s)) \in {name, "other"}
      <4>1. /\ Over(r, compile(x), Size(r)) /\ Size(compile(x)) = Size(r) + 4
            /\ Sound(compile(x), 3, <<"function", "string", "string">>)
        BY <2>5, <3>3
      <4> HIDE DEF compile
      <4>2. {name, "other"} \in SUBSET Slots
        BY DEF Slots
      <4>3. Checked(compile(x), s, 3, {name, "other"})
        BY <3>3, <4>1, <4>2, PCallCheckedIs
      <4>4. Over(r, s, Size(r))
        BY <1>0, <4>1, <4>3, OverTrans DEF Checked
      <4> QED
        BY <1>0, <4>1, <4>3, <4>4 DEF Checked, Over, Fails, Leaves
    <3> QED
      BY <3>1, <3>2, <3>3
  <2> HIDE DEF C
  <2>7. ASSUME NEW s \in C, s.how = "go"
        PROVE  /\ Over(r, stored(s), Size(r)) /\ stored(s).how = "go"
               /\ Size(stored(s)) = Size(r) + 2 /\ At(stored(s), Size(r) + 2) \in {name, "other"}
    <3> DEFINE y == copied(s)
               z == Pop(y, 1)
               w == stored(s)
    <3>1. Size(s) = Size(r) + 2 /\ At(s, Size(s)) \in {name, "other"} /\ Clean(s)
          /\ Over(r, s, Size(r)) /\ s.base = r.base
      BY <2>6, <2>7 DEF Fails
    <3>2. Top(s) \in Slots /\ Room(s, 1)
      <4>1. Top(s) = At(s, Size(s))
        BY DEF Top, At, Size
      <4> QED
        BY <1>0, <3>1, <4>1 DEF Slots, Room
    <3>3. Over(s, y, Size(s)) /\ Size(y) = Size(s) + 1 /\ y.how = "go"
      BY <2>7, <3>1, <3>2, PushIs
    <3> HIDE DEF copied
    <3>4. Over(y, z, Size(y) - 1) /\ Size(z) = Size(y) - 1 /\ z.how = "go" /\ Clean(z)
      BY <1>0, <3>1, <3>3, PopIs DEF Over
    <3>5. Over(s, z, Size(s)) /\ Size(z) = Size(s)
      BY <1>0, <3>1, <3>3, <3>4, OverTrans
    <3>6. z \in Runs /\ name \in Slots
      BY <3>4, CleanIs DEF Slots
    <3>7. w = [z EXCEPT !.chunks = IF Top(s) = name THEN @ \cup {name} ELSE @]
      OBVIOUS
    <3> HIDE DEF z, w
    <3>8. /\ w \in Runs /\ w.st = z.st /\ w.base = z.base /\ w.how = z.how /\ w.bad = z.bad
          /\ w.low = z.low /\ w.peak = z.peak /\ w.done = z.done
      BY <3>6, <3>7 DEF Runs
    <3>9. Over(s, w, Size(s)) /\ Size(w) = Size(s)
      <4>1. Clean(w)
        BY <3>4, <3>8 DEF Clean, Size
      <4> QED
        BY <3>5, <3>8, <4>1 DEF Over, At, Size
    <3>10. Over(r, w, Size(r)) /\ At(w, Size(r) + 2) \in {name, "other"}
      <4>1. Over(r, w, Size(r))
        BY <1>0, <3>1, <3>9, OverTrans
      <4> QED
        BY <1>0, <3>1, <3>9, <4>1 DEF Over
    <3> QED
      BY <3>1, <3>4, <3>8, <3>9, <3>10 DEF w
  <2>8. (t \in D /\ t.how # "go") \/ \E s \in D : s.how = "go" /\ t \in DropBelow(s)
    BY <1>1, <1>5 DEF Then
  <2>9. \A s \in D : (s \in C /\ s.how # "go") \/ \E x \in C : x.how = "go" /\ s = stored(x)
    BY DEF Then
  <2> HIDE DEF D, stored
  <2>10. CASE t \in D /\ t.how # "go"
    <3>1. Fails(r, t)
      BY <2>6, <2>7, <2>9, <2>10
    <3> QED
      BY <3>1
  <2>11. ASSUME NEW s \in D, s.how = "go", t \in DropBelow(s)
         PROVE  Pushes(r, t, {name, "other"})
    <3>1. PICK x \in C : x.how = "go" /\ s = stored(x)
      BY <2>9, <2>11
    <3>2. /\ Over(r, s, Size(r)) /\ Size(s) = Size(r) + 2
          /\ At(s, Size(s)) \in {name, "other"}
      BY <2>7, <3>1
    <3> QED
      BY <1>3, <2>11, <3>2 DEF DropBelow
  <2> QED
    BY <2>8, <2>10, <2>11
<1> QED
  BY <1>4, <1>5

\* A function on top of the stack is called with one argument, or two.
LEMMA Call1 ==
    ASSUME NEW s, Going(s, 1), Size(s) - 1 >= s.base, NEW f, At(s, Size(s)) \in {f, "other"},
           NEW x \in Slots, NEW values \in SUBSET Slots,
           NEW u \in PCallChecked(Push(s, x), <<f, x>>, One(values))
    PROVE  Checked(s, u, 1, values)
<1> DEFINE c == Push(s, x)
<1>0. Clean(s) /\ s.how = "go" /\ Size(s) \in Nat /\ s.base \in Nat /\ LUA_MINSTACK \in Nat
      /\ Room(s, 1) /\ Size(s) + 1 <= s.base + LUA_MINSTACK
  BY Numbers DEF Going, Room
<1>1. /\ Over(s, c, Size(s)) /\ Size(c) = Size(s) + 1 /\ c.how = "go"
      /\ At(c, Size(c)) = x
  BY <1>0, PushIs
<1>2. u \in PCallChecked(c, <<f, x>>, One(values))
  OBVIOUS
<1> HIDE DEF c
<1>3. Clean(c) /\ Room(c, 0) /\ Size(c) - 2 >= c.base /\ At(c, Size(c) - 1) \in {f, "other"}
  <2>1. At(c, Size(s)) = At(s, Size(s))
    BY <1>0, <1>1 DEF Over
  <2> QED
    BY <1>0, <1>1, <2>1 DEF Over, Room
<1>4. Sound(c, 2, <<f, x>>)
  BY <1>1, <1>3, Sound2
<1>5. Checked(c, u, 2, values)
  BY <1>2, <1>4, PCallCheckedIs
<1>6. Over(s, u, Size(s) - 1)
  BY <1>0, <1>1, <1>5, OverTrans DEF Checked
<1> QED
  BY <1>0, <1>1, <1>5, <1>6 DEF Checked

LEMMA Call2 ==
    ASSUME NEW s, Going(s, 2), Size(s) - 1 >= s.base, NEW f, At(s, Size(s)) \in {f, "other"},
           NEW x \in Slots, NEW y \in Slots, NEW values \in SUBSET Slots,
           NEW u \in PCallChecked(Push(Push(s, x), y), <<f, x, y>>, One(values))
    PROVE  Checked(s, u, 1, values)
<1> DEFINE c == Push(Push(s, x), y)
<1>0. Clean(s) /\ s.how = "go" /\ Size(s) \in Nat /\ s.base \in Nat /\ LUA_MINSTACK \in Nat
      /\ Room(s, 2) /\ Size(s) + 2 <= s.base + LUA_MINSTACK
  BY Numbers DEF Going, Room
<1>1. /\ Over(s, c, Size(s)) /\ Size(c) = Size(s) + 2 /\ c.how = "go"
      /\ At(c, Size(s) + 1) = x /\ At(c, Size(s) + 2) = y
  BY <1>0, Push2Is
<1>2. u \in PCallChecked(c, <<f, x, y>>, One(values))
  OBVIOUS
<1> HIDE DEF c
<1>3. /\ Clean(c) /\ Room(c, 0) /\ Size(c) - 3 >= c.base /\ At(c, Size(c) - 2) \in {f, "other"}
      /\ At(c, Size(c) - 1) = x /\ At(c, Size(c)) = y
  <2>1. At(c, Size(s)) = At(s, Size(s))
    BY <1>0, <1>1 DEF Over
  <2>2. Size(c) - 2 = Size(s) /\ Size(c) - 1 = Size(s) + 1
    BY <1>0, <1>1
  <2> QED
    BY <1>0, <1>1, <2>1, <2>2 DEF Over, Room
<1>4. Sound(c, 3, <<f, x, y>>)
  BY <1>1, <1>3, Sound3
<1>5. Checked(c, u, 3, values)
  BY <1>2, <1>4, PCallCheckedIs
<1>6. Over(s, u, Size(s) - 1)
  BY <1>0, <1>1, <1>5, OverTrans DEF Checked
<1> QED
  BY <1>0, <1>1, <1>5, <1>6 DEF Checked

\* What follows from a contract, for the run that goes on.
LEMMA PushedIs ==
    ASSUME NEW r, NEW values, NEW s, Pushes(r, s, values), Clean(r)
    PROVE  /\ Clean(s) /\ s.how = "go" /\ s.base = r.base /\ s.done = r.done
           /\ Over(r, s, Size(r))
           /\ Size(s) = Size(r) + 1 /\ At(s, Size(s)) \in values
           /\ Size(r) \in Nat /\ r.base \in Nat /\ LUA_MINSTACK \in Nat
           /\ Size(r) >= r.base /\ Size(s) - 1 >= s.base
<1>1. /\ Clean(s) /\ s.how = "go" /\ s.base = r.base /\ s.done = r.done /\ Over(r, s, Size(r))
      /\ Size(s) = Size(r) + 1 /\ At(s, Size(s)) \in values
  BY DEF Pushes, Over
<1>2. Size(r) \in Nat /\ r.base \in Nat /\ LUA_MINSTACK \in Nat /\ Size(r) >= r.base
  BY Numbers
<1> QED
  BY <1>1, <1>2

\* A slot of a run is one of the slots, and is there in the runs that came of it.
LEMMA SlotIs ==
    ASSUME NEW r, Clean(r), NEW at \in 1..Size(r)
    PROVE  At(r, at) \in Slots /\ r.st[at] = At(r, at)
<1>1. r.st \in Seq(Slots) /\ at \in 1..Len(r.st)
  BY CleanIs DEF Size
<1> QED
  BY <1>1 DEF At

\* get_field_protected.
LEMMA GetFieldProtectedIs ==
    ASSUME NEW r, Going(r, 4), NEW at \in 1..Size(r),
           NEW t \in GetFieldProtected(r, at, At(r, at))
    PROVE  Pushes(r, t, {"function", "other"}) \/ Fails(r, t)
<1> DEFINE object == At(r, at)
           chunk == PushRegistryChunk(r, "get_field")
<1>0. /\ Clean(r) /\ Size(r) \in Nat /\ r.base \in Nat /\ LUA_MINSTACK \in Nat
      /\ Size(r) + 4 <= r.base + LUA_MINSTACK /\ object \in Slots /\ "string" \in Slots
      /\ {"function", "other"} \in SUBSET Slots
  BY Numbers, SlotIs DEF Going, Room, Slots
<1>1. \/ t \in chunk /\ t.how # "go"
      \/ \E s \in chunk : /\ s.how = "go"
                          /\ t \in PCallChecked(Push(Push(s, s.st[at]), "string"),
                                      <<"get_field", object, "string">>, One({"function", "other"}))
  BY DEF GetFieldProtected, Then
<1>2. \A s \in chunk : Pushes(r, s, {"get_field", "other"}) \/ Fails(r, s)
  BY ChunkIs
<1> HIDE DEF chunk
<1>3. CASE t \in chunk /\ t.how # "go"
  BY <1>2, <1>3 DEF Pushes
<1>4. ASSUME NEW s \in chunk, s.how = "go",
             t \in PCallChecked(Push(Push(s, s.st[at]), "string"),
                                <<"get_field", object, "string">>, One({"function", "other"}))
      PROVE  Pushes(r, t, {"function", "other"}) \/ Fails(r, t)
  <2>1. Pushes(r, s, {"get_field", "other"})
    BY <1>2, <1>4 DEF Fails
  <2>2. /\ Clean(s) /\ s.base = r.base /\ Over(r, s, Size(r)) /\ Size(s) = Size(r) + 1
        /\ At(s, Size(s)) \in {"get_field", "other"} /\ Size(s) - 1 >= s.base
    BY <1>0, <2>1, PushedIs
  <2>3. s.st[at] = object
    BY <1>0, <2>2 DEF Over, At
  <2>4. Going(s, 2)
    BY <1>0, <1>4, <2>2 DEF Going, Room
  <2>5. Checked(s, t, 1, {"function", "other"})
    <3>1. t \in PCallChecked(Push(Push(s, object), "string"),
                             <<"get_field", object, "string">>, One({"function", "other"}))
      BY <1>4, <2>3
    <3> HIDE DEF object
    <3> QED
      BY <1>0, <2>2, <2>4, <3>1, Call2
  <2>6. Over(r, t, Size(r))
    BY <1>0, <2>2, <2>5, OverTrans DEF Checked
  <2> QED
    BY <1>0, <2>2, <2>5, <2>6 DEF Checked, Pushes, Fails, Leaves
<1> QED
  BY <1>1, <1>3, <1>4

\* invoke_entity_method; only what holds an entity is asked.
LEMMA InvokeIs ==
    ASSUME NEW r, Going(r, 4), NEW at \in 1..Size(r), NEW values \in SUBSET Slots,
           NEW t \in InvokeEntityMethod(r, at, values)
    PROVE  \/ Restores(r, t, "no")
           \/ Pushes(r, t, values) /\ At(r, at) \in {"entity", "parent"}
           \/ Fails(r, t)
<1> DEFINE object == At(r, at)
           field == GetFieldProtected(r, at, object)
           call(s) == IF ~Is(s, "function") THEN {End(Pop(s, 1), "no")}
                      ELSE PCallChecked(Push(s, s.st[at]), <<"function", object>>, One(values))
<1>0. /\ Clean(r) /\ Size(r) \in Nat /\ r.base \in Nat /\ LUA_MINSTACK \in Nat
      /\ Size(r) + 4 <= r.base + LUA_MINSTACK /\ object \in Slots /\ r.st[at] = object
      /\ Size(r) >= r.base
  BY Numbers, SlotIs DEF Going, Room
<1>1. CASE object \notin {"entity", "parent"}
  <2>1. t = End(r, "no") /\ "no" \in Hows
    BY <1>0, <1>1 DEF InvokeEntityMethod, Hows
  <2> QED
    BY <1>0, <2>1, EndIs DEF Restores
<1>2. CASE object \in {"entity", "parent"}
  <2>1. \/ t \in field /\ t.how # "go"
        \/ \E s \in field : s.how = "go" /\ t \in call(s)
    BY <1>0, <1>2 DEF InvokeEntityMethod, Then
  <2>2. \A s \in field : Pushes(r, s, {"function", "other"}) \/ Fails(r, s)
    BY GetFieldProtectedIs
  <2> HIDE DEF field
  <2>3. CASE t \in field /\ t.how # "go"
    BY <2>2, <2>3 DEF Pushes
  <2>4. ASSUME NEW s \in field, s.how = "go", t \in call(s)
        PROVE  Restores(r, t, "no") \/ Pushes(r, t, values) \/ Fails(r, t)
    <3>1. Pushes(r, s, {"function", "other"})
      BY <2>2, <2>4 DEF Fails
    <3>2. /\ Clean(s) /\ s.base = r.base /\ Over(r, s, Size(r)) /\ Size(s) = Size(r) + 1
          /\ At(s, Size(s)) \in {"function", "other"} /\ Size(s) - 1 >= s.base
      BY <1>0, <3>1, PushedIs
    <3>3. CASE ~Is(s, "function")
      <4> DEFINE p == Pop(s, 1)
      <4>1. Over(s, p, Size(r)) /\ Size(p) = Size(r)
        BY <1>0, <3>2, PopIs
      <4>2. Clean(p) /\ "no" \in Hows /\ t = End(p, "no")
        BY <2>4, <3>3, <4>1 DEF Over, Hows
      <4>3. Over(p, t, Size(p)) /\ t.how = "no" /\ Size(t) = Size(p)
        BY <4>2, EndIs
      <4> HIDE DEF p
      <4>4. Over(r, p, Size(r))
        BY <1>0, <3>2, <4>1, OverTrans
      <4>5. Over(r, t, Size(r))
        BY <1>0, <4>1, <4>3, <4>4, OverTrans
      <4> QED
        BY <4>1, <4>3, <4>5 DEF Restores
    <3>4. CASE Is(s, "function")
      <4>1. s.st[at] = object
        BY <1>0, <3>2 DEF Over, At
      <4>2. Going(s, 1) /\ At(s, Size(s)) \in {"function", "other"}
        BY <1>0, <2>4, <3>2 DEF Going, Room
      <4>3. t \in PCallChecked(Push(s, object), <<"function", object>>, One(values))
        BY <2>4, <3>4, <4>1
      <4> HIDE DEF object
      <4>4. Checked(s, t, 1, values)
        BY <1>0, <3>2, <4>2, <4>3, Call1
      <4>5. Over(r, t, Size(r))
        BY <1>0, <3>2, <4>4, OverTrans DEF Checked
      <4> QED
        BY <1>0, <3>2, <4>4, <4>5 DEF Checked, Pushes, Fails, Leaves
    <3> QED
      BY <3>3, <3>4
  <2> QED
    BY <1>2, <2>1, <2>3, <2>4
<1> QED
  BY <1>1, <1>2

\* What has been left above the slots r had is popped, and the helper ends.
LEMMA PoppedIs ==
    ASSUME NEW r, NEW s, Clean(r), Over(r, s, Size(r)), NEW n \in Nat, Size(s) - n >= Size(r)
    PROVE  /\ Over(r, Pop(s, n), Size(r)) /\ Pop(s, n).how = s.how
           /\ Size(Pop(s, n)) = Size(s) - n
<1>0. /\ Size(r) \in Nat /\ Size(r) >= r.base /\ Clean(s) /\ Size(s) \in Nat
      /\ s.base = r.base /\ r.base \in Nat
  BY Numbers DEF Over
<1>1. /\ Over(s, Pop(s, n), Size(s) - n) /\ Pop(s, n).how = s.how
      /\ Size(Pop(s, n)) = Size(s) - n
  BY <1>0, PopIs
<1> QED
  BY <1>0, <1>1, OverTrans

LEMMA EndedIs ==
    ASSUME NEW r, NEW s, Clean(r), Over(r, s, Size(r)), NEW how \in Hows
    PROVE  /\ Over(r, End(s, how), Size(r)) /\ End(s, how).how = how
           /\ Size(End(s, how)) = Size(s)
<1>0. Size(r) \in Nat /\ Clean(s) /\ Size(s) \in Nat /\ Size(r) <= Size(s)
  BY Numbers DEF Over
<1>1. Over(s, End(s, how), Size(s)) /\ End(s, how).how = how /\ Size(End(s, how)) = Size(s)
  BY <1>0, EndIs
<1> QED
  BY <1>0, <1>1, OverTrans

LEMMA PopEndedIs ==
    ASSUME NEW r, NEW s, Clean(r), Over(r, s, Size(r)), NEW n \in Nat, Size(s) - n >= Size(r),
           NEW how \in Hows
    PROVE  /\ Over(r, End(Pop(s, n), how), Size(r)) /\ End(Pop(s, n), how).how = how
           /\ Size(End(Pop(s, n), how)) = Size(s) - n
<1>1. Over(r, Pop(s, n), Size(r)) /\ Size(Pop(s, n)) = Size(s) - n
  BY PoppedIs
<1> QED
  BY <1>1, EndedIs

LEMMA TopIs ==
    ASSUME NEW s, Clean(s), NEW x
    PROVE  Is(s, x) <=> Size(s) > 0 /\ At(s, Size(s)) = x
  BY DEF Is, Top, At, Size

\* try_get_entity_number and its like: FALSE may leave a slot behind, what stood below
\* the value that raised.
Tried(r, t) ==
    \/ Restores(r, t, "go")
    \/ t.how = "no" /\ Leaves(r, t, 1)
    \/ t.how = "raised" /\ Leaves(r, t, 2)

LEMMA TryGetIs ==
    ASSUME NEW r, Going(r, 4), NEW at \in 1..Size(r), NEW type \in Slots,
           NEW t \in TryGet(r, at, type)
    PROVE  Tried(r, t) /\ (t.how = "go" => At(r, at) \in {"entity", "parent"})
<1> DEFINE invoked == InvokeEntityMethod(r, at, {type, "other"})
           got(s) == {IF Is(s, type) THEN Pop(s, 1) ELSE End(Pop(s, 1), "no")}
           runs == Then(invoked, got)
<1>0. /\ Clean(r) /\ Size(r) \in Nat /\ {type, "other"} \in SUBSET Slots
      /\ "no" \in Hows
  BY Numbers DEF Going, Slots, Hows
<1>1. \A s \in invoked : \/ Restores(r, s, "no")
                         \/ Pushes(r, s, {type, "other"}) /\ At(r, at) \in {"entity", "parent"}
                         \/ Fails(r, s)
  BY <1>0, InvokeIs
<1>2. PICK u \in runs : t = IF u.how = "thrown" THEN End(u, "no") ELSE u
  BY DEF TryGet, Caught
<1>3. (u \in invoked /\ u.how # "go") \/ \E s \in invoked : s.how = "go" /\ u \in got(s)
  BY <1>2 DEF Then
<1> HIDE DEF invoked, runs
<1>4. CASE u \in invoked /\ u.how # "go"
  <2>1. CASE u.how = "thrown"
    <3>1. Over(r, u, Size(r)) /\ Size(u) <= Size(r) + 1
      BY <1>1, <1>4, <2>1 DEF Restores, Pushes, Fails, Leaves
    <3>2. Over(r, t, Size(r)) /\ t.how = "no" /\ Size(t) = Size(u)
      BY <1>0, <1>2, <2>1, <3>1, EndedIs
    <3> QED
      BY <3>1, <3>2 DEF Tried, Leaves
  <2>2. CASE u.how # "thrown"
    BY <1>0, <1>1, <1>2, <1>4, <2>2 DEF Restores, Pushes, Fails, Leaves, Tried
  <2> QED
    BY <2>1, <2>2
<1>5. ASSUME NEW s \in invoked, s.how = "go", u \in got(s)
      PROVE  Tried(r, t) /\ (t.how = "go" => At(r, at) \in {"entity", "parent"})
  <2>1. Pushes(r, s, {type, "other"}) /\ At(r, at) \in {"entity", "parent"}
    BY <1>1, <1>5 DEF Restores, Fails
  <2>2. Clean(s) /\ Over(r, s, Size(r)) /\ Size(s) = Size(r) + 1
    BY <1>0, <2>1, PushedIs
  <2>3. CASE Is(s, type)
    <3>1. Over(r, u, Size(r)) /\ u.how = "go" /\ Size(u) = Size(r)
      BY <1>0, <1>5, <2>2, <2>3, PoppedIs
    <3> QED
      BY <1>2, <2>1, <3>1 DEF Tried, Restores
  <2>4. CASE ~Is(s, type)
    <3>1. Over(r, u, Size(r)) /\ u.how = "no" /\ Size(u) = Size(r)
      BY <1>0, <1>5, <2>2, <2>4, PopEndedIs
    <3> QED
      BY <1>0, <1>2, <2>1, <3>1 DEF Tried, Leaves
  <2> QED
    BY <2>3, <2>4
<1> QED
  BY <1>3, <1>4, <1>5

\* push_ents_table and push_entity_by_index.
LEMMA EntityByIndexIs ==
    ASSUME NEW r, Going(r, 4), NEW t \in PushEntityByIndex(r)
    PROVE  \/ Pushes(r, t, {"entity", "other"})
           \/ t.how = "no" /\ Leaves(r, t, 1)
           \/ Fails(r, t)
<1> DEFINE globals == Push(r, "globals")
           table == GetField(globals, {"ents", "other"})
           found(s) == IF Is(s, "ents") THEN {RemoveSecond(s)} ELSE {End(Pop(s, 2), "no")}
           ents == Then(table, found)
           ask(s) == GetField(s, {"function", "other"})
           method == Then(ents, ask)
           call(s) == IF ~Is(s, "function") THEN {End(PopMethod(s), "no")}
                      ELSE PCallChecked(Push(s, "number"), <<"function", "number">>,
                                        One({"entity", "nil", "other"}))
           got == Then(method, call)
           kept(s) == {IF Is(RemoveSecond(s), "nil") THEN End(RemoveSecond(s), "no")
                       ELSE RemoveSecond(s)}
<1>0. /\ Clean(r) /\ r.how = "go" /\ Size(r) \in Nat /\ r.base \in Nat /\ Size(r) >= r.base
      /\ LUA_MINSTACK \in Nat /\ Size(r) + 4 <= r.base + LUA_MINSTACK /\ Room(r, 1)
      /\ "no" \in Hows /\ "number" \in Slots /\ "globals" \in Slots
      /\ {"ents", "other"} \in SUBSET Slots /\ {"function", "other"} \in SUBSET Slots
      /\ {"entity", "nil", "other"} \in SUBSET Slots
  BY Numbers DEF Going, Room, Hows, Slots
<1>1. (t \in got /\ t.how # "go") \/ \E s \in got : s.how = "go" /\ t \in kept(s)
  BY DEF PushEntityByIndex, Then
<1>2. \A s \in got : \/ s \in method /\ s.how # "go"
                     \/ \E x \in method : x.how = "go" /\ s \in call(x)
  BY DEF Then
<1>3. \A s \in method : \/ s \in ents /\ s.how # "go"
                        \/ \E x \in ents : x.how = "go" /\ s \in ask(x)
  BY DEF Then
<1>4. \A s \in ents : \/ s \in table /\ s.how # "go"
                      \/ \E x \in table : x.how = "go" /\ s \in found(x)
  BY DEF Then
<1> HIDE DEF got, method, ents
\* What ends early leaves at most two slots if it raises, none if it finds nothing.
<1> DEFINE Early(s) == \/ Restores(r, s, "no")
                       \/ Fails(r, s)
<1>5. /\ Over(r, globals, Size(r)) /\ Size(globals) = Size(r) + 1 /\ Clean(globals)
      /\ globals.base = r.base /\ Going(globals, 3)
  <2>1. /\ Over(r, globals, Size(r)) /\ Size(globals) = Size(r) + 1 /\ globals.how = "go"
    BY <1>0, PushIs
  <2> QED
    BY <1>0, <2>1 DEF Over, Going, Room
<1> HIDE DEF globals
<1>6. ASSUME NEW s \in table
      PROVE  /\ Over(r, s, Size(r)) /\ Clean(s) /\ s.base = r.base
             /\ \/ s.how = "raised" /\ Size(s) = Size(r) + 1
                \/ s.how = "go" /\ Size(s) = Size(r) + 2
  <2>1. Going(globals, 1)
    BY <1>0, <1>5 DEF Going, Room
  <2>2. Pushes(globals, s, {"ents", "other"}) \/ Restores(globals, s, "raised")
    BY <1>0, <2>1, GetFieldIs
  <2>3. /\ Over(globals, s, Size(globals))
        /\ \/ s.how = "raised" /\ Size(s) = Size(r) + 1
           \/ s.how = "go" /\ Size(s) = Size(r) + 2
    BY <1>0, <1>5, <2>2 DEF Pushes, Restores
  <2>4. Over(r, s, Size(r))
    BY <1>0, <1>5, <2>3, OverTrans
  <2> QED
    BY <2>3, <2>4 DEF Over
<1> HIDE DEF table
<1>7. ASSUME NEW s \in ents
      PROVE  Early(s) \/ (Over(r, s, Size(r)) /\ s.how = "go" /\ Size(s) = Size(r) + 1)
  <2>1. CASE s \in table /\ s.how # "go"
    BY <1>0, <1>6, <2>1 DEF Fails, Leaves
  <2>2. ASSUME NEW x \in table, x.how = "go", s \in found(x)
        PROVE  Early(s) \/ (Over(r, s, Size(r)) /\ s.how = "go" /\ Size(s) = Size(r) + 1)
    <3>1. Over(r, x, Size(r)) /\ Clean(x) /\ x.base = r.base /\ Size(x) = Size(r) + 2
      BY <1>6, <2>2
    <3>2. CASE Is(x, "ents")
      <4>1. s = RemoveSecond(x) /\ Size(x) - 2 >= x.base
        BY <1>0, <2>2, <3>1, <3>2
      <4>2. Over(x, s, Size(x) - 2) /\ s.how = "go" /\ Size(s) = Size(x) - 1
        BY <2>2, <3>1, <4>1, RemoveSecondIs
      <4>3. Over(r, s, Size(r))
        BY <1>0, <3>1, <4>2, OverTrans
      <4> QED
        BY <1>0, <3>1, <4>2, <4>3
    <3>3. CASE ~Is(x, "ents")
      <4>1. Over(r, s, Size(r)) /\ s.how = "no" /\ Size(s) = Size(r)
        BY <1>0, <2>2, <3>1, <3>3, PopEndedIs
      <4> QED
        BY <4>1 DEF Restores
    <3> QED
      BY <3>2, <3>3
  <2> QED
    BY <1>4, <2>1, <2>2
<1>8. ASSUME NEW s \in method
      PROVE  Early(s) \/ (Over(r, s, Size(r)) /\ s.how = "go" /\ Size(s) = Size(r) + 2
                          /\ At(s, Size(s)) \in {"function", "other"})
  <2>1. CASE s \in ents /\ s.how # "go"
    BY <1>7, <2>1
  <2>2. ASSUME NEW x \in ents, x.how = "go", s \in ask(x)
        PROVE  Early(s) \/ (Over(r, s, Size(r)) /\ s.how = "go" /\ Size(s) = Size(r) + 2
                            /\ At(s, Size(s)) \in {"function", "other"})
    <3>1. Over(r, x, Size(r)) /\ Size(x) = Size(r) + 1
      BY <1>7, <2>2 DEF Restores, Fails
    <3>2. Going(x, 1)
      BY <1>0, <2>2, <3>1 DEF Going, Room, Over
    <3>3. Pushes(x, s, {"function", "other"}) \/ Restores(x, s, "raised")
      BY <1>0, <2>2, <3>2, GetFieldIs
    <3>4. Over(r, s, Size(r))
      BY <1>0, <3>1, <3>3, OverTrans DEF Pushes, Restores
    <3> QED
      BY <1>0, <3>1, <3>3, <3>4 DEF Pushes, Restores, Fails, Leaves
  <2> QED
    BY <1>3, <2>1, <2>2
<1>9. ASSUME NEW s \in got
      PROVE  Early(s) \/ (Over(r, s, Size(r)) /\ s.how = "go" /\ Size(s) = Size(r) + 2
                          /\ At(s, Size(s)) \in {"entity", "nil", "other"})
  <2>1. CASE s \in method /\ s.how # "go"
    BY <1>8, <2>1
  <2>2. ASSUME NEW x \in method, x.how = "go", s \in call(x)
        PROVE  Early(s) \/ (Over(r, s, Size(r)) /\ s.how = "go" /\ Size(s) = Size(r) + 2
                            /\ At(s, Size(s)) \in {"entity", "nil", "other"})
    <3>1. /\ Over(r, x, Size(r)) /\ Size(x) = Size(r) + 2
          /\ At(x, Size(x)) \in {"function", "other"}
      BY <1>8, <2>2 DEF Restores, Fails
    <3>2. CASE ~Is(x, "function")
      <4>1. s = End(Pop(x, 2), "no")
        BY <2>2, <3>2 DEF PopMethod
      <4>2. Over(r, s, Size(r)) /\ s.how = "no" /\ Size(s) = Size(r)
        BY <1>0, <3>1, <4>1, PopEndedIs
      <4> QED
        BY <4>2 DEF Restores
    <3>3. CASE Is(x, "function")
      <4>1. Going(x, 1) /\ Size(x) - 1 >= x.base
        BY <1>0, <2>2, <3>1 DEF Going, Room, Over
      <4>2. s \in PCallChecked(Push(x, "number"), <<"function", "number">>,
                               One({"entity", "nil", "other"}))
        BY <2>2, <3>3
      <4>3. Checked(x, s, 1, {"entity", "nil", "other"})
        BY <1>0, <3>1, <4>1, <4>2, Call1
      <4>4. Over(r, s, Size(r))
        BY <1>0, <3>1, <4>3, OverTrans DEF Checked
      <4> QED
        BY <1>0, <3>1, <4>3, <4>4 DEF Checked, Fails, Leaves
    <3> QED
      BY <3>2, <3>3
  <2> QED
    BY <1>2, <2>1, <2>2
<1>10. CASE t \in got /\ t.how # "go"
  BY <1>0, <1>9, <1>10 DEF Restores, Leaves
<1>11. ASSUME NEW s \in got, s.how = "go", t \in kept(s)
       PROVE  Pushes(r, t, {"entity", "other"}) \/ (t.how = "no" /\ Leaves(r, t, 1))
  <2> DEFINE e == RemoveSecond(s)
  <2>1. /\ Over(r, s, Size(r)) /\ Size(s) = Size(r) + 2 /\ Clean(s) /\ s.base = r.base
        /\ At(s, Size(s)) \in {"entity", "nil", "other"}
    BY <1>9, <1>11 DEF Restores, Fails, Over
  <2>2. Size(s) - 2 >= s.base
    BY <1>0, <2>1
  <2>3. /\ Over(s, e, Size(s) - 2) /\ e.how = "go" /\ Size(e) = Size(s) - 1
        /\ At(e, Size(s) - 1) = At(s, Size(s))
    BY <1>11, <2>1, <2>2, RemoveSecondIs
  <2>4. t = IF Is(e, "nil") THEN End(e, "no") ELSE e
    BY <1>11
  <2> HIDE DEF e
  <2>5. Over(r, e, Size(r)) /\ Size(e) = Size(r) + 1 /\ Clean(e)
    BY <1>0, <2>1, <2>3, OverTrans DEF Over
  <2>6. CASE Is(e, "nil")
    <3>1. Over(r, t, Size(r)) /\ t.how = "no" /\ Size(t) = Size(r) + 1
      BY <1>0, <2>4, <2>5, <2>6, EndedIs
    <3> QED
      BY <1>0, <3>1 DEF Leaves
  <2>7. CASE ~Is(e, "nil")
    <3>1. At(e, Size(e)) # "nil" /\ Size(e) > 0
      BY <1>0, <2>5, <2>7, TopIs
    <3> QED
      BY <2>1, <2>3, <2>4, <2>5, <2>7, <3>1 DEF Pushes
  <2> QED
    BY <2>6, <2>7
<1> QED
  BY <1>1, <1>10, <1>11

-----------------------------------------------------------------------------
(* The queries.                                                            *)

\* The helper was left early, at most n slots on the stack.
Lost(r, t, n) == t.how \in {"no", "thrown", "raised"} /\ Leaves(r, t, n)

\* What a query ends in: a way to leave it, and nothing set.
Asks(r, t) == Over(r, t, Size(r)) /\ t.how \in {"go", "no", "thrown", "raised"}

\* The same for what a helper does to a run that r came to.
LEMMA LeavesTrans ==
    ASSUME NEW r, NEW s, NEW t, NEW m \in Nat, NEW n \in Nat, Clean(r),
           Leaves(r, s, m), Leaves(s, t, n)
    PROVE  Leaves(r, t, m + n)
<1>1. Size(r) \in Nat /\ Size(s) \in Nat /\ Size(t) \in Nat
  BY Numbers DEF Leaves, Over
<1>2. Over(r, s, Size(r)) /\ Over(s, t, Size(s)) /\ Size(r) <= Size(s)
  BY DEF Leaves, Over
<1>3. Over(r, t, Size(r))
  BY <1>1, <1>2, OverTrans
<1> QED
  BY <1>1, <1>3 DEF Leaves

\* Runs that have asked of an entity, with at most n slots left over, and one that asks on.
Asked(r, t, n) ==
    \/ t.how \in {"go", "no"} /\ Leaves(r, t, n)
    \/ t.how = "raised" /\ Leaves(r, t, n + 1)

LEMMA AskIs ==
    ASSUME NEW r, Clean(r), NEW n \in Nat, Room(r, n + 4), NEW at \in 1..Size(r),
           NEW type \in Slots, NEW s, Asked(r, s, n), s.how = "go",
           NEW t \in TryGet(s, at, type)
    PROVE  Asked(r, t, n + 1)
<1>0. /\ Size(r) \in Nat /\ r.base \in Nat /\ LUA_MINSTACK \in Nat
      /\ Size(r) + (n + 4) <= r.base + LUA_MINSTACK
  BY Numbers DEF Room
<1>1. Leaves(r, s, n) /\ Clean(s) /\ s.base = r.base /\ Size(s) \in Nat /\ Size(r) <= Size(s)
      /\ Size(s) <= Size(r) + n
  <2>1. Leaves(r, s, n)
    BY DEF Asked
  <2>2. Clean(s) /\ s.base = r.base /\ Size(r) <= Size(s) /\ Size(s) <= Size(r) + n
    BY <2>1 DEF Leaves, Over
  <2> QED
    BY <2>1, <2>2, Numbers
<1>2. Going(s, 4) /\ at \in 1..Size(s)
  BY <1>0, <1>1 DEF Going, Room
<1>3. Tried(s, t)
  BY <1>2, TryGetIs
<1>4. CASE t.how # "raised"
  <2>1. Leaves(s, t, 1) /\ t.how \in {"go", "no"}
    BY <1>1, <1>3, <1>4 DEF Tried, Leaves, Restores
  <2> QED
    BY <1>1, <2>1, LeavesTrans DEF Asked
<1>5. CASE t.how = "raised"
  <2>1. Leaves(s, t, 2)
    BY <1>3, <1>5 DEF Tried, Restores
  <2>2. Leaves(r, t, n + 2) /\ n + 2 = (n + 1) + 1
    BY <1>1, <2>1, LeavesTrans
  <2> QED
    BY <1>5, <2>2 DEF Asked
<1> QED
  BY <1>4, <1>5

\* FALSE is taken for an answer.
LEMMA RegardlessIs ==
    ASSUME NEW r, Clean(r), NEW n \in Nat, NEW runs, \A s \in runs : Asked(r, s, n),
           NEW t \in Regardless(runs)
    PROVE  Asked(r, t, n) /\ t.how # "no"
<1>1. PICK s \in runs : t = IF s.how = "no" THEN End(s, "go") ELSE s
  BY DEF Regardless
<1>2. CASE s.how = "no"
  <2>1. Over(r, s, Size(r)) /\ Size(s) <= Size(r) + n /\ "go" \in Hows
    BY <1>2 DEF Asked, Leaves, Hows
  <2>2. Over(r, t, Size(r)) /\ t.how = "go" /\ Size(t) = Size(s)
    BY <1>1, <1>2, <2>1, EndedIs
  <2> QED
    BY <2>1, <2>2 DEF Asked, Leaves
<1>3. CASE s.how # "no"
  BY <1>1, <1>3
<1> QED
  BY <1>2, <1>3

\* build_entity_summary: seven slots at most.
LEMMA SummaryIs ==
    ASSUME NEW r, Going(r, 10), NEW at \in 1..Size(r), NEW t \in BuildSummary(r, at)
    PROVE  Asked(r, t, 6) /\ t.how # "no"
<1> DEFINE ask(runs, type) == Then(runs, LAMBDA s : Regardless(TryGet(s, at, type)))
           number == ask({r}, "number")
           valid == Then(number, LAMBDA s : IsValid(s, at))
           name == ask(valid, "string")
           model == ask(name, "string")
           place == ask(model, "vector")
           turn == ask(place, "angle")
<1>0. /\ Clean(r) /\ r.how = "go" /\ Size(r) \in Nat /\ r.base \in Nat /\ LUA_MINSTACK \in Nat
      /\ Size(r) + 10 <= r.base + LUA_MINSTACK
      /\ {"number", "true", "string", "vector", "angle"} \subseteq Slots
  BY Numbers DEF Going, Room, Slots
<1>1. Asked(r, r, 0)
  <2>1. Over(r, r, Size(r))
    BY <1>0, OverSelf
  <2> QED
    BY <1>0, <2>1 DEF Asked, Leaves
<1>2. ASSUME NEW runs, NEW n \in 0..5, \A s \in runs : Asked(r, s, n), NEW type \in Slots
      PROVE  \A s \in ask(runs, type) : Asked(r, s, n + 1)
  <2> SUFFICES ASSUME NEW u \in ask(runs, type)
               PROVE  Asked(r, u, n + 1)
    OBVIOUS
  <2>1. \/ u \in runs /\ u.how # "go"
        \/ \E s \in runs : s.how = "go" /\ u \in Regardless(TryGet(s, at, type))
    BY DEF Then
  <2>2. CASE u \in runs /\ u.how # "go"
    <3>1. Asked(r, u, n) /\ Size(r) \in Nat
      BY <1>0, <1>2, <2>2
    <3>2. Size(u) \in Nat
      BY <3>1, Numbers DEF Asked, Leaves, Over
    <3> QED
      BY <3>1, <3>2 DEF Asked, Leaves
  <2>3. ASSUME NEW s \in runs, s.how = "go", u \in Regardless(TryGet(s, at, type))
        PROVE  Asked(r, u, n + 1)
    <3>1. Asked(r, s, n) /\ n \in Nat /\ n + 1 \in Nat /\ Room(r, n + 4)
      BY <1>0, <1>2, <2>3 DEF Room
    <3>2. \A x \in TryGet(s, at, type) : Asked(r, x, n + 1)
      BY <1>0, <2>3, <3>1, AskIs
    <3> QED
      BY <1>0, <2>3, <3>1, <3>2, RegardlessIs
  <2> QED
    BY <2>1, <2>2, <2>3
<1>3. t = r \/ t \in Regardless(turn)
  BY DEF BuildSummary
<1> HIDE DEF ask
<1>4. \A s \in number : Asked(r, s, 1)
  BY <1>0, <1>1, <1>2
<1>5. \A s \in valid : Asked(r, s, 2)
  <2> SUFFICES ASSUME NEW u \in valid
               PROVE  Asked(r, u, 2)
    OBVIOUS
  <2>1. \/ u \in number /\ u.how # "go"
        \/ \E s \in number : s.how = "go" /\ u \in TryGet(s, at, "true")
    BY DEF Then, IsValid
  <2> HIDE DEF number
  <2>2. CASE u \in number /\ u.how # "go"
    <3>1. Asked(r, u, 1) /\ Size(r) \in Nat
      BY <1>0, <1>4, <2>2
    <3>2. Size(u) \in Nat
      BY <3>1, Numbers DEF Asked, Leaves, Over
    <3> QED
      BY <3>1, <3>2 DEF Asked, Leaves
  <2>3. ASSUME NEW s \in number, s.how = "go", u \in TryGet(s, at, "true")
        PROVE  Asked(r, u, 2)
    <3>1. Asked(r, s, 1) /\ Room(r, 1 + 4) /\ 1 \in Nat /\ 1 + 1 = 2 /\ "true" \in Slots
      BY <1>0, <1>4, <2>3 DEF Room
    <3> QED
      BY <1>0, <2>3, <3>1, AskIs
  <2> QED
    BY <2>1, <2>2, <2>3
<1> HIDE DEF number, valid
<1>6. \A s \in name : Asked(r, s, 3)
  BY <1>0, <1>2, <1>5
<1> HIDE DEF name
<1>7. \A s \in model : Asked(r, s, 4)
  BY <1>0, <1>2, <1>6
<1> HIDE DEF model
<1>8. \A s \in place : Asked(r, s, 5)
  BY <1>0, <1>2, <1>7
<1> HIDE DEF place
<1>9. \A s \in turn : Asked(r, s, 6)
  BY <1>0, <1>2, <1>8
<1> HIDE DEF turn
<1>10. CASE t = r
  BY <1>0, <1>1, <1>10 DEF Asked, Leaves
<1>11. CASE t \in Regardless(turn)
  BY <1>0, <1>9, <1>11, RegardlessIs
<1> QED
  BY <1>3, <1>10, <1>11

\* GetParent, and what is asked of the parent.
LEMMA ParentIs ==
    ASSUME NEW r, Going(r, 6), NEW at \in 1..Size(r), NEW t \in AskParent(r, at)
    PROVE  t.how \in {"go", "raised"} /\ Leaves(r, t, 2)
<1> DEFINE invoked == InvokeEntityMethod(r, at, {"parent", "nil", "other"})
           asked(s) == Then(IsValid(s, Len(s.st)), LAMBDA u : TryGet(u, Len(s.st), "number"))
           popped(s) == {Pop(u, 1) : u \in Regardless(IF Is(s, "parent") THEN asked(s) ELSE {s})}
           all == Then(invoked, popped)
<1>0. /\ Clean(r) /\ r.how = "go" /\ Size(r) \in Nat /\ r.base \in Nat /\ LUA_MINSTACK \in Nat
      /\ Size(r) + 6 <= r.base + LUA_MINSTACK /\ Going(r, 4)
      /\ {"parent", "nil", "other"} \in SUBSET Slots
      /\ "number" \in Slots /\ "true" \in Slots /\ "go" \in Hows /\ "no" \in Hows
  BY Numbers DEF Going, Room, Slots, Hows
<1>1. \A s \in invoked : \/ Restores(r, s, "no")
                         \/ Pushes(r, s, {"parent", "nil", "other"})
                         \/ Fails(r, s)
  BY <1>0, InvokeIs
<1>2. PICK c \in Caught(all) : t = IF c.how = "no" THEN End(c, "go") ELSE c
  BY DEF AskParent, Regardless
<1>3. PICK u \in all : c = IF u.how = "thrown" THEN End(u, "no") ELSE u
  BY DEF Caught
<1>4. (u \in invoked /\ u.how # "go") \/ \E s \in invoked : s.how = "go" /\ u \in popped(s)
  BY DEF Then
<1> HIDE DEF invoked, all
<1>5. ASSUME NEW s \in invoked, s.how = "go", u \in popped(s)
      PROVE  u.how \in {"go", "raised"} /\ Leaves(r, u, 2)
  <2>1. Pushes(r, s, {"parent", "nil", "other"})
    BY <1>1, <1>5 DEF Restores, Fails
  <2>2. /\ Clean(s) /\ s.base = r.base /\ Over(r, s, Size(r)) /\ Size(s) = Size(r) + 1
    BY <1>0, <2>1, PushedIs
  <2>3. Going(s, 5) /\ Len(s.st) \in 1..Size(s) /\ Len(s.st) = Size(s)
    BY <1>0, <1>5, <2>2 DEF Going, Room, Size
  <2>4. PICK v \in Regardless(IF Is(s, "parent") THEN asked(s) ELSE {s}) : u = Pop(v, 1)
    BY <1>5
  <2>5. PICK w \in (IF Is(s, "parent") THEN asked(s) ELSE {s}) :
            v = IF w.how = "no" THEN End(w, "go") ELSE w
    BY <2>4 DEF Regardless
  <2>6. Tried(s, w)
    <3>1. CASE w = s
      <4>1. Over(s, s, Size(s))
        BY <2>2, OverSelf
      <4> QED
        BY <1>5, <3>1, <4>1 DEF Tried, Restores
    <3>2. CASE w \in asked(s)
      <4> DEFINE valid == IsValid(s, Len(s.st))
      <4>1. \/ w \in valid /\ w.how # "go"
            \/ \E x \in valid : x.how = "go" /\ w \in TryGet(x, Len(s.st), "number")
        BY <3>2 DEF Then
      <4>2. \A x \in valid : Tried(s, x)
        <5>1. Going(s, 4)
          BY <1>0, <2>2, <2>3 DEF Going, Room
        <5> QED
          BY <1>0, <2>3, <5>1, TryGetIs DEF IsValid
      <4> HIDE DEF valid
      <4>3. ASSUME NEW x \in valid, x.how = "go", w \in TryGet(x, Len(s.st), "number")
            PROVE  Tried(s, w)
        <5>1. Restores(s, x, "go")
          BY <4>2, <4>3 DEF Tried
        <5>2. Over(s, x, Size(s)) /\ Size(x) = Size(s) /\ Clean(x) /\ x.base = s.base
          BY <5>1 DEF Restores, Over
        <5>3. Going(x, 4) /\ Len(s.st) \in 1..Size(x)
          BY <1>0, <2>2, <2>3, <4>3, <5>2 DEF Going, Room
        <5>4. Tried(x, w)
          BY <1>0, <4>3, <5>3, TryGetIs
        <5>5. Over(x, w, Size(x))
          BY <5>4 DEF Tried, Restores, Leaves
        <5>6. Over(s, w, Size(s))
          BY <1>0, <2>2, <5>2, <5>5, OverTrans
        <5> QED
          BY <5>2, <5>4, <5>6 DEF Tried, Restores, Leaves
      <4> QED
        BY <4>1, <4>2, <4>3
    <3> QED
      BY <2>5, <3>1, <3>2
  <2>7. v.how \in {"go", "raised"} /\ Over(s, v, Size(s)) /\ Size(v) <= Size(s) + 2
    <3>1. Over(s, w, Size(s)) /\ Size(w) <= Size(s) + 2 /\ Size(w) \in Nat
      <4>1. Over(s, w, Size(s))
        BY <2>6 DEF Tried, Restores, Leaves
      <4>2. Size(w) \in Nat
        BY <4>1, Numbers DEF Over
      <4> QED
        BY <1>0, <2>2, <2>6, <4>1, <4>2 DEF Tried, Restores, Leaves
    <3>2. CASE w.how = "no"
      <4>1. Over(s, v, Size(s)) /\ v.how = "go" /\ Size(v) = Size(w)
        BY <1>0, <2>2, <2>5, <3>1, <3>2, EndedIs
      <4> QED
        BY <3>1, <4>1
    <3>3. CASE w.how # "no"
      BY <2>5, <2>6, <3>1, <3>3 DEF Tried, Restores
    <3> QED
      BY <3>2, <3>3
  <2>8. Over(r, v, Size(r)) /\ Size(v) - 1 >= Size(r) /\ Size(v) \in Nat
    <3>1. Over(r, v, Size(r)) /\ Size(v) >= Size(s)
      BY <1>0, <2>2, <2>7, OverTrans DEF Over
    <3>2. Size(v) \in Nat
      BY <3>1, Numbers DEF Over
    <3> QED
      BY <1>0, <2>2, <3>1, <3>2
  <2>9. Over(r, u, Size(r)) /\ u.how = v.how /\ Size(u) = Size(v) - 1
    BY <1>0, <2>4, <2>8, PoppedIs
  <2> QED
    BY <1>0, <2>2, <2>7, <2>8, <2>9 DEF Leaves
<1>6. Leaves(r, u, 2) /\ u.how \in {"go", "no", "thrown", "raised"}
  <2>1. CASE u \in invoked /\ u.how # "go"
    <3>1. Restores(r, u, "no") \/ Fails(r, u)
      BY <1>1, <2>1 DEF Pushes
    <3>2. Over(r, u, Size(r))
      BY <3>1 DEF Restores, Fails, Leaves
    <3>3. Size(u) \in Nat
      BY <3>2, Numbers DEF Over
    <3> QED
      BY <1>0, <3>1, <3>2, <3>3 DEF Restores, Fails, Leaves
  <2> QED
    BY <1>4, <1>5, <2>1
<1>7. Over(r, c, Size(r)) /\ Size(c) = Size(u) /\ c.how \in {"go", "no", "raised"}
  <2>1. CASE u.how = "thrown"
    BY <1>0, <1>3, <1>6, <2>1, EndedIs DEF Leaves
  <2> QED
    BY <1>3, <1>6, <2>1 DEF Leaves
<1>8. Over(r, t, Size(r)) /\ Size(t) = Size(u) /\ t.how \in {"go", "raised"}
  <2>1. CASE c.how = "no"
    BY <1>0, <1>2, <1>7, <2>1, EndedIs
  <2> QED
    BY <1>2, <1>7, <2>1
<1> QED
  BY <1>6, <1>8 DEF Leaves

\* stack_guard cuts the stack, and changes nothing else.
LEMMA CutIs ==
    ASSUME NEW s, Clean(s), NEW n \in Nat, n >= s.base, n <= Size(s), NEW t,
           t = [s EXCEPT !.st = SubSeq(@, 1, n)]
    PROVE  Over(s, t, n) /\ t.how = s.how /\ Size(t) = n
<1> DEFINE st == SubSeq(s.st, 1, n)
<1>0. s \in Runs /\ s.st \in Seq(Slots) /\ s.peak <= LUA_MINSTACK /\ Size(s) \in Nat
  BY CleanIs
<1>1. st \in Seq(Slots) /\ Len(st) = n /\ \A k \in 1..n : st[k] = s.st[k]
  BY <1>0 DEF Size
<1> HIDE DEF st
<1>2. t = [s EXCEPT !.st = st]
  BY DEF st
<1>3. /\ t \in Runs /\ t.st = st /\ t.base = s.base /\ t.how = s.how /\ t.bad = s.bad
      /\ t.low = s.low /\ t.peak = s.peak /\ t.done = s.done
  BY <1>0, <1>1, <1>2 DEF Runs
<1>4. Size(t) = n /\ \A k \in 1..n : At(t, k) = At(s, k)
  BY <1>1, <1>3 DEF Size, At
<1>5. Clean(t)
  BY <1>3, <1>4 DEF Clean
<1>6. n <= Size(t)
  BY <1>4
<1> QED
  BY <1>3, <1>4, <1>5, <1>6, Zenon DEF Over

LEMMA GuardedIs ==
    ASSUME NEW r, Clean(r), NEW runs, \A s \in runs : Asks(r, s), NEW t \in Guarded(r, runs)
    PROVE  Asks(r, t)
<1>1. PICK s \in runs :
          t = IF Len(s.st) > Len(r.st) THEN [s EXCEPT !.st = SubSeq(@, 1, Len(r.st))] ELSE s
  BY DEF Guarded
<1>2. /\ Over(r, s, Size(r)) /\ Clean(s) /\ Size(r) \in Nat /\ Size(r) >= s.base
      /\ Size(r) <= Size(s) /\ Len(r.st) = Size(r)
  BY Numbers DEF Asks, Over, Size
<1>3. CASE Len(s.st) > Len(r.st)
  <2>1. Over(s, t, Size(r)) /\ t.how = s.how
    BY <1>1, <1>2, <1>3, CutIs
  <2>2. Over(r, t, Size(r))
    BY <1>2, <2>1, OverTrans
  <2> QED
    BY <2>1, <2>2 DEF Asks
<1> QED
  BY <1>1, <1>3

\* get_entity_detail_impl.
LEMMA EntityDetailIs ==
    ASSUME NEW r, Going(r, 20), NEW t \in GetEntityDetail(r)
    PROVE  Asks(r, t)
<1> DEFINE at == Len(r.st) + 1
           pushed == PushEntityByIndex(r)
           summary(s) == BuildSummary(s, at)
           parent(s) == AskParent(s, at)
           health(s) == Regardless(TryGet(s, at, "number"))
           A == Then(pushed, summary)
           B == Then(A, parent)
           C == Then(B, health)
<1>0. /\ Clean(r) /\ r.how = "go" /\ Size(r) \in Nat /\ r.base \in Nat /\ LUA_MINSTACK \in Nat
      /\ Size(r) + 20 <= r.base + LUA_MINSTACK /\ Going(r, 4) /\ at = Size(r) + 1
      /\ "number" \in Slots /\ "go" \in Hows
  BY Numbers DEF Going, Room, Slots, Hows, Size
<1>1. t \in Guarded(r, Regardless(C))
  BY DEF GetEntityDetail
<1>2. \A s \in A :
        \/ s \in pushed /\ s.how # "go"
        \/ \E x \in pushed : x.how = "go" /\ s \in summary(x)
  BY DEF Then
<1>3. \A s \in B : (s \in A /\ s.how # "go") \/ \E x \in A : x.how = "go" /\ s \in parent(x)
  BY DEF Then
<1>4. \A s \in C : (s \in B /\ s.how # "go") \/ \E x \in B : x.how = "go" /\ s \in health(x)
  BY DEF Then
<1> HIDE DEF A, B, C, at
\* A run that goes on has the entity at the bottom, and what was left above it.
<1> DEFINE Found(s, n) == Asks(r, s) /\ (s.how = "go" => at <= Size(s) /\ Size(s) <= Size(r) + n)
<1>5. \A s \in pushed : Found(s, 1)
  <2>1. \A s \in pushed : \/ Pushes(r, s, {"entity", "other"})
                          \/ s.how = "no" /\ Leaves(r, s, 1)
                          \/ Fails(r, s)
    BY <1>0, EntityByIndexIs
  <2> QED
    BY <1>0, <2>1 DEF Pushes, Fails, Leaves, Asks
<1> HIDE DEF pushed
<1>6. ASSUME NEW x, Found(x, 9), x.how = "go"
      PROVE  /\ Over(r, x, Size(r)) /\ Clean(x) /\ x.base = r.base /\ at \in 1..Size(x)
             /\ Size(x) \in Nat /\ Going(x, 10)
  <2>1. /\ Over(r, x, Size(r)) /\ Clean(x) /\ x.base = r.base /\ Size(x) \in Nat
        /\ at <= Size(x) /\ Size(x) <= Size(r) + 9
    BY <1>6, Numbers DEF Asks, Over
  <2> QED
    BY <1>0, <1>6, <2>1 DEF Going, Room
<1>7. \A s \in A : Found(s, 7)
  <2> SUFFICES ASSUME NEW s \in A PROVE Found(s, 7)
    OBVIOUS
  <2>1. CASE s \in pushed /\ s.how # "go"
    BY <1>5, <2>1
  <2>2. ASSUME NEW x \in pushed, x.how = "go", s \in summary(x)
        PROVE  Found(s, 7)
    <3>1. Found(x, 1) /\ Size(x) \in Nat
      BY <1>5, <2>2, Numbers DEF Asks, Over
    <3>2. /\ Over(r, x, Size(r)) /\ Clean(x) /\ at \in 1..Size(x) /\ Going(x, 10)
          /\ Size(x) <= Size(r) + 1
      BY <1>0, <1>6, <2>2, <3>1
    <3>3. Asked(x, s, 6) /\ s.how # "no"
      BY <2>2, <3>2, SummaryIs
    <3>4. /\ Over(x, s, Size(x)) /\ s.how \in {"go", "raised"}
          /\ s.how = "go" => Size(s) <= Size(x) + 6
      BY <3>3 DEF Asked, Leaves
    <3>5. Over(r, s, Size(r)) /\ Size(s) >= Size(x) /\ Size(s) \in Nat
      <4>1. Over(r, s, Size(r)) /\ Size(s) >= Size(x)
        BY <1>0, <3>1, <3>2, <3>4, OverTrans DEF Over
      <4> QED
        BY <4>1, Numbers DEF Over
    <3> QED
      BY <1>0, <3>1, <3>2, <3>4, <3>5 DEF Asks
  <2> QED
    BY <1>2, <2>1, <2>2
<1>8. \A s \in B : Found(s, 9)
  <2> SUFFICES ASSUME NEW s \in B PROVE Found(s, 9)
    OBVIOUS
  <2>1. CASE s \in A /\ s.how # "go"
    BY <1>7, <2>1
  <2>2. ASSUME NEW x \in A, x.how = "go", s \in parent(x)
        PROVE  Found(s, 9)
    <3>1. Found(x, 7) /\ Size(x) \in Nat
      BY <1>7, <2>2, Numbers DEF Asks, Over
    <3>2. /\ Over(r, x, Size(r)) /\ Clean(x) /\ at \in 1..Size(x) /\ Going(x, 10)
          /\ Size(x) <= Size(r) + 7
      BY <1>0, <1>6, <2>2, <3>1
    <3>3. Going(x, 6)
      BY <1>0, <3>1, <3>2, Numbers DEF Going, Room
    <3>4. s.how \in {"go", "raised"} /\ Over(x, s, Size(x)) /\ Size(s) <= Size(x) + 2
      BY <2>2, <3>2, <3>3, ParentIs DEF Leaves
    <3>5. Over(r, s, Size(r)) /\ Size(s) >= Size(x) /\ Size(s) \in Nat
      <4>1. Over(r, s, Size(r)) /\ Size(s) >= Size(x)
        BY <1>0, <3>1, <3>2, <3>4, OverTrans DEF Over
      <4> QED
        BY <4>1, Numbers DEF Over
    <3> QED
      BY <1>0, <3>1, <3>2, <3>4, <3>5 DEF Asks
  <2> QED
    BY <1>3, <2>1, <2>2
<1>9. \A s \in C : Asks(r, s)
  <2> SUFFICES ASSUME NEW s \in C PROVE Asks(r, s)
    OBVIOUS
  <2>1. CASE s \in B /\ s.how # "go"
    BY <1>8, <2>1
  <2>2. ASSUME NEW x \in B, x.how = "go", s \in health(x)
        PROVE  Asks(r, s)
    <3>1. Found(x, 9) /\ Size(x) \in Nat
      BY <1>8, <2>2, Numbers DEF Asks, Over
    <3>2. Over(r, x, Size(r)) /\ Clean(x) /\ at \in 1..Size(x) /\ Going(x, 10)
      BY <1>0, <1>6, <2>2, <3>1
    <3>3. Going(x, 4)
      BY <1>0, <3>1, <3>2, Numbers DEF Going, Room
    <3>4. PICK y \in TryGet(x, at, "number") : s = IF y.how = "no" THEN End(y, "go") ELSE y
      BY <2>2 DEF Regardless
    <3>5. Tried(x, y)
      BY <1>0, <3>2, <3>3, TryGetIs
    <3>6. Over(x, y, Size(x)) /\ y.how \in {"go", "no", "raised"}
      BY <3>5 DEF Tried, Restores, Leaves
    <3>7. Over(r, y, Size(r))
      BY <1>0, <3>1, <3>2, <3>6, OverTrans DEF Over
    <3>8. CASE y.how = "no"
      BY <1>0, <3>4, <3>7, <3>8, EndedIs DEF Asks
    <3> QED
      BY <3>4, <3>6, <3>7, <3>8 DEF Asks
  <2> QED
    BY <1>4, <2>1, <2>2
<1>10. \A s \in Regardless(C) : Asks(r, s)
  <2> SUFFICES ASSUME NEW s \in Regardless(C) PROVE Asks(r, s)
    OBVIOUS
  <2>1. PICK y \in C : s = IF y.how = "no" THEN End(y, "go") ELSE y
    BY DEF Regardless
  <2>2. Asks(r, y)
    BY <1>9
  <2>3. CASE y.how = "no"
    BY <1>0, <2>1, <2>2, <2>3, EndedIs DEF Asks
  <2> QED
    BY <2>1, <2>2, <2>3
<1> QED
  BY <1>0, <1>1, <1>10, GuardedIs

\* What is lost of a run that r came to.
LEMMA LostTrans ==
    ASSUME NEW r, NEW s, NEW t, NEW m \in Nat, NEW n \in Nat, Clean(r),
           Leaves(r, s, m), Lost(s, t, n)
    PROVE  Lost(r, t, m + n)
  BY LeavesTrans DEF Lost

LEMMA PushesLeaves ==
    ASSUME NEW r, Clean(r), NEW values, NEW s, Pushes(r, s, values)
    PROVE  Leaves(r, s, 1)
  BY Numbers DEF Pushes, Leaves

\* The entity is there and valid, or the query is over.
LEMMA ValidEntityIs ==
    ASSUME NEW r, Going(r, 6), NEW t \in ValidEntity(r)
    PROVE  Pushes(r, t, {"entity"}) \/ Lost(r, t, 3)
<1> DEFINE at == Len(r.st) + 1
           pushed == PushEntityByIndex(r)
<1>0. /\ Clean(r) /\ Size(r) \in Nat /\ r.base \in Nat /\ LUA_MINSTACK \in Nat
      /\ Size(r) + 6 <= r.base + LUA_MINSTACK /\ at = Size(r) + 1 /\ Going(r, 4)
      /\ "true" \in Slots
  BY Numbers DEF Going, Room, Slots, Size
<1>1. \/ t \in pushed /\ t.how # "go"
      \/ \E s \in pushed : s.how = "go" /\ t \in TryGet(s, at, "true")
  BY DEF ValidEntity, Then, IsValid
<1>2. \A s \in pushed : \/ Pushes(r, s, {"entity", "other"})
                        \/ s.how = "no" /\ Leaves(r, s, 1)
                        \/ Fails(r, s)
  BY <1>0, EntityByIndexIs
<1> HIDE DEF pushed, at
<1>3. CASE t \in pushed /\ t.how # "go"
  <2>1. (t.how = "no" /\ Leaves(r, t, 1)) \/ Fails(r, t)
    BY <1>2, <1>3 DEF Pushes
  <2>2. Over(r, t, Size(r))
    BY <2>1 DEF Fails, Leaves
  <2>3. Size(t) \in Nat
    BY <2>2, Numbers DEF Over
  <2> QED
    BY <1>0, <2>1, <2>2, <2>3 DEF Fails, Leaves, Lost
<1>4. ASSUME NEW s \in pushed, s.how = "go", t \in TryGet(s, at, "true")
      PROVE  Pushes(r, t, {"entity"}) \/ Lost(r, t, 3)
  <2>1. Pushes(r, s, {"entity", "other"})
    BY <1>2, <1>4 DEF Fails
  <2>2. /\ Clean(s) /\ s.base = r.base /\ Over(r, s, Size(r)) /\ Size(s) = Size(r) + 1
        /\ At(s, at) \in {"entity", "other"}
    BY <1>0, <2>1, PushedIs
  <2>3. Going(s, 4) /\ at \in 1..Size(s)
    BY <1>0, <1>4, <2>2 DEF Going, Room
  <2>4. Tried(s, t) /\ (t.how = "go" => At(s, at) \in {"entity", "parent"})
    BY <1>0, <1>4, <2>3, TryGetIs
  <2>5. CASE t.how = "go"
    <3>1. Over(s, t, Size(s)) /\ Size(t) = Size(s) /\ At(s, at) = "entity"
      BY <2>2, <2>4, <2>5 DEF Tried, Restores
    <3>2. Over(r, t, Size(r)) /\ At(t, at) = "entity"
      <4>1. Over(r, t, Size(r))
        BY <1>0, <2>2, <3>1, OverTrans
      <4> QED
        BY <2>3, <3>1, <4>1 DEF Over
    <3> QED
      BY <1>0, <2>2, <2>5, <3>1, <3>2 DEF Pushes
  <2>6. CASE t.how # "go"
    <3>1. Over(s, t, Size(s))
      BY <2>4 DEF Tried, Restores, Leaves
    <3>2. Size(t) \in Nat /\ Size(s) \in Nat
      BY <2>2, <3>1, Numbers DEF Over
    <3>3. Lost(s, t, 2)
      BY <2>4, <2>6, <3>1, <3>2 DEF Tried, Restores, Leaves, Lost
    <3>4. Lost(r, t, 1 + 2)
      BY <1>0, <2>1, <3>3, PushesLeaves, LostTrans
    <3> QED
      BY <3>4
  <2> QED
    BY <2>5, <2>6
<1> QED
  BY <1>1, <1>3, <1>4

\* A table of the entity's.
LEMMA TableFromIs ==
    ASSUME NEW r, Going(r, 4), NEW at \in 1..Size(r), NEW t \in TableFrom(r, at)
    PROVE  Pushes(r, t, {"table"}) \/ Lost(r, t, 2)
<1> DEFINE invoked == InvokeEntityMethod(r, at, {"table", "other"})
<1>0. Clean(r) /\ Size(r) \in Nat /\ {"table", "other"} \in SUBSET Slots /\ "no" \in Hows
  BY Numbers DEF Going, Slots, Hows
<1>1. \/ t \in invoked /\ t.how # "go"
      \/ \E s \in invoked : /\ s.how = "go"
                            /\ t = IF Is(s, "table") THEN s ELSE End(Pop(s, 1), "no")
  BY DEF TableFrom, Then
<1>2. \A s \in invoked : \/ Restores(r, s, "no")
                         \/ Pushes(r, s, {"table", "other"})
                         \/ Fails(r, s)
  BY <1>0, InvokeIs
<1> HIDE DEF invoked
<1>3. CASE t \in invoked /\ t.how # "go"
  <2>1. Restores(r, t, "no") \/ Fails(r, t)
    BY <1>2, <1>3 DEF Pushes
  <2>2. Over(r, t, Size(r))
    BY <2>1 DEF Restores, Fails, Leaves
  <2>3. Size(t) \in Nat
    BY <2>2, Numbers DEF Over
  <2> QED
    BY <1>0, <2>1, <2>2, <2>3 DEF Restores, Fails, Leaves, Lost
<1>4. ASSUME NEW s \in invoked, s.how = "go",
             t = IF Is(s, "table") THEN s ELSE End(Pop(s, 1), "no")
      PROVE  Pushes(r, t, {"table"}) \/ Lost(r, t, 2)
  <2>1. Pushes(r, s, {"table", "other"})
    BY <1>2, <1>4 DEF Restores, Fails
  <2>2. Clean(s) /\ Over(r, s, Size(r)) /\ Size(s) = Size(r) + 1
    BY <1>0, <2>1, PushedIs
  <2>3. CASE Is(s, "table")
    <3>1. At(s, Size(s)) = "table"
      BY <2>2, <2>3, TopIs
    <3> QED
      BY <1>4, <2>1, <2>3, <3>1 DEF Pushes
  <2>4. CASE ~Is(s, "table")
    <3>1. Over(r, t, Size(r)) /\ t.how = "no" /\ Size(t) = Size(r)
      BY <1>0, <1>4, <2>2, <2>4, PopEndedIs
    <3> QED
      BY <1>0, <3>1 DEF Lost, Leaves
  <2> QED
    BY <2>3, <2>4
<1> QED
  BY <1>1, <1>3, <1>4

\* A table of a valid entity's; four slots may be lost.
LEMMA ValidTableIs ==
    ASSUME NEW r, Going(r, 8), NEW at, at = Len(r.st) + 1, NEW t,
           \/ t \in ValidEntity(r) /\ t.how # "go"
           \/ \E s \in ValidEntity(r) : s.how = "go" /\ t \in TableFrom(s, at)
    PROVE  \/ /\ Over(r, t, Size(r)) /\ t.how = "go" /\ Size(t) = Size(r) + 2
              /\ At(t, at) = "entity" /\ At(t, at + 1) = "table"
           \/ Lost(r, t, 3)
<1> DEFINE valid == ValidEntity(r)
<1>0. /\ Clean(r) /\ Size(r) \in Nat /\ r.base \in Nat /\ LUA_MINSTACK \in Nat
      /\ Size(r) + 8 <= r.base + LUA_MINSTACK /\ at = Size(r) + 1 /\ Going(r, 6)
  BY Numbers DEF Going, Room, Size
<1>1. (t \in valid /\ t.how # "go") \/ \E s \in valid : s.how = "go" /\ t \in TableFrom(s, at)
  OBVIOUS
<1>2. \A s \in valid : Pushes(r, s, {"entity"}) \/ Lost(r, s, 3)
  BY <1>0, ValidEntityIs
<1> HIDE DEF valid
<1>3. CASE t \in valid /\ t.how # "go"
  BY <1>2, <1>3 DEF Pushes
<1>4. ASSUME NEW s \in valid, s.how = "go", t \in TableFrom(s, at)
      PROVE  \/ /\ Over(r, t, Size(r)) /\ t.how = "go" /\ Size(t) = Size(r) + 2
                /\ At(t, at) = "entity" /\ At(t, at + 1) = "table"
             \/ Lost(r, t, 3)
  <2>1. Pushes(r, s, {"entity"})
    BY <1>2, <1>4 DEF Lost
  <2>2. /\ Clean(s) /\ s.base = r.base /\ Over(r, s, Size(r)) /\ Size(s) = Size(r) + 1
        /\ At(s, at) = "entity"
    BY <1>0, <2>1, PushedIs
  <2>3. Going(s, 4) /\ at \in 1..Size(s)
    BY <1>0, <1>4, <2>2 DEF Going, Room
  <2>4. Pushes(s, t, {"table"}) \/ Lost(s, t, 2)
    BY <1>4, <2>3, TableFromIs
  <2>5. CASE Pushes(s, t, {"table"})
    <3>1. /\ Over(s, t, Size(s)) /\ t.how = "go" /\ Size(t) = Size(s) + 1
          /\ At(t, Size(t)) = "table"
      BY <2>5 DEF Pushes
    <3>2. Over(r, t, Size(r)) /\ At(t, at) = "entity"
      <4>1. Over(r, t, Size(r))
        BY <1>0, <2>2, <3>1, OverTrans
      <4> QED
        BY <2>2, <2>3, <3>1, <4>1 DEF Over
    <3> QED
      BY <1>0, <2>2, <3>1, <3>2
  <2>6. CASE Lost(s, t, 2)
    <3>1. Lost(r, t, 1 + 2)
      BY <1>0, <2>1, <2>6, PushesLeaves, LostTrans
    <3> QED
      BY <3>1
  <2> QED
    BY <2>4, <2>5, <2>6
<1> QED
  BY <1>1, <1>3, <1>4

\* The loop over Next takes the table, and nothing below it.
LEMMA EntriesIs ==
    ASSUME NEW r, NEW s, Clean(r), Over(r, s, Size(r)), Size(s) = Size(r) + 2, s.how = "go",
           Room(s, 2), NEW t \in Entries(s)
    PROVE  Over(r, t, Size(r)) /\ t.how = "go"
<1>0. /\ Size(r) \in Nat /\ Size(s) \in Nat /\ Clean(s) /\ s.base = r.base /\ r.base \in Nat
      /\ LUA_MINSTACK \in Nat /\ Size(s) + 2 <= s.base + LUA_MINSTACK /\ Room(s, 1)
      /\ "nil" \in Slots /\ "key" \in Slots /\ "value" \in Slots
  BY Numbers DEF Over, Slots, Room
<1> DEFINE n == Push(s, "nil")
           kv == Push(Push(s, "key"), "value")
<1>1. t = Pop(Pop(n, 1), 1) \/ t = Pop(Pop(Pop(kv, 1), 1), 1)
  BY DEF Entries
<1>2. Over(r, n, Size(r)) /\ Size(n) = Size(r) + 3 /\ n.how = "go"
  <2>1. Over(s, n, Size(s)) /\ Size(n) = Size(s) + 1 /\ n.how = "go"
    BY <1>0, PushIs
  <2> HIDE DEF n
  <2> QED
    BY <1>0, <2>1, OverTrans
<1>3. Over(r, kv, Size(r)) /\ Size(kv) = Size(r) + 4 /\ kv.how = "go"
  <2>1. Over(s, kv, Size(s)) /\ Size(kv) = Size(s) + 2 /\ kv.how = "go"
    BY <1>0, Push2Is
  <2> HIDE DEF kv
  <2> QED
    BY <1>0, <2>1, OverTrans
<1> HIDE DEF n, kv
<1>4. CASE t = Pop(Pop(n, 1), 1)
  <2>1. Over(r, Pop(n, 1), Size(r)) /\ Size(Pop(n, 1)) = Size(r) + 2 /\ Pop(n, 1).how = "go"
    BY <1>0, <1>2, PoppedIs
  <2> QED
    BY <1>0, <1>4, <2>1, PoppedIs
<1>5. CASE t = Pop(Pop(Pop(kv, 1), 1), 1)
  <2>1. Over(r, Pop(kv, 1), Size(r)) /\ Size(Pop(kv, 1)) = Size(r) + 3 /\ Pop(kv, 1).how = "go"
    BY <1>0, <1>3, PoppedIs
  <2> DEFINE a == Pop(kv, 1)
             b == Pop(a, 1)
  <2>2. Over(r, b, Size(r)) /\ Size(b) = Size(r) + 2 /\ b.how = "go"
    BY <1>0, <2>1, PoppedIs
  <2> HIDE DEF b
  <2>3. t = Pop(b, 1)
    BY <1>5 DEF b
  <2> QED
    BY <1>0, <2>2, <2>3, PoppedIs
<1> QED
  BY <1>1, <1>4, <1>5

\* get_entity_table_entries_impl, get_entity_network_var_entries_impl.
LEMMA EntriesQueryIs ==
    ASSUME NEW r, Going(r, 20), NEW t \in GetEntries(r)
    PROVE  Asks(r, t)
<1> DEFINE at == Len(r.st) + 1
           table == Then(ValidEntity(r), LAMBDA s : TableFrom(s, at))
           all == Then(table, Entries)
<1>0. /\ Clean(r) /\ Size(r) \in Nat /\ r.base \in Nat /\ LUA_MINSTACK \in Nat
      /\ Size(r) + 20 <= r.base + LUA_MINSTACK /\ Going(r, 8) /\ "go" \in Hows
  BY Numbers DEF Going, Room, Hows
<1>1. t \in Guarded(r, Regardless(all))
  BY DEF GetEntries
<1>2. \A s \in table : \/ Over(r, s, Size(r)) /\ s.how = "go" /\ Size(s) = Size(r) + 2
                       \/ Lost(r, s, 3)
  <2>1. \A s \in table : \/ s \in ValidEntity(r) /\ s.how # "go"
                         \/ \E x \in ValidEntity(r) : x.how = "go" /\ s \in TableFrom(x, at)
    BY DEF Then
  <2> HIDE DEF table
  <2> QED
    BY <1>0, <2>1, ValidTableIs
<1> HIDE DEF table
<1>3. \A s \in all :
        \/ s \in table /\ s.how # "go"
        \/ \E x \in table : x.how = "go" /\ s \in Entries(x)
  BY DEF Then
<1> HIDE DEF all
<1>4. ASSUME NEW s \in all PROVE Asks(r, s)
  <2>1. CASE s \in table /\ s.how # "go"
    BY <1>2, <2>1 DEF Lost, Leaves, Asks
  <2>2. ASSUME NEW x \in table, x.how = "go", s \in Entries(x)
        PROVE  Asks(r, s)
    <3>1. Over(r, x, Size(r)) /\ Size(x) = Size(r) + 2
      BY <1>2, <2>2 DEF Lost
    <3>2. Room(x, 2)
      BY <1>0, <3>1 DEF Over, Room
    <3>3. Over(r, s, Size(r)) /\ s.how = "go"
      BY <1>0, <2>2, <3>1, <3>2, EntriesIs
    <3> QED
      BY <3>3 DEF Asks
  <2> QED
    BY <1>3, <2>1, <2>2
<1>5. \A s \in Regardless(all) : Asks(r, s)
  <2> SUFFICES ASSUME NEW s \in Regardless(all) PROVE Asks(r, s)
    OBVIOUS
  <2>1. PICK y \in all : s = IF y.how = "no" THEN End(y, "go") ELSE y
    BY DEF Regardless
  <2>2. Asks(r, y)
    BY <1>4
  <2>3. CASE y.how = "no"
    BY <1>0, <2>1, <2>2, <2>3, EndedIs DEF Asks
  <2> QED
    BY <2>1, <2>2, <2>3
<1> QED
  BY <1>0, <1>1, <1>5, GuardedIs

-----------------------------------------------------------------------------
(* The setters.                                                            *)

\* A setter was called since, and returned; what a query that sets ends in.
Did(r, t) == Clean(t) /\ t.base = r.base /\ t.done = r.done + 1
Sets(r, t) ==
    \/ t.how = "go" /\ Did(r, t)
    \/ t.how \in {"no", "thrown", "raised"} /\ Clean(t) /\ t.base = r.base /\ t.done = r.done

\* The call of a setter of n slots.
Set(r, u, n) ==
    /\ Size(u) = Size(r) - n
    /\ \/ u.how = "thrown" /\ Over(r, u, Size(r) - n)
       \/ u.how = "go" /\ Did(r, u)

LEMMA CallSetterIs ==
    ASSUME NEW r, NEW n, NEW want, Sound(r, n, want), NEW t \in CallSetter(r, want)
    PROVE  Set(r, t, n)
<1>0. /\ Clean(r) /\ Size(r) \in Nat /\ r.base \in Nat /\ n \in Nat \ {0}
      /\ Size(r) - n >= r.base
  BY Numbers DEF Sound
<1>1. PICK u \in PCallChecked(r, want, {<<>>}) :
          t = IF u.how = "go" THEN [u EXCEPT !.done = @ + 1] ELSE u
  BY DEF CallSetter
<1>2. PICK s \in PCall(r, want, {<<>>}) :
          u = IF s.how = "erred" THEN End(Pop(s, 1), "thrown") ELSE s
  BY DEF PCallChecked
<1>3. Called(r, s, n, {<<>>})
  <2>1. {<<>>} \in SUBSET Seq(Slots)
    OBVIOUS
  <2> QED
    BY <2>1, PCallIs
<1>4. CASE s.how = "erred"
  <2>1. Over(r, s, Size(r) - n) /\ Size(s) = Size(r) - n + 1 /\ Clean(s) /\ s.base = r.base
    BY <1>3, <1>4 DEF Called, Over
  <2> DEFINE p == Pop(s, 1)
  <2>2. Over(s, p, Size(s) - 1) /\ Size(p) = Size(s) - 1
    BY <1>0, <2>1, PopIs
  <2>3. Clean(p) /\ "thrown" \in Hows
    BY <2>2 DEF Over, Hows
  <2>4. Over(p, u, Size(p)) /\ u.how = "thrown" /\ Size(u) = Size(p)
    BY <1>2, <1>4, <2>3, EndIs
  <2> HIDE DEF p
  <2>5. Over(r, p, Size(r) - n)
    BY <1>0, <2>1, <2>2, OverTrans
  <2>6. Over(r, u, Size(r) - n)
    BY <1>0, <2>1, <2>2, <2>4, <2>5, OverTrans
  <2> QED
    BY <1>0, <1>1, <2>1, <2>2, <2>4, <2>6 DEF Set
<1>5. CASE s.how # "erred"
  <2>1. /\ Over(r, u, Size(r) - n) /\ u.how = "go" /\ u = s
        /\ \E v \in {<<>>} : Size(u) = Size(r) - n + Len(v)
    BY <1>2, <1>3, <1>5 DEF Called
  <2>2. Size(u) = Size(r) - n
    BY <1>0, <2>1
  <2>3. Clean(u) /\ u \in Runs /\ u.base = r.base /\ u.done = r.done /\ u.done \in Nat
    BY <2>1, CleanIs DEF Over
  <2>4. t = [u EXCEPT !.done = @ + 1]
    BY <1>1, <2>1
  <2>5. /\ t \in Runs /\ t.st = u.st /\ t.base = u.base /\ t.how = u.how /\ t.bad = u.bad
        /\ t.low = u.low /\ t.peak = u.peak /\ t.done = u.done + 1
    BY <2>3, <2>4 DEF Runs
  <2>6. Size(t) = Size(u) /\ Clean(t)
    BY <2>3, <2>5 DEF Size, Clean
  <2> QED
    BY <2>1, <2>2, <2>3, <2>5, <2>6 DEF Set, Did
<1> QED
  BY <1>4, <1>5

\* The setter of an entity's is on top, and takes its place on the stack with it.
LEMMA CallWithValueIs ==
    ASSUME NEW s, Going(s, 2), Size(s) - 1 >= s.base, At(s, Size(s)) \in {"function", "other"},
           NEW t \in CallWithValue(Push(Push(s, "entity"), "value"))
    PROVE  Set(s, t, 1)
<1> DEFINE c == Push(Push(s, "entity"), "value")
<1>0. /\ Clean(s) /\ s.how = "go" /\ Size(s) \in Nat /\ s.base \in Nat /\ LUA_MINSTACK \in Nat
      /\ Room(s, 2) /\ Size(s) + 2 <= s.base + LUA_MINSTACK
      /\ "entity" \in Slots /\ "value" \in Slots
  BY Numbers DEF Going, Room, Slots
<1>1. /\ Over(s, c, Size(s)) /\ Size(c) = Size(s) + 2 /\ c.how = "go"
      /\ At(c, Size(s) + 1) = "entity" /\ At(c, Size(s) + 2) = "value"
  BY <1>0, Push2Is
<1>2. t \in CallSetter(c, <<"function", "entity", "value">>)
  BY DEF CallWithValue
<1> HIDE DEF c
<1>3. /\ Clean(c) /\ Room(c, 0) /\ Size(c) - 3 >= c.base
      /\ At(c, Size(c) - 2) \in {"function", "other"}
      /\ At(c, Size(c) - 1) = "entity" /\ At(c, Size(c)) = "value"
  <2>1. At(c, Size(s)) = At(s, Size(s))
    BY <1>0, <1>1 DEF Over
  <2>2. Size(c) - 2 = Size(s) /\ Size(c) - 1 = Size(s) + 1
    BY <1>0, <1>1
  <2> QED
    BY <1>0, <1>1, <2>1, <2>2 DEF Over, Room
<1>4. Sound(c, 3, <<"function", "entity", "value">>)
  BY <1>1, <1>3, Sound3
<1>5. Set(c, t, 3) /\ c.base = s.base /\ c.done = s.done
  BY <1>1, <1>2, <1>4, CallSetterIs DEF Over
<1>6. Size(t) = Size(s) - 1
  BY <1>0, <1>1, <1>5 DEF Set
<1>7. CASE t.how = "thrown"
  <2>1. Over(c, t, Size(c) - 3)
    BY <1>5, <1>7 DEF Set
  <2>2. Over(s, t, Size(s) - 1)
    BY <1>0, <1>1, <2>1, OverTrans
  <2> QED
    BY <1>6, <1>7, <2>2 DEF Set
<1>8. CASE t.how # "thrown"
  BY <1>5, <1>6, <1>8 DEF Set, Did
<1> QED
  BY <1>7, <1>8

\* set_field_protected, the value on top.
LEMMA SetFieldProtectedIs ==
    ASSUME NEW r, Going(r, 5), NEW at \in 1..Size(r), Size(r) - 1 >= r.base,
           At(r, Size(r)) = "value", NEW t \in SetFieldProtected(r, at, At(r, at))
    PROVE  Sets(r, t)
<1> DEFINE object == At(r, at)
           chunk == PushRegistryChunk(r, "set_field")
           want == <<"set_field", object, "string", "value">>
           args(s) == Push(Push(Push(s, s.st[at]), "string"), s.st[ValueIndex(r, s)])
           call(s) == CallSetter(args(s), want)
           called == Then(chunk, call)
<1>0. /\ Clean(r) /\ Size(r) \in Nat /\ r.base \in Nat /\ LUA_MINSTACK \in Nat
      /\ Size(r) + 5 <= r.base + LUA_MINSTACK /\ object \in Slots /\ "string" \in Slots
      /\ "value" \in Slots /\ Going(r, 4) /\ Len(r.st) = Size(r)
  BY Numbers, SlotIs DEF Going, Room, Slots, Size
<1>1. (t \in called /\ t.how # "go") \/ \E s \in called : s.how = "go" /\ t = Pop(s, 1)
  BY DEF SetFieldProtected, Then
<1>2. \A s \in called :
        \/ s \in chunk /\ s.how # "go"
        \/ \E x \in chunk : x.how = "go" /\ s \in call(x)
  BY DEF Then
<1>3. \A s \in chunk : Pushes(r, s, {"set_field", "other"}) \/ Fails(r, s)
  BY <1>0, ChunkIs
<1> HIDE DEF called, chunk
<1>4. ASSUME NEW s \in called
      PROVE  /\ Sets(r, s)
             /\ s.how = "go" => Size(s) = Size(r)
  <2>1. CASE s \in chunk /\ s.how # "go"
    BY <1>3, <2>1 DEF Pushes, Fails, Leaves, Over, Sets
  <2>2. ASSUME NEW x \in chunk, x.how = "go", s \in call(x)
        PROVE  Sets(r, s) /\ (s.how = "go" => Size(s) = Size(r))
    <3>1. Pushes(r, x, {"set_field", "other"})
      BY <1>3, <2>2 DEF Fails
    <3>2. /\ Clean(x) /\ x.base = r.base /\ x.done = r.done /\ Over(r, x, Size(r))
          /\ Size(x) = Size(r) + 1
          /\ At(x, Size(x)) \in {"set_field", "other"} /\ Size(x) - 1 >= x.base
      BY <1>0, <3>1, PushedIs
    <3>3. x.st[at] = object /\ x.st[ValueIndex(r, x)] = "value"
      <4>1. \A k \in 1..Size(r) : x.st[k] = r.st[k]
        BY <3>2 DEF Over, At
      <4>2. object = r.st[at] /\ r.st[Size(r)] = "value" /\ ValueIndex(r, x) = Size(r)
        BY <1>0 DEF At, ValueIndex
      <4>3. at \in 1..Size(r) /\ Size(r) \in 1..Size(r)
        BY <1>0
      <4> QED
        BY <4>1, <4>2, <4>3, Zenon
    <3> DEFINE c == Push(Push(Push(x, object), "string"), "value")
    <3>4. s \in CallSetter(c, want)
      BY <2>2, <3>3
    <3> HIDE DEF want, object
    <3>5. /\ Over(x, c, Size(x)) /\ Size(c) = Size(x) + 3 /\ c.how = "go"
          /\ At(c, Size(x) + 1) = object /\ At(c, Size(x) + 2) = "string"
          /\ At(c, Size(x) + 3) = "value"
      <4>1. Room(x, 3)
        BY <1>0, <3>2 DEF Room
      <4> QED
        BY <1>0, <2>2, <3>2, <4>1, Push3Is
    <3> HIDE DEF c
    <3>6. /\ Clean(c) /\ Room(c, 0) /\ Size(c) - 4 >= c.base /\ c.base = r.base
          /\ c.done = r.done
          /\ At(c, Size(c) - 3) \in {"set_field", "other"} /\ At(c, Size(c) - 2) = object
          /\ At(c, Size(c) - 1) = "string" /\ At(c, Size(c)) = "value"
      <4>1. At(c, Size(x)) = At(x, Size(x))
        BY <1>0, <3>2, <3>5 DEF Over
      <4>2. Size(c) - 3 = Size(x) /\ Size(c) - 2 = Size(x) + 1 /\ Size(c) - 1 = Size(x) + 2
        BY <1>0, <3>2, <3>5
      <4>3. Clean(c) /\ c.base = r.base /\ c.done = r.done
        BY <3>2, <3>5 DEF Over
      <4>4. Size(c) + 0 <= c.base + LUA_MINSTACK /\ Size(c) - 4 >= c.base
        <5>1. Size(c) = Size(r) + 4 /\ Size(r) >= r.base
          BY <1>0, <3>2, <3>5
        <5> QED
          BY <1>0, <4>3, <5>1
      <4> QED
        BY <3>2, <3>5, <4>1, <4>2, <4>3, <4>4 DEF Room
    <3>7. Sound(c, 4, want)
      BY <3>5, <3>6, Sound4 DEF want
    <3>8. Set(c, s, 4)
      BY <3>4, <3>7, CallSetterIs
    <3> QED
      BY <1>0, <3>2, <3>5, <3>6, <3>8 DEF Set, Did, Over, Sets
  <2> QED
    BY <1>2, <2>1, <2>2
<1>5. ASSUME NEW s \in called, s.how = "go", t = Pop(s, 1)
      PROVE  Sets(r, t)
  <2>1. Did(r, s) /\ Size(s) = Size(r)
    BY <1>4, <1>5 DEF Sets
  <2>2. Clean(s) /\ s.base = r.base /\ s.done = r.done + 1 /\ Size(s) - 1 >= s.base
    BY <1>0, <2>1 DEF Did
  <2>3. Over(s, t, Size(s) - 1) /\ t.how = "go"
    BY <1>5, <2>2, PopIs
  <2> QED
    BY <2>2, <2>3 DEF Over, Sets, Did
<1> QED
  BY <1>1, <1>4, <1>5

LEMMA SetGuardedIs ==
    ASSUME NEW r, Clean(r), NEW runs, \A s \in runs : Sets(r, s), NEW t \in Guarded(r, runs)
    PROVE  Sets(r, t)
<1>1. PICK s \in runs :
          t = IF Len(s.st) > Len(r.st) THEN [s EXCEPT !.st = SubSeq(@, 1, Len(r.st))] ELSE s
  BY DEF Guarded
<1>2. /\ Sets(r, s) /\ Clean(s) /\ s.base = r.base /\ Size(s) \in Nat
      /\ Size(r) \in Nat /\ Size(r) >= s.base /\ Len(r.st) = Size(r) /\ Len(s.st) = Size(s)
  <2>1. Sets(r, s) /\ Clean(s) /\ s.base = r.base
    BY DEF Sets, Did
  <2> QED
    BY <2>1, Numbers DEF Size
<1>3. CASE Len(s.st) > Len(r.st)
  <2>1. Over(s, t, Size(r)) /\ t.how = s.how
    <3>1. t = [s EXCEPT !.st = SubSeq(@, 1, Size(r))] /\ Size(r) <= Size(s)
      BY <1>1, <1>2, <1>3
    <3> QED
      BY <1>2, <3>1, CutIs
  <2> QED
    BY <1>2, <2>1 DEF Over, Sets, Did
<1> QED
  BY <1>1, <1>2, <1>3

\* A query that is left early has set nothing; the same of what a setter leaves.
LEMMA LostSets ==
    ASSUME NEW r, NEW t, NEW n, Lost(r, t, n)
    PROVE  Sets(r, t)
  BY DEF Lost, Leaves, Over, Sets

LEMMA SetSets ==
    ASSUME NEW r, NEW s, NEW t, NEW n, Set(s, t, n), s.base = r.base, s.done = r.done
    PROVE  Sets(r, t)
  BY DEF Set, Did, Over, Sets

LEMMA OverSets ==
    ASSUME NEW r, NEW t, NEW h, Over(r, t, h), t.how \in {"no", "thrown", "raised"}
    PROVE  Sets(r, t)
  BY DEF Over, Sets

\* push_json_value.
LEMMA PushJsonIs ==
    ASSUME NEW r, Going(r, 1), NEW t \in PushJson(r)
    PROVE  Pushes(r, t, {"value"}) \/ Restores(r, t, "no")
<1>0. Clean(r) /\ r.how = "go" /\ Room(r, 1) /\ "value" \in Slots /\ "no" \in Hows
  BY DEF Going, Slots, Hows
<1>1. CASE t = End(r, "no")
  BY <1>0, <1>1, EndIs DEF Restores
<1>2. CASE t = Push(r, "value")
  BY <1>0, <1>2, PushIs DEF Pushes
<1> QED
  BY <1>1, <1>2 DEF PushJson

\* The table entry.
LEMMA SetTableFieldIs ==
    ASSUME NEW r, Going(r, 20), NEW t \in SetTableField(r)
    PROVE  Sets(r, t)
<1> DEFINE at == Len(r.st) + 1
           table == Then(ValidEntity(r), LAMBDA s : TableFrom(s, at))
           json == Then(table, PushJson)
           set(s) == SetFieldProtected(s, at + 1, "table")
           all == Then(json, set)
<1>0. /\ Clean(r) /\ Size(r) \in Nat /\ r.base \in Nat /\ LUA_MINSTACK \in Nat
      /\ Size(r) + 20 <= r.base + LUA_MINSTACK /\ Going(r, 8) /\ at = Size(r) + 1
      /\ Size(r) >= r.base
  BY Numbers DEF Going, Room, Size
<1>1. t \in Guarded(r, all)
  BY DEF SetTableField
<1>2. \A s \in table : \/ /\ Over(r, s, Size(r)) /\ s.how = "go" /\ Size(s) = Size(r) + 2
                          /\ At(s, at) = "entity" /\ At(s, at + 1) = "table"
                       \/ Lost(r, s, 3)
  <2>1. \A s \in table : \/ s \in ValidEntity(r) /\ s.how # "go"
                         \/ \E x \in ValidEntity(r) : x.how = "go" /\ s \in TableFrom(x, at)
    BY DEF Then
  <2> HIDE DEF table
  <2> QED
    BY <1>0, <2>1, ValidTableIs
<1> HIDE DEF table
<1>3. \A s \in json :
        \/ s \in table /\ s.how # "go"
        \/ \E x \in table : x.how = "go" /\ s \in PushJson(x)
  BY DEF Then
<1> HIDE DEF json
<1>4. \A s \in all : (s \in json /\ s.how # "go") \/ \E x \in json : x.how = "go" /\ s \in set(x)
  BY DEF Then
<1> HIDE DEF all, at
<1>5. ASSUME NEW s \in json
      PROVE  \/ /\ Over(r, s, Size(r)) /\ s.how = "go" /\ Size(s) = Size(r) + 3
                /\ At(s, at + 1) = "table" /\ At(s, Size(s)) = "value"
             \/ s.how # "go" /\ Sets(r, s)
  <2>1. CASE s \in table /\ s.how # "go"
    BY <1>2, <2>1, LostSets
  <2>2. ASSUME NEW x \in table, x.how = "go", s \in PushJson(x)
        PROVE  \/ /\ Over(r, s, Size(r)) /\ s.how = "go" /\ Size(s) = Size(r) + 3
                  /\ At(s, at + 1) = "table" /\ At(s, Size(s)) = "value"
               \/ s.how # "go" /\ Sets(r, s)
    <3>1. Over(r, x, Size(r)) /\ Size(x) = Size(r) + 2 /\ At(x, at + 1) = "table"
      BY <1>2, <2>2 DEF Lost
    <3>2. Going(x, 1)
      BY <1>0, <2>2, <3>1 DEF Going, Room, Over
    <3>3. Pushes(x, s, {"value"}) \/ Restores(x, s, "no")
      BY <2>2, <3>2, PushJsonIs
    <3>4. Over(x, s, Size(x))
      BY <3>3 DEF Pushes, Restores
    <3>5. Over(r, s, Size(r)) /\ At(s, at + 1) = "table"
      <4>1. Over(r, s, Size(r))
        BY <1>0, <3>1, <3>4, OverTrans
      <4>2. at + 1 \in 1..Size(x)
        BY <1>0, <3>1
      <4> QED
        BY <3>1, <3>4, <4>1, <4>2 DEF Over
    <3>6. CASE Pushes(x, s, {"value"})
      BY <1>0, <3>1, <3>5, <3>6 DEF Pushes
    <3>7. CASE Restores(x, s, "no")
      BY <3>5, <3>7, OverSets DEF Restores
    <3> QED
      BY <3>3, <3>6, <3>7
  <2> QED
    BY <1>3, <2>1, <2>2
<1>6. ASSUME NEW s \in all
      PROVE  Sets(r, s)
  <2>1. CASE s \in json /\ s.how # "go"
    BY <1>5, <2>1
  <2>2. ASSUME NEW x \in json, x.how = "go", s \in set(x)
        PROVE  Sets(r, s)
    <3>1. /\ Over(r, x, Size(r)) /\ Size(x) = Size(r) + 3
          /\ At(x, at + 1) = "table" /\ At(x, Size(x)) = "value"
      BY <1>5, <2>2
    <3>2. /\ Going(x, 5) /\ at + 1 \in 1..Size(x) /\ Size(x) - 1 >= x.base
          /\ x.base = r.base /\ x.done = r.done
      BY <1>0, <2>2, <3>1 DEF Going, Room, Over
    <3>3. s \in SetFieldProtected(x, at + 1, At(x, at + 1))
      BY <2>2, <3>1
    <3>4. Sets(x, s)
      BY <3>1, <3>2, <3>3, SetFieldProtectedIs
    <3> QED
      BY <3>2, <3>4 DEF Sets, Did
  <2> QED
    BY <1>4, <2>1, <2>2
<1> QED
  BY <1>0, <1>1, <1>6, SetGuardedIs

\* The field of the entity.
LEMMA SetFieldIs ==
    ASSUME NEW r, Going(r, 20), NEW t \in SetField(r)
    PROVE  Sets(r, t)
<1> DEFINE at == Len(r.st) + 1
           valid == ValidEntity(r)
           json == Then(valid, PushJson)
           set(s) == SetFieldProtected(s, at, "entity")
           all == Then(json, set)
<1>0. /\ Clean(r) /\ Size(r) \in Nat /\ r.base \in Nat /\ LUA_MINSTACK \in Nat
      /\ Size(r) + 20 <= r.base + LUA_MINSTACK /\ Going(r, 6) /\ at = Size(r) + 1
      /\ Size(r) >= r.base
  BY Numbers DEF Going, Room, Size
<1>1. t \in Guarded(r, all)
  BY DEF SetField
<1>2. \A s \in valid : Pushes(r, s, {"entity"}) \/ Lost(r, s, 3)
  BY <1>0, ValidEntityIs
<1> HIDE DEF valid
<1>3. \A s \in json :
        \/ s \in valid /\ s.how # "go"
        \/ \E x \in valid : x.how = "go" /\ s \in PushJson(x)
  BY DEF Then
<1> HIDE DEF json
<1>4. \A s \in all : (s \in json /\ s.how # "go") \/ \E x \in json : x.how = "go" /\ s \in set(x)
  BY DEF Then
<1> HIDE DEF all, at
<1>5. ASSUME NEW s \in json
      PROVE  \/ /\ Over(r, s, Size(r)) /\ s.how = "go" /\ Size(s) = Size(r) + 2
                /\ At(s, at) = "entity" /\ At(s, Size(s)) = "value"
             \/ s.how # "go" /\ Sets(r, s)
  <2>1. CASE s \in valid /\ s.how # "go"
    BY <1>2, <2>1, LostSets DEF Pushes
  <2>2. ASSUME NEW x \in valid, x.how = "go", s \in PushJson(x)
        PROVE  \/ /\ Over(r, s, Size(r)) /\ s.how = "go" /\ Size(s) = Size(r) + 2
                  /\ At(s, at) = "entity" /\ At(s, Size(s)) = "value"
               \/ s.how # "go" /\ Sets(r, s)
    <3>1. Over(r, x, Size(r)) /\ Size(x) = Size(r) + 1 /\ At(x, at) = "entity"
      BY <1>0, <1>2, <2>2 DEF Lost, Pushes
    <3>2. Going(x, 1)
      BY <1>0, <2>2, <3>1 DEF Going, Room, Over
    <3>3. Pushes(x, s, {"value"}) \/ Restores(x, s, "no")
      BY <2>2, <3>2, PushJsonIs
    <3>4. Over(x, s, Size(x))
      BY <3>3 DEF Pushes, Restores
    <3>5. Over(r, s, Size(r)) /\ At(s, at) = "entity"
      <4>1. Over(r, s, Size(r))
        BY <1>0, <3>1, <3>4, OverTrans
      <4>2. at \in 1..Size(x)
        BY <1>0, <3>1
      <4> QED
        BY <3>1, <3>4, <4>1, <4>2 DEF Over
    <3>6. CASE Pushes(x, s, {"value"})
      BY <1>0, <3>1, <3>5, <3>6 DEF Pushes
    <3>7. CASE Restores(x, s, "no")
      BY <3>5, <3>7, OverSets DEF Restores
    <3> QED
      BY <3>3, <3>6, <3>7
  <2> QED
    BY <1>3, <2>1, <2>2
<1>6. ASSUME NEW s \in all
      PROVE  Sets(r, s)
  <2>1. CASE s \in json /\ s.how # "go"
    BY <1>5, <2>1
  <2>2. ASSUME NEW x \in json, x.how = "go", s \in set(x)
        PROVE  Sets(r, s)
    <3>1. /\ Over(r, x, Size(r)) /\ Size(x) = Size(r) + 2
          /\ At(x, at) = "entity" /\ At(x, Size(x)) = "value"
      BY <1>5, <2>2
    <3>2. /\ Going(x, 5) /\ at \in 1..Size(x) /\ Size(x) - 1 >= x.base
          /\ x.base = r.base /\ x.done = r.done
      BY <1>0, <2>2, <3>1 DEF Going, Room, Over
    <3>3. s \in SetFieldProtected(x, at, At(x, at))
      BY <2>2, <3>1
    <3>4. Sets(x, s)
      BY <3>1, <3>2, <3>3, SetFieldProtectedIs
    <3> QED
      BY <3>2, <3>4 DEF Sets, Did
  <2> QED
    BY <1>4, <2>1, <2>2
<1> QED
  BY <1>0, <1>1, <1>6, SetGuardedIs

\* The method of a valid entity's that sets, or what stands in for it.
LEMMA SetterIs ==
    ASSUME NEW r, Going(r, 8), NEW at, at = Len(r.st) + 1, NEW t,
           \/ t \in ValidEntity(r) /\ t.how # "go"
           \/ \E s \in ValidEntity(r) : s.how = "go" /\ t \in GetFieldProtected(s, at, "entity")
    PROVE  \/ /\ Over(r, t, Size(r)) /\ t.how = "go" /\ Size(t) = Size(r) + 2
              /\ At(t, Size(t)) \in {"function", "other"}
              /\ Going(t, 4) /\ Size(t) - 2 >= t.base
           \/ t.how # "go" /\ Sets(r, t)
<1> DEFINE valid == ValidEntity(r)
<1>0. /\ Clean(r) /\ Size(r) \in Nat /\ r.base \in Nat /\ LUA_MINSTACK \in Nat
      /\ Size(r) + 8 <= r.base + LUA_MINSTACK /\ at = Size(r) + 1 /\ Going(r, 6)
      /\ Size(r) >= r.base
  BY Numbers DEF Going, Room, Size
<1>1. \A s \in valid : Pushes(r, s, {"entity"}) \/ Lost(r, s, 3)
  BY <1>0, ValidEntityIs
<1>4. \/ t \in valid /\ t.how # "go"
      \/ \E s \in valid : s.how = "go" /\ t \in GetFieldProtected(s, at, "entity")
  OBVIOUS
<1> HIDE DEF valid
<1>2. CASE t \in valid /\ t.how # "go"
  BY <1>1, <1>2, LostSets DEF Pushes
<1>3. ASSUME NEW s \in valid, s.how = "go", t \in GetFieldProtected(s, at, "entity")
      PROVE  \/ /\ Over(r, t, Size(r)) /\ t.how = "go" /\ Size(t) = Size(r) + 2
                /\ At(t, Size(t)) \in {"function", "other"}
                /\ Going(t, 4) /\ Size(t) - 2 >= t.base
             \/ t.how # "go" /\ Sets(r, t)
  <2>1. Pushes(r, s, {"entity"})
    BY <1>1, <1>3 DEF Lost
  <2>2. /\ Clean(s) /\ s.base = r.base /\ s.done = r.done /\ Over(r, s, Size(r))
        /\ Size(s) = Size(r) + 1 /\ At(s, at) = "entity"
    BY <1>0, <2>1, PushedIs
  <2>3. Going(s, 4) /\ at \in 1..Size(s) /\ t \in GetFieldProtected(s, at, At(s, at))
    BY <1>0, <1>3, <2>2 DEF Going, Room
  <2>4. Pushes(s, t, {"function", "other"}) \/ Fails(s, t)
    BY <2>3, GetFieldProtectedIs
  <2>5. CASE Pushes(s, t, {"function", "other"})
    <3>1. /\ Over(s, t, Size(s)) /\ t.how = "go" /\ Size(t) = Size(s) + 1
          /\ At(t, Size(t)) \in {"function", "other"}
      BY <2>5 DEF Pushes
    <3>2. Over(r, t, Size(r))
      BY <1>0, <2>2, <3>1, OverTrans
    <3>3. Going(t, 4) /\ Size(t) - 2 >= t.base
      BY <1>0, <2>2, <3>1, <3>2 DEF Going, Room, Over
    <3> QED
      BY <1>0, <2>2, <3>1, <3>2, <3>3
  <2>6. CASE Fails(s, t)
    BY <2>2, <2>6 DEF Fails, Leaves, Over, Sets
  <2> QED
    BY <2>4, <2>5, <2>6
<1> QED
  BY <1>2, <1>3, <1>4

\* The setter is called, and nothing is kept of the stack.
LEMMA CallSets ==
    ASSUME NEW r, NEW s, Over(r, s, Size(r)), Going(s, 2), Size(s) - 1 >= s.base,
           At(s, Size(s)) \in {"function", "other"},
           NEW t \in CallWithValue(Push(Push(s, "entity"), "value"))
    PROVE  Sets(r, t)
<1>1. Set(s, t, 1)
  BY CallWithValueIs
<1> QED
  BY <1>1, SetSets DEF Over

\* SetPos.
LEMMA SetPosIs ==
    ASSUME NEW r, Going(r, 20), NEW t \in SetPos(r)
    PROVE  Sets(r, t)
<1> DEFINE at == Len(r.st) + 1
           setter == Then(ValidEntity(r), LAMBDA s : GetFieldProtected(s, at, "entity"))
           call(s) == IF ~Is(s, "function") THEN {End(s, "no")}
                      ELSE CallWithValue(Push(Push(s, "entity"), "value"))
           all == Then(setter, call)
<1>0. Clean(r) /\ Going(r, 8) /\ "no" \in Hows /\ LUA_MINSTACK \in Nat
  BY Numbers DEF Going, Room, Hows
<1>1. t \in Guarded(r, all)
  BY DEF SetPos
<1>2. \A s \in setter : \/ /\ Over(r, s, Size(r)) /\ s.how = "go" /\ Size(s) = Size(r) + 2
                           /\ At(s, Size(s)) \in {"function", "other"}
                           /\ Going(s, 4) /\ Size(s) - 2 >= s.base
                        \/ s.how # "go" /\ Sets(r, s)
  <2>1. \A s \in setter : \/ s \in ValidEntity(r) /\ s.how # "go"
                          \/ \E x \in ValidEntity(r) :
                               x.how = "go" /\ s \in GetFieldProtected(x, at, "entity")
    BY DEF Then
  <2> HIDE DEF setter
  <2> QED
    BY <1>0, <2>1, SetterIs
<1> HIDE DEF setter
<1>3. \A s \in all :
        \/ s \in setter /\ s.how # "go"
        \/ \E x \in setter : x.how = "go" /\ s \in call(x)
  BY DEF Then
<1> HIDE DEF all
<1>4. ASSUME NEW s \in all
      PROVE  Sets(r, s)
  <2>1. CASE s \in setter /\ s.how # "go"
    BY <1>2, <2>1
  <2>2. ASSUME NEW x \in setter, x.how = "go", s \in call(x)
        PROVE  Sets(r, s)
    <3>1. /\ Over(r, x, Size(r)) /\ At(x, Size(x)) \in {"function", "other"}
          /\ Going(x, 4) /\ Size(x) - 2 >= x.base
      BY <1>2, <2>2
    <3>2. Going(x, 2) /\ Size(x) - 1 >= x.base
      BY <3>1, Numbers DEF Going, Room
    <3>3. CASE Is(x, "function")
      <4>1. s \in CallWithValue(Push(Push(x, "entity"), "value"))
        BY <2>2, <3>3
      <4> QED
        BY <3>1, <3>2, <4>1, CallSets
    <3>4. CASE ~Is(x, "function")
      <4>1. Over(r, s, Size(r)) /\ s.how = "no"
        BY <1>0, <2>2, <3>1, <3>4, EndedIs
      <4> QED
        BY <4>1, OverSets
    <3> QED
      BY <3>3, <3>4
  <2> QED
    BY <1>3, <2>1, <2>2
<1> QED
  BY <1>0, <1>1, <1>4, SetGuardedIs

\* SetHealth.
LEMMA SetHealthIs ==
    ASSUME NEW r, Going(r, 20), NEW t \in SetHealth(r)
    PROVE  Sets(r, t)
<1> DEFINE at == Len(r.st) + 1
           setter == Then(ValidEntity(r), LAMBDA s : GetFieldProtected(s, at, "entity"))
           call(s) == IF ~Is(s, "function") THEN {End(Pop(s, 1), "no")}
                      ELSE Caught(CallWithValue(Push(Push(s, "entity"), "value")))
           all == Then(setter, call)
<1>0. /\ Clean(r) /\ Going(r, 8) /\ "no" \in Hows /\ LUA_MINSTACK \in Nat /\ Size(r) \in Nat
  BY Numbers DEF Going, Room, Hows
<1>1. t \in Guarded(r, all)
  BY DEF SetHealth
<1>2. \A s \in setter : \/ /\ Over(r, s, Size(r)) /\ s.how = "go" /\ Size(s) = Size(r) + 2
                           /\ At(s, Size(s)) \in {"function", "other"}
                           /\ Going(s, 4) /\ Size(s) - 2 >= s.base
                        \/ s.how # "go" /\ Sets(r, s)
  <2>1. \A s \in setter : \/ s \in ValidEntity(r) /\ s.how # "go"
                          \/ \E x \in ValidEntity(r) :
                               x.how = "go" /\ s \in GetFieldProtected(x, at, "entity")
    BY DEF Then
  <2> HIDE DEF setter
  <2> QED
    BY <1>0, <2>1, SetterIs
<1> HIDE DEF setter
<1>3. \A s \in all :
        \/ s \in setter /\ s.how # "go"
        \/ \E x \in setter : x.how = "go" /\ s \in call(x)
  BY DEF Then
<1> HIDE DEF all
<1>4. ASSUME NEW s \in all
      PROVE  Sets(r, s)
  <2>1. CASE s \in setter /\ s.how # "go"
    BY <1>2, <2>1
  <2>2. ASSUME NEW x \in setter, x.how = "go", s \in call(x)
        PROVE  Sets(r, s)
    <3>1. /\ Over(r, x, Size(r)) /\ At(x, Size(x)) \in {"function", "other"}
          /\ Going(x, 4) /\ Size(x) - 2 >= x.base /\ Size(x) = Size(r) + 2
      BY <1>2, <2>2
    <3>2. Going(x, 2) /\ Size(x) - 1 >= x.base
      BY <3>1, Numbers DEF Going, Room
    <3>3. CASE Is(x, "function")
      <4>1. PICK c \in CallWithValue(Push(Push(x, "entity"), "value")) :
                s = IF c.how = "thrown" THEN End(c, "no") ELSE c
        BY <2>2, <3>3 DEF Caught
      <4>2. Sets(r, c)
        BY <3>1, <3>2, CallSets
      <4>3. CASE c.how = "thrown"
        <5>1. Clean(c) /\ c.base = r.base /\ c.done = r.done
          BY <4>2, <4>3 DEF Sets
        <5>2. Over(c, s, Size(c)) /\ s.how = "no"
          BY <1>0, <4>1, <4>3, <5>1, EndIs
        <5> QED
          BY <5>1, <5>2 DEF Over, Sets
      <4> QED
        BY <4>1, <4>2, <4>3
    <3>4. CASE ~Is(x, "function")
      <4>1. Over(r, s, Size(r)) /\ s.how = "no"
        BY <1>0, <2>2, <3>1, <3>4, PopEndedIs
      <4> QED
        BY <4>1, OverSets
    <3> QED
      BY <3>3, <3>4
  <2> QED
    BY <1>3, <2>1, <2>2
<1> QED
  BY <1>0, <1>1, <1>4, SetGuardedIs

\* SetNetworkVar; the value may be refused.
LEMMA SetNetworkVarIs ==
    ASSUME NEW r, Going(r, 20), NEW t \in SetNetworkVar(r)
    PROVE  Sets(r, t)
<1> DEFINE at == Len(r.st) + 1
           setter == Then(ValidEntity(r), LAMBDA s : GetFieldProtected(s, at, "entity"))
           json(s) == {IF u.how = "no" THEN Pop(u, 2) ELSE u : u \in PushJson(s)}
           push(s) == IF Is(s, "function") THEN json(Push(s, "entity")) ELSE {End(Pop(s, 1), "no")}
           pushed == Then(setter, push)
           all == Then(pushed, CallWithValue)
<1>0. /\ Clean(r) /\ Going(r, 8) /\ "no" \in Hows /\ LUA_MINSTACK \in Nat /\ Size(r) \in Nat
      /\ "entity" \in Slots
  BY Numbers DEF Going, Room, Hows, Slots
<1>1. t \in Guarded(r, all)
  BY DEF SetNetworkVar
<1>2. \A s \in setter : \/ /\ Over(r, s, Size(r)) /\ s.how = "go" /\ Size(s) = Size(r) + 2
                           /\ At(s, Size(s)) \in {"function", "other"}
                           /\ Going(s, 4) /\ Size(s) - 2 >= s.base
                        \/ s.how # "go" /\ Sets(r, s)
  <2>1. \A s \in setter : \/ s \in ValidEntity(r) /\ s.how # "go"
                          \/ \E x \in ValidEntity(r) :
                               x.how = "go" /\ s \in GetFieldProtected(x, at, "entity")
    BY DEF Then
  <2> HIDE DEF setter
  <2> QED
    BY <1>0, <2>1, SetterIs
<1> HIDE DEF setter
<1>3. \A s \in pushed :
        \/ s \in setter /\ s.how # "go"
        \/ \E x \in setter : x.how = "go" /\ s \in push(x)
  BY DEF Then
<1> HIDE DEF pushed
<1>4. \A s \in all : \/ s \in pushed /\ s.how # "go"
                     \/ \E x \in pushed : x.how = "go" /\ s \in CallWithValue(x)
  BY DEF Then
<1> HIDE DEF all
<1>5. ASSUME NEW s \in pushed
      PROVE  \/ s.how # "go" /\ Sets(r, s)
             \/ \E x : /\ Over(r, x, Size(r)) /\ Going(x, 2) /\ Size(x) - 1 >= x.base
                       /\ At(x, Size(x)) \in {"function", "other"}
                       /\ s = Push(Push(x, "entity"), "value")
  <2>1. CASE s \in setter /\ s.how # "go"
    BY <1>2, <2>1
  <2>2. ASSUME NEW x \in setter, x.how = "go", s \in push(x)
        PROVE  \/ s.how # "go" /\ Sets(r, s)
               \/ /\ Over(r, x, Size(r)) /\ Going(x, 2) /\ Size(x) - 1 >= x.base
                  /\ At(x, Size(x)) \in {"function", "other"}
                  /\ s = Push(Push(x, "entity"), "value")
    <3>1. /\ Over(r, x, Size(r)) /\ At(x, Size(x)) \in {"function", "other"}
          /\ Going(x, 4) /\ Size(x) - 2 >= x.base /\ Size(x) = Size(r) + 2
      BY <1>2, <2>2
    <3>2. Going(x, 2) /\ Size(x) - 1 >= x.base /\ Clean(x) /\ x.how = "go" /\ Room(x, 1)
      BY <3>1, Numbers DEF Going, Room
    <3>3. CASE Is(x, "function")
      <4> DEFINE e == Push(x, "entity")
      <4>1. s \in json(e)
        BY <2>2, <3>3
      <4>2. PICK u \in PushJson(e) : s = IF u.how = "no" THEN Pop(u, 2) ELSE u
        BY <4>1
      <4>3. Over(x, e, Size(x)) /\ e.how = "go" /\ Size(e) = Size(x) + 1
        BY <1>0, <3>2, PushIs
      <4>4. Over(r, e, Size(r)) /\ Clean(e)
        BY <1>0, <3>1, <4>3, OverTrans DEF Over
      <4>5. u = End(e, "no") \/ u = Push(e, "value")
        BY <4>2 DEF PushJson
      <4>6. CASE u = End(e, "no")
        <5>1. Over(r, u, Size(r)) /\ u.how = "no" /\ Size(u) = Size(e)
          BY <1>0, <4>4, <4>6, EndedIs
        <5>2. s = Pop(u, 2)
          BY <4>2, <5>1
        <5>3. Over(r, s, Size(r)) /\ s.how = "no"
          BY <1>0, <3>1, <4>3, <5>1, <5>2, PoppedIs
        <5> QED
          BY <5>3, OverSets
      <4>7. CASE u = Push(e, "value")
        <5>1. u.how = "go"
          <6>1. Room(e, 1) /\ "value" \in Slots
            BY <1>0, <3>1, <3>2, <4>3 DEF Going, Room, Over, Slots
          <6> QED
            BY <4>3, <4>4, <4>7, <6>1, PushIs
        <5>2. s = u
          BY <4>2, <5>1
        <5> QED
          BY <3>1, <3>2, <4>7, <5>2
      <4> QED
        BY <4>5, <4>6, <4>7
    <3>4. CASE ~Is(x, "function")
      <4>1. Over(r, s, Size(r)) /\ s.how = "no"
        BY <1>0, <2>2, <3>1, <3>4, PopEndedIs
      <4> QED
        BY <4>1, OverSets
    <3> QED
      BY <3>3, <3>4
  <2> QED
    BY <1>3, <2>1, <2>2
<1>6. ASSUME NEW s \in all
      PROVE  Sets(r, s)
  <2>1. CASE s \in pushed /\ s.how # "go"
    <3>1. \A x : /\ Over(r, x, Size(r)) /\ Going(x, 2)
                 => Push(Push(x, "entity"), "value").how = "go"
      <4> SUFFICES ASSUME NEW x, Going(x, 2)
                   PROVE  Push(Push(x, "entity"), "value").how = "go"
        OBVIOUS
      <4>1. Clean(x) /\ Room(x, 2) /\ x.how = "go" /\ "value" \in Slots
        BY DEF Going, Slots
      <4> QED
        BY <1>0, <4>1, Push2Is
    <3> QED
      BY <1>5, <2>1, <3>1
  <2>2. ASSUME NEW y \in pushed, y.how = "go", s \in CallWithValue(y)
        PROVE  Sets(r, s)
    <3>1. PICK x : /\ Over(r, x, Size(r)) /\ Going(x, 2) /\ Size(x) - 1 >= x.base
                   /\ At(x, Size(x)) \in {"function", "other"}
                   /\ y = Push(Push(x, "entity"), "value")
      BY <1>5, <2>2
    <3>2. s \in CallWithValue(Push(Push(x, "entity"), "value"))
      BY <2>2, <3>1
    <3> QED
      BY <3>1, <3>2, CallSets
  <2> QED
    BY <1>4, <2>1, <2>2
<1> QED
  BY <1>0, <1>1, <1>6, SetGuardedIs

\* try_invoke_entity_angle_setter; FALSE may leave what stood for the setter's key.
LEMMA TrySetterIs ==
    ASSUME NEW r, Going(r, 4), NEW at \in 1..Size(r), At(r, at) = "entity",
           NEW t \in TrySetter(r, at)
    PROVE  \/ t.how = "go" /\ Did(r, t)
           \/ t.how = "no" /\ Leaves(r, t, 1)
           \/ t.how = "raised" /\ Leaves(r, t, 2)
<1> DEFINE field == GetFieldProtected(r, at, "entity")
           call(s) == IF ~Is(s, "function") THEN {End(Pop(s, 1), "no")}
                      ELSE CallWithValue(Push(Push(s, "entity"), "value"))
           all == Then(field, call)
<1>0. /\ Clean(r) /\ Size(r) \in Nat /\ "no" \in Hows /\ r.base \in Nat /\ LUA_MINSTACK \in Nat
      /\ Size(r) + 4 <= r.base + LUA_MINSTACK
  BY Numbers DEF Going, Room, Hows
<1>1. PICK u \in all : t = IF u.how = "thrown" THEN End(u, "no") ELSE u
  BY DEF TrySetter, Caught
<1>2. (u \in field /\ u.how # "go") \/ \E s \in field : s.how = "go" /\ u \in call(s)
  BY <1>1 DEF Then
<1>3. \A s \in field : Pushes(r, s, {"function", "other"}) \/ Fails(r, s)
  BY GetFieldProtectedIs
<1> HIDE DEF field, all
<1>4. \/ u.how = "go" /\ Did(r, u)
      \/ u.how \in {"no", "thrown"} /\ Leaves(r, u, 1)
      \/ u.how = "raised" /\ Leaves(r, u, 2)
  <2>1. CASE u \in field /\ u.how # "go"
    BY <1>3, <2>1 DEF Pushes, Fails
  <2>2. ASSUME NEW s \in field, s.how = "go", u \in call(s)
        PROVE  \/ u.how = "go" /\ Did(r, u)
               \/ u.how \in {"no", "thrown"} /\ Leaves(r, u, 1)
    <3>1. Pushes(r, s, {"function", "other"})
      BY <1>3, <2>2 DEF Fails
    <3>2. /\ Clean(s) /\ s.base = r.base /\ s.done = r.done /\ Over(r, s, Size(r))
          /\ Size(s) = Size(r) + 1 /\ At(s, Size(s)) \in {"function", "other"}
          /\ Size(s) - 1 >= s.base
      BY <1>0, <3>1, PushedIs
    <3>3. CASE Is(s, "function")
      <4>1. u \in CallWithValue(Push(Push(s, "entity"), "value")) /\ Going(s, 2)
        BY <1>0, <2>2, <3>2, <3>3 DEF Going, Room
      <4>2. Set(s, u, 1)
        BY <3>2, <4>1, CallWithValueIs
      <4>3. CASE u.how = "thrown"
        <5>1. Over(s, u, Size(s) - 1) /\ Size(u) = Size(s) - 1
          BY <4>2, <4>3 DEF Set
        <5>2. Over(r, u, Size(r))
          BY <1>0, <3>2, <5>1, OverTrans
        <5> QED
          BY <1>0, <3>2, <4>3, <5>1, <5>2 DEF Leaves
      <4>4. CASE u.how # "thrown"
        BY <3>2, <4>2, <4>4 DEF Set, Did
      <4> QED
        BY <4>3, <4>4
    <3>4. CASE ~Is(s, "function")
      <4>1. Over(r, u, Size(r)) /\ u.how = "no" /\ Size(u) = Size(r)
        BY <1>0, <2>2, <3>2, <3>4, PopEndedIs
      <4> QED
        BY <1>0, <4>1 DEF Leaves
    <3> QED
      BY <3>3, <3>4
  <2> QED
    BY <1>2, <2>1, <2>2
<1>5. CASE u.how = "thrown"
  <2>1. Over(r, u, Size(r)) /\ Size(u) <= Size(r) + 1
    BY <1>4, <1>5 DEF Leaves
  <2>2. Over(r, t, Size(r)) /\ t.how = "no" /\ Size(t) = Size(u)
    BY <1>0, <1>1, <1>5, <2>1, EndedIs
  <2> QED
    BY <2>1, <2>2 DEF Leaves
<1> QED
  BY <1>1, <1>4, <1>5

\* SetAngles, and SetEyeAngles only when that set nothing.
LEMMA SetAnglesIs ==
    ASSUME NEW r, Going(r, 20), NEW t \in SetAngles(r)
    PROVE  Sets(r, t)
<1> DEFINE at == Len(r.st) + 1
           valid == ValidEntity(r)
           first(s) == TrySetter(s, at)
           again(s) == {x \in first(s) : x.how # "no"}
                         \cup UNION {first(End(x, "go")) : x \in {y \in first(s) : y.how = "no"}}
           all == Then(valid, again)
<1>0. /\ Clean(r) /\ Size(r) \in Nat /\ r.base \in Nat /\ LUA_MINSTACK \in Nat
      /\ Size(r) + 20 <= r.base + LUA_MINSTACK /\ Going(r, 6) /\ at = Size(r) + 1
      /\ "go" \in Hows
  BY Numbers DEF Going, Room, Hows, Size
<1>1. t \in Guarded(r, all)
  BY DEF SetAngles
<1>2. \A s \in valid : Pushes(r, s, {"entity"}) \/ Lost(r, s, 3)
  BY <1>0, ValidEntityIs
<1> HIDE DEF valid
<1>3. \A s \in all :
        \/ s \in valid /\ s.how # "go"
        \/ \E x \in valid : x.how = "go" /\ s \in again(x)
  BY DEF Then
<1> HIDE DEF all, at
<1>4. ASSUME NEW s \in all
      PROVE  Sets(r, s)
  <2>1. CASE s \in valid /\ s.how # "go"
    BY <1>2, <2>1, LostSets DEF Pushes
  <2>2. ASSUME NEW x \in valid, x.how = "go", s \in again(x)
        PROVE  Sets(r, s)
    <3>1. Pushes(r, x, {"entity"})
      BY <1>2, <2>2 DEF Lost
    <3>2. /\ Clean(x) /\ x.base = r.base /\ x.done = r.done /\ Over(r, x, Size(r))
          /\ Size(x) = Size(r) + 1 /\ At(x, at) = "entity"
      BY <1>0, <3>1, PushedIs
    <3>3. Going(x, 4) /\ at \in 1..Size(x)
      BY <1>0, <2>2, <3>2 DEF Going, Room
    <3>4. \/ s \in first(x) /\ s.how # "no"
          \/ \E y \in first(x) : y.how = "no" /\ s \in first(End(y, "go"))
      BY <2>2
    <3>5. CASE s \in first(x) /\ s.how # "no"
      <4>1. (s.how = "go" /\ Did(x, s)) \/ (s.how = "raised" /\ Over(x, s, Size(x)))
        BY <3>2, <3>3, <3>5, TrySetterIs DEF Leaves
      <4> QED
        BY <3>2, <4>1 DEF Did, Over, Sets
    <3>6. ASSUME NEW y \in first(x), y.how = "no", s \in first(End(y, "go"))
          PROVE  Sets(r, s)
      <4> DEFINE e == End(y, "go")
      <4>1. Over(x, y, Size(x)) /\ Size(y) <= Size(x) + 1
        BY <3>2, <3>3, <3>6, TrySetterIs DEF Leaves
      <4>2. Over(x, e, Size(x)) /\ e.how = "go" /\ Size(e) = Size(y)
        BY <1>0, <3>2, <4>1, EndedIs
      <4>3. s \in TrySetter(e, at)
        BY <3>6
      <4> HIDE DEF e
      <4>4. Clean(e) /\ e.base = r.base /\ e.done = r.done /\ Size(e) >= Size(x) /\ Size(e) \in Nat
        <5>1. Clean(e) /\ e.base = r.base /\ e.done = r.done /\ Size(e) >= Size(x)
          BY <1>0, <3>2, <4>2 DEF Over
        <5> QED
          BY <5>1, Numbers
      <4>5. Going(e, 4) /\ at \in 1..Size(e) /\ At(e, at) = "entity"
        BY <1>0, <3>2, <3>3, <4>1, <4>2, <4>4 DEF Going, Room, Over
      <4>6. \/ s.how = "go" /\ Did(e, s)
            \/ s.how \in {"no", "raised"} /\ Over(e, s, Size(e))
        BY <4>3, <4>5, TrySetterIs DEF Leaves
      <4> QED
        BY <4>4, <4>6 DEF Did, Over, Sets
    <3> QED
      BY <3>4, <3>5, <3>6
  <2> QED
    BY <1>3, <2>1, <2>2
<1> QED
  BY <1>0, <1>1, <1>4, SetGuardedIs

-----------------------------------------------------------------------------
(* The requests, and the invariant.                                        *)

\* A stack of any depth, of any slots, and any chunks in the registry.
TypeOK == stack \in Seq(Slots) /\ chunks \in SUBSET Slots

\* What a request's run has come to, and what its reply will say of it.
Result(t, setter) ==
    /\ t.bad = FALSE /\ t.low = 0 /\ t.peak <= LUA_MINSTACK /\ t.chunks \in SUBSET Slots
    /\ \/ t.how \in {"go", "done"} /\ t.done = (IF setter THEN 1 ELSE 0)
       \/ t.how \in {"no", "thrown", "raised"} /\ t.done = 0
    /\ t.how = "raised" \/ t.st = stack

LEMMA StartIs ==
    ASSUME TypeOK, NEW st \in Seq(Slots)
    PROVE  /\ Going(StartRun(st), 20) /\ StartRun(st).base = Len(st)
           /\ StartRun(st).done = 0 /\ StartRun(st).st = st
           /\ Size(StartRun(st)) = Len(st)
<1> DEFINE r == StartRun(st)
<1>1. r \in Runs
  <2>1. "go" \in Hows /\ Len(st) \in Nat
    BY DEF Hows
  <2> QED
    BY <2>1 DEF TypeOK, StartRun, Runs
<1>2. /\ r.st = st /\ r.base = Len(st) /\ r.how = "go" /\ r.bad = FALSE /\ r.peak = 0
      /\ r.low = 0 /\ r.done = 0
  BY DEF StartRun
<1> HIDE DEF r
<1>3. Size(r) = Len(st) /\ Len(st) \in Nat
  BY <1>2 DEF Size
<1>4. Clean(r)
  BY <1>1, <1>2, <1>3, ConstantsAssumption DEF Clean
<1>5. Room(r, 20)
  BY <1>2, <1>3, ConstantsAssumption DEF Room
<1> QED
  BY <1>2, <1>3, <1>4, <1>5 DEF r, Going

LEMMA FrameIs ==
    ASSUME TypeOK
    PROVE  Going(Frame, 20) /\ Frame.done = 0 /\ Clean(Frame)
<1>1. <<"userdata">> \in Seq(Slots)
  <2>1. "userdata" \in Slots
    BY DEF Slots
  <2> QED
    BY <2>1
<1> QED
  BY <1>1, StartIs DEF Frame, Going

\* run_in_c_frame leaves the caller's stack as it was, however the query left.
LEMMA InCFrameIs ==
    ASSUME TypeOK, NEW setter \in BOOLEAN, NEW runs,
           \A r \in runs : IF setter THEN Sets(Frame, r) ELSE Asks(Frame, r),
           NEW t \in RunInCFrame(runs)
    PROVE  Result(t, setter) /\ t.how # "raised"
<1> DEFINE start == StartRun(stack)
           left(r) == IF r.how = "raised" THEN Append(stack, "error") ELSE stack
           back(r) == [r EXCEPT !.st = left(r), !.how = IF @ = "raised" THEN "thrown" ELSE @]
<1>0. start.st = stack /\ stack \in Seq(Slots) /\ "thrown" \in Hows /\ "error" \in Slots
  BY StartIs DEF TypeOK, Hows, Slots
<1>1. PICK r \in {End(Frame, "no")} \cup runs :
          t = IF Len(back(r).st) > Len(stack) THEN [back(r) EXCEPT !.st = SubSeq(@, 1, Len(stack))]
              ELSE back(r)
  BY <1>0 DEF RunInCFrame, Guarded
<1>2. /\ Clean(r) /\ r.how \in {"go", "no", "thrown", "raised"}
      /\ r.done = (IF setter /\ r.how = "go" THEN 1 ELSE 0)
  <2>1. CASE r = End(Frame, "no")
    <3>1. Over(Frame, r, Size(Frame)) /\ r.how = "no"
      BY <2>1, FrameIs, EndIs DEF Hows
    <3> QED
      BY <3>1, FrameIs DEF Over
  <2>2. CASE r \in runs
    <3>1. CASE setter
      BY <2>2, <3>1, FrameIs DEF Sets, Did
    <3>2. CASE ~setter
      BY <2>2, <3>2, FrameIs DEF Asks, Over
    <3> QED
      BY <3>1, <3>2
  <2> QED
    BY <2>1, <2>2
<1>3. /\ r \in Runs /\ r.bad = FALSE /\ r.low = 0 /\ r.peak <= LUA_MINSTACK
      /\ r.chunks \in SUBSET Slots
  <2>1. r \in Runs /\ r.bad = FALSE /\ r.low = 0 /\ r.peak <= LUA_MINSTACK
    BY <1>2, CleanIs
  <2> QED
    BY <2>1 DEF Runs
<1>4. left(r) \in Seq(Slots)
  BY <1>0
<1> DEFINE how == IF r.how = "raised" THEN "thrown" ELSE r.how
<1>5. /\ back(r) \in Runs /\ back(r).st = left(r) /\ back(r).how = how
      /\ back(r).bad = FALSE /\ back(r).low = 0 /\ back(r).peak = r.peak
      /\ back(r).done = r.done /\ back(r).chunks = r.chunks
  BY <1>0, <1>2, <1>3, <1>4 DEF Runs
<1>6. t.st = stack
  <2>1. CASE r.how = "raised"
    <3>1. Len(left(r)) = Len(stack) + 1 /\ Len(stack) \in Nat
      BY <1>0, <2>1, AppendProperties
    <3> DEFINE y == SubSeq(left(r), 1, Len(stack))
    <3>2. t.st = y
      BY <1>1, <1>5, <3>1 DEF Runs
    <3>3. y \in Seq(Slots) /\ Len(y) = Len(stack) /\ \A i \in 1..Len(y) : y[i] = stack[i]
      <4>1. \A i \in 1..Len(stack) : left(r)[i] = stack[i]
        BY <1>0, <2>1, AppendProperties
      <4> HIDE DEF left
      <4> QED
        BY <1>4, <3>1, <4>1
    <3> HIDE DEF y
    <3>4. y = stack
      BY <1>0, <3>3, SeqEqual
    <3> QED
      BY <3>2, <3>4
  <2>2. CASE r.how # "raised"
    <3>1. left(r) = stack /\ Len(stack) \in Nat
      BY <1>0, <2>2
    <3> QED
      BY <1>1, <1>5, <3>1
  <2> QED
    BY <2>1, <2>2
<1>7. /\ t.how = how /\ t.bad = FALSE /\ t.low = 0 /\ t.peak = r.peak
      /\ t.done = r.done /\ t.chunks = r.chunks
  <2> HIDE DEF back, how
  <2> QED
    BY <1>1, <1>5 DEF Runs
<1>8. Result(t, setter)
  BY <1>2, <1>3, <1>6, <1>7 DEF Result
<1> QED
  BY <1>2, <1>7, <1>8

\* A function of a table in the globals, above the two: or not, with what was pushed.
LEMMA GlobalMethodIs ==
    ASSUME NEW r, Going(r, 20), NEW t \in PushGlobalMethod(r)
    PROVE  /\ Over(r, t, Size(r))
           /\ \/ t.how \in {"no", "raised"}
              \/ t.how = "go" /\ Size(t) = Size(r) + 3 /\ At(t, Size(t)) = "function"
<1> DEFINE globals == Push(r, "globals")
           table == GetField(globals, {"table", "other"})
           ask(s) == IF Is(s, "table") THEN GetField(s, {"function", "other"}) ELSE {End(s, "no")}
           method == Then(table, ask)
           got(s) == IF Is(s, "function") THEN {s} ELSE {End(s, "no")}
<1>0. /\ Clean(r) /\ r.how = "go" /\ Size(r) \in Nat /\ r.base \in Nat /\ LUA_MINSTACK \in Nat
      /\ Size(r) + 20 <= r.base + LUA_MINSTACK /\ Room(r, 1) /\ "globals" \in Slots
      /\ {"table", "other"} \in SUBSET Slots /\ {"function", "other"} \in SUBSET Slots
      /\ "no" \in Hows
  BY Numbers DEF Going, Room, Slots, Hows
<1>1. (t \in method /\ t.how # "go") \/ \E s \in method : s.how = "go" /\ t \in got(s)
  BY DEF PushGlobalMethod, Then
<1>2. \A s \in method :
        \/ s \in table /\ s.how # "go"
        \/ \E x \in table : x.how = "go" /\ s \in ask(x)
  BY DEF Then
<1> HIDE DEF method
<1>3. Over(r, globals, Size(r)) /\ Size(globals) = Size(r) + 1 /\ Going(globals, 1)
  <2>1. Over(r, globals, Size(r)) /\ Size(globals) = Size(r) + 1 /\ globals.how = "go"
    BY <1>0, PushIs
  <2> QED
    BY <1>0, <2>1 DEF Over, Going, Room
<1> HIDE DEF globals
<1>4. ASSUME NEW s \in table
      PROVE  Over(r, s, Size(r)) /\ (s.how = "raised" \/ (s.how = "go" /\ Size(s) = Size(r) + 2))
  <2>1. Pushes(globals, s, {"table", "other"}) \/ Restores(globals, s, "raised")
    BY <1>0, <1>3, GetFieldIs
  <2>2. Over(r, s, Size(r))
    BY <1>0, <1>3, <2>1, OverTrans DEF Pushes, Restores
  <2> QED
    BY <1>0, <1>3, <2>1, <2>2 DEF Pushes, Restores
<1> HIDE DEF table
<1>5. ASSUME NEW s \in method
      PROVE  /\ Over(r, s, Size(r))
             /\ s.how \in {"no", "raised"} \/ (s.how = "go" /\ Size(s) = Size(r) + 3)
  <2>1. CASE s \in table /\ s.how # "go"
    BY <1>4, <2>1
  <2>2. ASSUME NEW x \in table, x.how = "go", s \in ask(x)
        PROVE  /\ Over(r, s, Size(r))
               /\ s.how \in {"no", "raised"} \/ (s.how = "go" /\ Size(s) = Size(r) + 3)
    <3>1. Over(r, x, Size(r)) /\ Size(x) = Size(r) + 2
      BY <1>4, <2>2
    <3>2. CASE Is(x, "table")
      <4>1. Going(x, 1)
        BY <1>0, <2>2, <3>1 DEF Going, Room, Over
      <4>2. Pushes(x, s, {"function", "other"}) \/ Restores(x, s, "raised")
        BY <1>0, <2>2, <3>2, <4>1, GetFieldIs
      <4>3. Over(r, s, Size(r))
        BY <1>0, <3>1, <4>2, OverTrans DEF Pushes, Restores
      <4> QED
        BY <1>0, <3>1, <4>2, <4>3 DEF Pushes, Restores
    <3>3. CASE ~Is(x, "table")
      BY <1>0, <2>2, <3>1, <3>3, EndedIs
    <3> QED
      BY <3>2, <3>3
  <2> QED
    BY <1>2, <2>1, <2>2
<1>6. CASE t \in method /\ t.how # "go"
  BY <1>5, <1>6
<1>7. ASSUME NEW s \in method, s.how = "go", t \in got(s)
      PROVE  /\ Over(r, t, Size(r))
             /\ \/ t.how \in {"no", "raised"}
                \/ t.how = "go" /\ Size(t) = Size(r) + 3 /\ At(t, Size(t)) = "function"
  <2>1. Over(r, s, Size(r)) /\ Size(s) = Size(r) + 3 /\ Clean(s)
    BY <1>5, <1>7 DEF Over
  <2>2. CASE Is(s, "function")
    BY <1>7, <2>1, <2>2, TopIs
  <2>3. CASE ~Is(s, "function")
    BY <1>0, <1>7, <2>1, <2>3, EndedIs
  <2> QED
    BY <2>2, <2>3
<1> QED
  BY <1>1, <1>6, <1>7

\* What a request that uses the caller's stack starts from; a run of it that has kept the
\* caller's slots.
Start == StartRun(stack)
Upon(t) == Over(Start, t, Size(Start))

LEMMA StartFacts ==
    ASSUME TypeOK
    PROVE  /\ Going(Start, 20) /\ Clean(Start) /\ Start.base = Size(Start) /\ Start.done = 0
           /\ Start.st = stack /\ Size(Start) = Len(stack) /\ Len(stack) \in Nat
           /\ LUA_MINSTACK \in Nat /\ LUA_MINSTACK >= 20
<1>1. stack \in Seq(Slots)
  BY DEF TypeOK
<1> QED
  BY <1>1, StartIs, ConstantsAssumption DEF Start, Going

\* RestoreTop gives back the caller's stack.
LEMMA RestoreTopIs ==
    ASSUME TypeOK, NEW s, Upon(s)
    PROVE  Upon(RestoreTop(s)) /\ RestoreTop(s).how = s.how /\ RestoreTop(s).st = stack
<1> DEFINE t == RestoreTop(s)
<1>0. /\ Start.base = Size(Start) /\ Start.st = stack /\ Size(Start) = Len(stack)
      /\ Len(stack) \in Nat /\ stack \in Seq(Slots)
  BY StartFacts DEF TypeOK
<1>1. Clean(s) /\ s.base = Len(stack) /\ Len(stack) <= Size(s)
  BY <1>0 DEF Upon, Over
<1>2. t = [s EXCEPT !.st = SubSeq(@, 1, Len(stack))]
  BY DEF RestoreTop
<1>3. Over(s, t, Len(stack)) /\ t.how = s.how /\ Size(t) = Len(stack)
  BY <1>0, <1>1, <1>2, CutIs
<1> HIDE DEF t
<1>4. Upon(t)
  BY <1>0, <1>3, OverTrans DEF Upon
<1>5. t.st = stack
  <2> DEFINE y == t.st
  <2>1. y \in Seq(Slots) /\ Len(y) = Len(stack)
    BY <1>3, <1>4, CleanIs DEF Upon, Over, Size
  <2>2. \A k \in 1..Len(stack) : y[k] = stack[k]
    BY <1>0, <1>4 DEF Upon, Over, At
  <2> HIDE DEF y
  <2>3. y = stack
    BY <1>0, <2>1, <2>2, SeqEqual
  <2> QED
    BY <2>3 DEF y
<1> QED
  BY <1>3, <1>4, <1>5 DEF t

\* The ends a request may come to.
LEMMA UponIs ==
    ASSUME TypeOK, NEW t, Upon(t)
    PROVE  /\ Clean(t) /\ t \in Runs /\ t.bad = FALSE /\ t.low = 0 /\ t.peak <= LUA_MINSTACK
           /\ t.chunks \in SUBSET Slots /\ t.done = 0 /\ t.base = Size(Start)
           /\ Size(t) \in Nat /\ Size(Start) <= Size(t)
<1>1. Clean(t) /\ t.done = 0 /\ t.base = Size(Start) /\ Size(Start) <= Size(t)
  BY StartFacts DEF Upon, Over
<1>2. t \in Runs /\ t.bad = FALSE /\ t.low = 0 /\ t.peak <= LUA_MINSTACK /\ Size(t) \in Nat
  BY <1>1, CleanIs
<1> QED
  BY <1>1, <1>2 DEF Runs

LEMMA FailedResult ==
    ASSUME TypeOK, NEW s, Upon(s), NEW setter \in BOOLEAN
    PROVE  Result(End(RestoreTop(s), "thrown"), setter)
<1> DEFINE x == RestoreTop(s)
           t == End(x, "thrown")
<1>1. Upon(x) /\ x.st = stack
  BY RestoreTopIs
<1>2. Upon(t) /\ t.how = "thrown" /\ t.st = x.st
  <2>1. Over(Start, x, Size(Start)) /\ "thrown" \in Hows /\ Clean(Start) /\ x \in Runs
    BY <1>1, StartFacts, UponIs DEF Upon, Hows
  <2> HIDE DEF x
  <2>2. Over(Start, t, Size(Start)) /\ t.how = "thrown"
    BY <2>1, EndedIs
  <2>3. t.st = x.st
    BY <2>1 DEF End, Runs
  <2> QED
    BY <2>2, <2>3 DEF Upon
<1> HIDE DEF t, x
<1>3. Result(t, setter)
  BY <1>1, <1>2, UponIs DEF Result
<1> QED
  BY <1>3 DEF t, x

LEMMA DoneResult ==
    ASSUME TypeOK, NEW s, Upon(s), s.st = stack, s.how \in {"go", "done"},
           NEW d, d = 1, NEW t, t = [s EXCEPT !.done = d]
    PROVE  Result(t, TRUE)
<1>1. /\ s \in Runs /\ s.bad = FALSE /\ s.low = 0 /\ s.peak <= LUA_MINSTACK
      /\ s.chunks \in SUBSET Slots
  BY UponIs
<1>2. /\ t.bad = s.bad /\ t.low = s.low /\ t.peak = s.peak /\ t.chunks = s.chunks
      /\ t.how = s.how /\ t.st = s.st /\ t.done = 1
  BY <1>1 DEF Runs
<1> QED
  BY <1>1, <1>2, Zenon DEF Result

\* The call of a function on top with args pushed on it.
GlobalCall(r, args, returns, u) ==
    u \in PCall([r EXCEPT !.st = @ \o args], <<"function">> \o args, returns)

\* A call takes the function and its k arguments off the stack.
LEMMA CalledSize ==
    ASSUME NEW size \in Nat, NEW base \in Nat, NEW k \in {1, 2}, NEW grant \in Nat,
           size - 1 >= base, size + 2 <= base + grant
    PROVE  /\ size + k + 0 <= base + grant
           /\ size + k - (1 + k) >= base /\ 1 + k \in Nat \ {0}
  OBVIOUS

LEMMA CallGlobal ==
    ASSUME NEW r, Going(r, 2), Size(r) - 1 >= r.base, At(r, Size(r)) = "function",
           NEW args \in Seq(Slots), (Len(args) = 1 \/ Len(args) = 2),
           NEW returns \in SUBSET Seq(Slots), NEW u, GlobalCall(r, args, returns, u)
    PROVE  /\ Over(r, u, Size(r) - 1)
           /\ \/ u.how = "erred" /\ Size(u) = Size(r)
              \/ u.how = "go" /\ \E v \in returns : Size(u) = Size(r) - 1 + Len(v)
<1>0. /\ Clean(r) /\ r \in Runs /\ r.st \in Seq(Slots) /\ r.how = "go" /\ r.base \in Nat
      /\ r.bad = FALSE /\ r.low = 0 /\ r.peak <= LUA_MINSTACK /\ Size(r) \in Nat
      /\ LUA_MINSTACK \in Nat /\ Size(r) + 2 <= r.base + LUA_MINSTACK /\ Len(r.st) = Size(r)
      /\ Len(args) \in Nat
  <2>1. Clean(r) /\ r.how = "go" /\ Size(r) + 2 <= r.base + LUA_MINSTACK
    BY DEF Going, Room
  <2>2. Len(r.st) = Size(r) /\ Len(args) \in Nat
    BY DEF Size
  <2> QED
    BY <2>1, <2>2, CleanIs
<1> DEFINE st == r.st \o args
           n == 1 + Len(args)
           c == [r EXCEPT !.st = @ \o args]
           want == <<"function">> \o args
<1>11. u \in PCall(c, want, returns)
  BY DEF GlobalCall
<1>1. /\ st \in Seq(Slots) /\ Len(st) = Size(r) + Len(args)
      /\ \A k \in 1..Size(r) : st[k] = r.st[k]
      /\ \A k \in 1..Len(args) : st[Size(r) + k] = args[k]
  <2>1. /\ st \in Seq(Slots) /\ Len(st) = Len(r.st) + Len(args)
        /\ \A k \in 1..Len(r.st) : st[k] = r.st[k]
        /\ \A k \in 1..Len(args) : st[Len(r.st) + k] = args[k]
    BY <1>0, Concatenated
  <2>2. Len(r.st) = Size(r)
    BY <1>0
  <2> HIDE DEF st
  <2> QED
    BY <2>1, <2>2, Zenon
<1> HIDE DEF st
<1>2. /\ c \in Runs /\ c.st = st /\ c.base = r.base /\ c.how = r.how /\ c.bad = r.bad
      /\ c.low = r.low /\ c.peak = r.peak /\ c.done = r.done
  <2>1. c = [r EXCEPT !.st = st]
    BY <1>0 DEF st
  <2> QED
    BY <1>0, <1>1, <2>1 DEF Runs
<1> HIDE DEF c
<1>3. /\ Size(c) = Size(r) + Len(args)
      /\ \A k \in 1..Size(r) : At(c, k) = At(r, k)
      /\ \A k \in 1..Len(args) : c.st[Size(r) + k] = args[k]
  BY <1>1, <1>2 DEF Size, At
<1>4. Clean(c)
  <2>1. Size(c) >= c.base
    BY <1>0, <1>2, <1>3
  <2> QED
    BY <1>0, <1>2, <2>1, Zenon DEF Clean
<1>5. Over(r, c, Size(r))
  <2>1. Size(r) <= Size(c)
    BY <1>0, <1>3
  <2> QED
    BY <1>2, <1>3, <1>4, <2>1, Zenon DEF Over
<1>6. /\ Len(want) = n /\ want[1] = "function"
      /\ \A k \in 1..Len(args) : want[1 + k] = args[k]
  <2>1. <<"function">> \in Seq(Slots) /\ Len(<<"function">>) = 1 /\ <<"function">>[1] = "function"
    BY DEF Slots
  <2> QED
    BY <1>0, <2>1
<1> HIDE DEF want
<1>7. Meets(c.st, want)
  <2>1. Len(c.st) - Len(want) = Size(r) - 1
    <3>1. Len(c.st) = Size(r) + Len(args) /\ Len(want) = 1 + Len(args)
      BY <1>3, <1>6 DEF Size
    <3> QED
      BY <1>0, <3>1
  <2>2. Size(r) - 1 >= 0 /\ c.st[Size(r) - 1 + 1] = "function"
    <3>1. Size(r) \in 1..Size(r)
      BY <1>0
    <3> QED
      BY <1>0, <1>3, <3>1 DEF At
  <2>3. ASSUME NEW k \in 2..Len(want)
        PROVE  c.st[Size(r) - 1 + k] = want[k]
    <3>1. k - 1 \in 1..Len(args) /\ k = 1 + (k - 1) /\ Size(r) - 1 + k = Size(r) + (k - 1)
      BY <1>0, <1>6
    <3> DEFINE j == k - 1
    <3>2. c.st[Size(r) + j] = args[j] /\ want[1 + j] = args[j]
      BY <1>3, <1>6, <3>1
    <3> QED
      BY <3>1, <3>2
  <2> QED
    BY <1>6, <2>1, <2>2, <2>3 DEF Meets
<1>8. Sound(c, n, want)
  <2>1. Room(c, 0) /\ Size(c) - n >= c.base /\ n \in Nat \ {0}
    <3>1. Size(c) = Size(r) + Len(args) /\ c.base = r.base
      BY <1>2, <1>3
    <3>2. PICK size, base, k : size = Size(r) /\ base = r.base /\ k = Len(args)
      OBVIOUS
    <3>3. /\ size \in Nat /\ base \in Nat /\ k \in {1, 2} /\ LUA_MINSTACK \in Nat
          /\ size - 1 >= base /\ size + 2 <= base + LUA_MINSTACK
      BY <1>0, <3>2
    <3>4. /\ size + k + 0 <= base + LUA_MINSTACK
          /\ size + k - (1 + k) >= base /\ 1 + k \in Nat \ {0}
      BY <3>3, CalledSize
    <3>5. Size(c) = size + k /\ c.base = base /\ n = 1 + k
      BY <3>1, <3>2
    <3> HIDE DEF n
    <3> QED
      BY <3>3, <3>4, <3>5 DEF Room
  <2> QED
    BY <1>0, <1>2, <1>4, <1>6, <1>7, <2>1, Zenon DEF Sound
<1>9. Called(c, u, n, returns) /\ Size(c) - n = Size(r) - 1
  <2>1. Called(c, u, n, returns)
    BY <1>8, <1>11, PCallIs
  <2>2. Size(c) - n = Size(r) - 1
    BY <1>0, <1>3
  <2> QED
    BY <2>1, <2>2
<1> HIDE DEF n
<1>10. Over(r, u, Size(r) - 1)
  BY <1>0, <1>5, <1>9, OverTrans DEF Called
<1>12. CASE u.how = "erred"
  BY <1>0, <1>9, <1>10, <1>12 DEF Called
<1>13. CASE u.how # "erred"
  <2>1. u.how = "go" /\ \E v \in returns : Size(u) = Size(c) - n + Len(v)
    BY <1>9, <1>13 DEF Called
  <2> QED
    BY <1>9, <1>10, <2>1
<1> QED
  BY <1>12, <1>13

\* The same call of a global method, seen from the start of the request.
LEMMA CallUpon ==
    ASSUME TypeOK, NEW r \in PushGlobalMethod(Start), r.how = "go",
           NEW args \in Seq(Slots), (Len(args) = 1 \/ Len(args) = 2),
           NEW returns \in SUBSET Seq(Slots), NEW u, GlobalCall(r, args, returns, u)
    PROVE  /\ Upon(u)
           /\ \/ u.how = "erred" /\ Size(u) - 1 >= Size(Start)
              \/ u.how = "go" /\ \E v \in returns : Size(u) - Len(v) >= Size(Start)
<1>0. /\ Going(Start, 20) /\ Clean(Start) /\ Start.base = Size(Start) /\ Size(Start) \in Nat
      /\ LUA_MINSTACK \in Nat /\ LUA_MINSTACK >= 20
  BY StartFacts
<1>1. Over(Start, r, Size(Start)) /\ Size(r) = Size(Start) + 3 /\ At(r, Size(r)) = "function"
  BY <1>0, GlobalMethodIs
<1>2. Going(r, 2) /\ Size(r) - 1 >= r.base
  BY <1>0, <1>1 DEF Going, Room, Over
<1>3. /\ Over(r, u, Size(r) - 1)
      /\ \/ u.how = "erred" /\ Size(u) = Size(r)
         \/ u.how = "go" /\ \E v \in returns : Size(u) = Size(r) - 1 + Len(v)
  BY <1>1, <1>2, CallGlobal
<1>4. Upon(u)
  BY <1>0, <1>1, <1>3, OverTrans DEF Upon
<1>5. \A v \in returns : Len(v) \in Nat
  OBVIOUS
<1> QED
  BY <1>0, <1>1, <1>3, <1>4, <1>5

\* invoke_gluals_function.
LEMMA GlualsIs ==
    ASSUME TypeOK, NEW t \in InvokeGluals
    PROVE  Result(t, TRUE)
<1> DEFINE returns == {<<"true", "other">>, <<"false", "other">>}
           failed(r) == {End(RestoreTop(r), "thrown")}
           call(r, args) == PCall([r EXCEPT !.st = @ \o args], <<"function">> \o args, returns)
           both(r) == call(r, <<"string">>) \cup call(r, <<"string", "string">>)
           method == PushGlobalMethod(StartRun(stack))
           called == Then(method, both)
           finish(r) == IF r.st[Len(r.st) - 1] = "true"
                          THEN {[RestoreTop(Pop(r, 2)) EXCEPT !.done = 1]}
                          ELSE failed(Pop(r, 2))
           finished == Then(called, finish)
<1>0. /\ Clean(Start) /\ Size(Start) \in Nat /\ Going(Start, 20)
      /\ returns \in SUBSET Seq(Slots) /\ \A v \in returns : Len(v) = 2
  <2>1. returns \in SUBSET Seq(Slots)
    <3>1. "true" \in Slots /\ "false" \in Slots /\ "other" \in Slots
      BY DEF Slots
    <3>2. <<"true", "other">> \in Seq(Slots) /\ <<"false", "other">> \in Seq(Slots)
      BY <3>1
    <3> QED
      BY <3>2
  <2>2. \A v \in returns : Len(v) = 2
    OBVIOUS
  <2> QED
    BY <2>1, <2>2, StartFacts
<1>1. PICK f \in finished : t \in (CASE f.how = "no" -> failed(f)
                                     [] f.how = "erred" -> failed(Pop(f, 1))
                                     [] OTHER -> {f})
  BY DEF InvokeGluals
<1>2. (f \in called /\ f.how # "go") \/ \E s \in called : s.how = "go" /\ f \in finish(s)
  BY DEF Then
<1>3. \A s \in called : \/ s \in method /\ s.how # "go"
                        \/ \E r \in method : r.how = "go" /\ s \in both(r)
  BY DEF Then
<1> HIDE DEF finished, called
<1>4. \A s \in method : Upon(s) /\ s.how \in {"go", "no", "raised"}
  BY <1>0, GlobalMethodIs DEF Upon, Start
<1>5. ASSUME NEW r \in method, r.how = "go", NEW s \in both(r)
      PROVE  /\ Upon(s)
             /\ \/ s.how = "erred" /\ Size(s) - 1 >= Size(Start)
                \/ s.how = "go" /\ Size(s) - 2 >= Size(Start)
  <2>1. r \in PushGlobalMethod(Start)
    BY DEF Start
  <2>2. PICK args \in {<<"string">>, <<"string", "string">>} : s \in call(r, args)
    OBVIOUS
  <2>3. args \in Seq(Slots) /\ (Len(args) = 1 \/ Len(args) = 2)
    <3>1. "string" \in Slots
      BY DEF Slots
    <3>2. /\ <<"string">> \in Seq(Slots) /\ <<"string", "string">> \in Seq(Slots)
          /\ Len(<<"string">>) = 1 /\ Len(<<"string", "string">>) = 2
      BY <3>1
    <3> HIDE DEF call
    <3>3. args = <<"string">> \/ args = <<"string", "string">>
      OBVIOUS
    <3>4. args \in Seq(Slots) /\ (Len(args) = 1 \/ Len(args) = 2)
      BY <3>2, <3>3, Zenon
    <3> QED
      BY <3>4, Zenon
  <2>6. GlobalCall(r, args, returns, s)
    BY <2>2, Zenon DEF GlobalCall
  <2> HIDE DEF returns, method
  <2>7. /\ Upon(s)
        /\ \/ s.how = "erred" /\ Size(s) - 1 >= Size(Start)
           \/ s.how = "go" /\ \E v \in returns : Size(s) - Len(v) >= Size(Start)
    BY <1>0, <1>5, <2>1, <2>3, <2>6, CallUpon
  <2> QED
    BY <1>0, <2>7
<1> HIDE DEF method, both, returns
<1>6. CASE f \in called /\ f.how # "go"
  <2>1. /\ Upon(f)
        /\ f.how \in {"no", "raised"} \/ (f.how = "erred" /\ Size(f) - 1 >= Size(Start))
    BY <1>3, <1>4, <1>5, <1>6
  <2>2. CASE f.how = "no"
    <3>1. t = End(RestoreTop(f), "thrown")
      BY <1>1, <2>2
    <3> QED
      BY <2>1, <3>1, FailedResult
  <2>3. CASE f.how = "erred"
    <3>1. t = End(RestoreTop(Pop(f, 1)), "thrown")
      BY <1>1, <2>3
    <3>2. Upon(Pop(f, 1))
      BY <1>0, <2>1, <2>3, PoppedIs DEF Upon
    <3> QED
      BY <3>1, <3>2, FailedResult
  <2>4. CASE f.how = "raised"
    <3>1. t = f
      BY <1>1, <2>4
    <3> QED
      BY <2>1, <2>4, <3>1, UponIs DEF Result
  <2> QED
    BY <2>1, <2>2, <2>3, <2>4
<1>7. ASSUME NEW s \in called, s.how = "go", f \in finish(s)
      PROVE  Result(t, TRUE)
  <2>1. Upon(s) /\ Size(s) - 2 >= Size(Start)
    BY <1>3, <1>5, <1>7
  <2> DEFINE p == Pop(s, 2)
             x == RestoreTop(p)
  <2>2. Upon(p) /\ p.how = "go"
    BY <1>0, <1>7, <2>1, PoppedIs DEF Upon
  <2>3. CASE f = [x EXCEPT !.done = 1]
    <3>1. Upon(x) /\ x.how = "go" /\ x.st = stack
      BY <2>2, RestoreTopIs
    <3> HIDE DEF x
    <3>2. f.how = "go"
      BY <2>3, <3>1, UponIs DEF Runs
    <3>3. t = f
      BY <1>1, <3>2
    <3>4. Result(f, TRUE)
      BY <2>3, <3>1, DoneResult
    <3> QED
      BY <3>3, <3>4
  <2>4. CASE f = End(x, "thrown")
    <3>1. Result(f, TRUE) /\ f.how = "thrown"
      <4>1. Result(f, TRUE)
        BY <2>2, <2>4, FailedResult
      <4>2. x \in Runs
        BY <2>2, RestoreTopIs, UponIs
      <4> HIDE DEF x
      <4>3. f.how = "thrown"
        BY <2>4, <4>2 DEF End, Runs
      <4> QED
        BY <4>1, <4>3
    <3>2. t = f
      BY <1>1, <3>1
    <3> QED
      BY <3>1, <3>2
  <2> QED
    BY <1>7, <2>3, <2>4
<1> QED
  BY <1>2, <1>6, <1>7

\* The engine runs the command, or cannot.
LEMMA FallbackIs ==
    ASSUME TypeOK, NEW s, Upon(s), s.st = stack, NEW t \in RunConsoleFallback(s)
    PROVE  Result(t, TRUE)
<1>1. /\ s \in Runs /\ s.done = 0 /\ "done" \in Hows /\ "thrown" \in Hows
      /\ Over(Start, s, Size(Start)) /\ Clean(Start)
  BY UponIs, StartFacts DEF Hows, Upon
<1>2. CASE t = End(s, "thrown")
  <2>1. Over(Start, t, Size(Start)) /\ t.how = "thrown"
    BY <1>1, <1>2, EndedIs
  <2>2. t.st = stack
    BY <1>1, <1>2 DEF End, Runs
  <2>3. Upon(t)
    BY <2>1 DEF Upon
  <2> QED
    BY <2>1, <2>2, <2>3, UponIs DEF Result
<1>3. CASE t = [End(s, "done") EXCEPT !.done = @ + 1]
  <2> DEFINE e == End(s, "done")
  <2>1. Over(Start, e, Size(Start)) /\ e.how = "done"
    BY <1>1, EndedIs
  <2>2. e.st = stack
    BY <1>1 DEF End, Runs
  <2> HIDE DEF e
  <2>3. Upon(e)
    BY <2>1 DEF Upon
  <2>4. e \in Runs /\ e.done = 0
    BY <2>3, UponIs
  <2>5. PICK d : d = e.done + 1
    OBVIOUS
  <2>6. t = [e EXCEPT !.done = d] /\ d = 1
    BY <1>3, <2>4, <2>5 DEF e
  <2> QED
    BY <2>1, <2>2, <2>3, <2>6, DoneResult
<1> QED
  BY <1>2, <1>3 DEF RunConsoleFallback

\* command_request.
LEMMA CommandIs ==
    ASSUME TypeOK, NEW t \in RunCommand
    PROVE  Result(t, TRUE)
<1> DEFINE start == StartRun(stack)
           fallback(r) == RunConsoleFallback(RestoreTop(r))
           method == PushGlobalMethod(start)
           call(r) == PCall(Push(r, "string"), <<"function", "string">>, {<<>>})
           called == Then(method, call)
           finish(r) == {[RestoreTop(r) EXCEPT !.done = 1]}
           finished == Then(called, finish)
<1>0. /\ Clean(Start) /\ Size(Start) \in Nat /\ Going(Start, 20) /\ Start.base = Size(Start)
      /\ LUA_MINSTACK \in Nat /\ LUA_MINSTACK >= 20 /\ Start.st = stack /\ "no" \in Hows
      /\ "string" \in Slots
  BY StartFacts DEF Hows, Slots
<1>1. \/ t = End(Start, "no")
      \/ t \in RunConsoleFallback(Start)
      \/ \E f \in finished : t \in (CASE f.how = "no" -> fallback(f)
                                      [] f.how = "erred" -> fallback(Pop(f, 1))
                                      [] OTHER -> {f})
  BY DEF RunCommand, Start
<1>2. \A s \in finished :
        \/ s \in called /\ s.how # "go"
        \/ \E x \in called : x.how = "go" /\ s \in finish(x)
  BY DEF Then
<1>3. \A s \in called : \/ s \in method /\ s.how # "go"
                        \/ \E r \in method : r.how = "go" /\ s \in call(r)
  BY DEF Then
<1>4. \A s \in method : /\ Upon(s)
                        /\ \/ s.how \in {"no", "raised"}
                           \/ /\ s.how = "go" /\ Size(s) = Size(Start) + 3
                              /\ At(s, Size(s)) = "function"
  BY <1>0, GlobalMethodIs DEF Upon, Start
<1> HIDE DEF finished, called, method
<1>5. ASSUME NEW r \in method, r.how = "go", NEW s \in call(r)
      PROVE  /\ Upon(s)
             /\ s.how = "go" \/ (s.how = "erred" /\ Size(s) - 1 >= Size(Start))
  <2> DEFINE c == Push(r, "string")
  <2>1. /\ Over(Start, r, Size(Start)) /\ Size(r) = Size(Start) + 3 /\ At(r, Size(r)) = "function"
        /\ Clean(r) /\ r.base = Size(Start)
    BY <1>0, <1>4, <1>5 DEF Upon, Over
  <2>2. Room(r, 1)
    BY <1>0, <2>1 DEF Room
  <2>3. /\ Over(r, c, Size(r)) /\ Size(c) = Size(r) + 1 /\ c.how = "go" /\ At(c, Size(c)) = "string"
    BY <1>0, <1>5, <2>1, <2>2, PushIs
  <2>4. s \in PCall(c, <<"function", "string">>, {<<>>})
    BY <1>5
  <2> HIDE DEF c
  <2>5. /\ Clean(c) /\ Room(c, 0) /\ Size(c) - 2 >= c.base
        /\ At(c, Size(c) - 1) \in {"function", "other"}
    <3>1. At(c, Size(r)) = "function"
      BY <1>0, <2>1, <2>3 DEF Over
    <3> QED
      BY <1>0, <2>1, <2>3, <3>1 DEF Over, Room
  <2>6. Sound(c, 2, <<"function", "string">>)
    BY <2>3, <2>5, Sound2
  <2>7. Called(c, s, 2, {<<>>})
    <3>1. {<<>>} \in SUBSET Seq(Slots)
      OBVIOUS
    <3> QED
      BY <2>4, <2>6, <3>1, PCallIs
  <2>8. Over(c, s, Size(c) - 2) /\ (s.how = "go" \/ (s.how = "erred" /\ Size(s) = Size(c) - 2 + 1))
    BY <2>7 DEF Called
  <2>9. Over(r, s, Size(r) - 1)
    BY <1>0, <2>1, <2>3, <2>8, OverTrans
  <2>10. Over(Start, s, Size(Start))
    BY <1>0, <2>1, <2>9, OverTrans
  <2> QED
    BY <1>0, <2>1, <2>3, <2>8, <2>10 DEF Upon
<1> HIDE DEF call
<1>6. CASE t = End(Start, "no")
  <2>1. Over(Start, t, Size(Start)) /\ t.how = "no"
    BY <1>0, <1>6, EndIs
  <2>2. t.st = stack
    BY <1>0, <1>6, CleanIs DEF End, Runs
  <2>3. Upon(t)
    BY <2>1 DEF Upon
  <2> QED
    BY <2>1, <2>2, <2>3, UponIs DEF Result
<1>7. CASE t \in RunConsoleFallback(Start)
  <2>1. Upon(Start)
    BY <1>0, OverSelf DEF Upon
  <2> QED
    BY <1>0, <1>7, <2>1, FallbackIs
<1>8. ASSUME NEW f \in finished, t \in (CASE f.how = "no" -> fallback(f)
                                          [] f.how = "erred" -> fallback(Pop(f, 1))
                                          [] OTHER -> {f})
      PROVE  Result(t, TRUE)
  <2>1. CASE f \in called /\ f.how # "go"
    <3>1. /\ Upon(f)
          /\ f.how \in {"no", "raised"} \/ (f.how = "erred" /\ Size(f) - 1 >= Size(Start))
      BY <1>3, <1>4, <1>5, <2>1
    <3>2. CASE f.how = "no"
      <4>1. t \in fallback(f)
        BY <1>8, <3>2
      <4>2. Upon(RestoreTop(f)) /\ RestoreTop(f).st = stack
        BY <3>1, RestoreTopIs
      <4> QED
        BY <4>1, <4>2, FallbackIs
    <3>3. CASE f.how = "erred"
      <4>1. t \in fallback(Pop(f, 1))
        BY <1>8, <3>3
      <4>2. Upon(Pop(f, 1))
        BY <1>0, <3>1, <3>3, PoppedIs DEF Upon
      <4>3. Upon(RestoreTop(Pop(f, 1))) /\ RestoreTop(Pop(f, 1)).st = stack
        BY <4>2, RestoreTopIs
      <4> QED
        BY <4>1, <4>3, FallbackIs
    <3>4. CASE f.how = "raised"
      <4>1. t = f
        BY <1>8, <3>4
      <4> QED
        BY <3>1, <3>4, <4>1, UponIs DEF Result
    <3> QED
      BY <3>1, <3>2, <3>3, <3>4
  <2>2. ASSUME NEW s \in called, s.how = "go", f \in finish(s)
        PROVE  Result(t, TRUE)
    <3> DEFINE x == RestoreTop(s)
    <3>1. Upon(s)
      BY <1>3, <1>4, <1>5, <2>2
    <3>2. Upon(x) /\ x.how = "go" /\ x.st = stack
      BY <2>2, <3>1, RestoreTopIs
    <3>3. f = [x EXCEPT !.done = 1]
      BY <2>2
    <3> HIDE DEF x
    <3>4. f.how = "go"
      BY <3>2, <3>3, UponIs DEF Runs
    <3>5. t = f
      BY <1>8, <3>4
    <3>6. Result(f, TRUE)
      BY <3>2, <3>3, DoneResult
    <3> QED
      BY <3>5, <3>6
  <2> QED
    BY <1>2, <2>1, <2>2
<1> QED
  BY <1>1, <1>6, <1>7, <1>8

\* Every request's result is good, from any stack of the caller's.
QInv ==
    /\ TypeOK
    /\ CallsWellFormed
    /\ StaysInFrame
    /\ ReportsWhatItDid

LEMMA InitQInv == Init => QInv
<1> SUFFICES ASSUME Init PROVE QInv
  OBVIOUS
<1>1. PICK depth \in 0..MaxDepth : stack = [k \in 1..depth |-> "caller"]
  BY DEF Init
<1>2. depth \in Nat /\ "caller" \in Slots
  BY ConstantsAssumption DEF Slots
<1>3. stack \in Seq(Slots)
  BY <1>1, <1>2
<1>4. /\ chunks = {} /\ last.bad = FALSE /\ last.peak = 0 /\ last.low = 0 /\ last.done = 0
      /\ last.setter = FALSE
  BY DEF Init
<1> QED
  BY <1>3, <1>4, ConstantsAssumption
     DEF QInv, TypeOK, CallsWellFormed, StaysInFrame, ReportsWhatItDid

LEMMA AnswerIs ==
    ASSUME TypeOK, NEW setter \in BOOLEAN, NEW runs, \A r \in runs : Result(r, setter),
           Answer(runs, setter)
    PROVE  QInv' /\ (last'.reply # "escaped" => stack' = stack)
<1>1. PICK r \in runs :
        /\ stack' = IF r.how = "raised" THEN stack ELSE r.st
        /\ chunks' = r.chunks
        /\ last' = [reply |-> Reply(r.how), setter |-> setter, bad |-> r.bad,
                    peak |-> r.peak, low |-> r.low, done |-> r.done]
  BY DEF Answer
<1>2. Result(r, setter)
  BY <1>1
<1>3. stack' = stack /\ chunks' \in SUBSET Slots
  BY <1>1, <1>2 DEF Result
<1>4. /\ last'.reply = Reply(r.how) /\ last'.setter = setter /\ last'.bad = r.bad
      /\ last'.peak = r.peak /\ last'.low = r.low /\ last'.done = r.done
  BY <1>1
<1>5. TypeOK'
  BY <1>3 DEF TypeOK
<1>6. CallsWellFormed' /\ StaysInFrame'
  BY <1>2, <1>4 DEF Result, CallsWellFormed, StaysInFrame
<1>7. ReportsWhatItDid'
  <2>1. CASE r.how \in {"go", "done"}
    <3>1. Reply(r.how) = "ok" /\ r.done = IF setter THEN 1 ELSE 0
      BY <1>2, <2>1 DEF Reply, Result
    <3> QED
      BY <1>4, <3>1 DEF ReportsWhatItDid
  <2>2. CASE r.how \in {"no", "thrown", "raised"}
    <3>1. Reply(r.how) # "ok" /\ r.done = 0
      BY <1>2, <2>2 DEF Reply, Result
    <3> QED
      BY <1>4, <3>1 DEF ReportsWhatItDid
  <2> QED
    BY <1>2, <2>1, <2>2 DEF Result
<1> QED
  BY <1>3, <1>5, <1>6, <1>7 DEF QInv

LEMMA NextQInv ==
    ASSUME QInv, Next
    PROVE  QInv' /\ (last'.reply # "escaped" => stack' = stack)
<1>0. TypeOK /\ Going(Frame, 20) /\ TRUE \in BOOLEAN /\ FALSE \in BOOLEAN
  BY FrameIs DEF QInv
\* A query in a frame of its own.
<1>1. ASSUME NEW runs, \A r \in runs : Asks(Frame, r), Answer(RunInCFrame(runs), FALSE)
      PROVE  QInv' /\ (last'.reply # "escaped" => stack' = stack)
  <2>1. \A t \in RunInCFrame(runs) : Result(t, FALSE)
    BY <1>0, <1>1, InCFrameIs
  <2> QED
    BY <1>0, <1>1, <2>1, AnswerIs
<1>2. ASSUME NEW runs, \A r \in runs : Sets(Frame, r), Answer(RunInCFrame(runs), TRUE)
      PROVE  QInv' /\ (last'.reply # "escaped" => stack' = stack)
  <2>1. \A t \in RunInCFrame(runs) : Result(t, TRUE)
    BY <1>0, <1>2, InCFrameIs
  <2> QED
    BY <1>0, <1>2, <2>1, AnswerIs
<1>3. CASE GetEntityRequest
  <2>1. \A r \in GetEntityDetail(Frame) : Asks(Frame, r)
    BY <1>0, EntityDetailIs
  <2> QED
    BY <1>1, <1>3, <2>1 DEF GetEntityRequest
<1>4. CASE GetEntriesRequest
  <2>1. \A r \in GetEntries(Frame) : Asks(Frame, r)
    BY <1>0, EntriesQueryIs
  <2> QED
    BY <1>1, <1>4, <2>1 DEF GetEntriesRequest
<1>5. CASE SetTableValueRequest
  <2>1. \A r \in SetTableField(Frame) : Sets(Frame, r)
    BY <1>0, SetTableFieldIs
  <2> QED
    BY <1>2, <1>5, <2>1 DEF SetTableValueRequest
<1>6. CASE SetNetworkVarRequest
  <2>1. \A r \in SetNetworkVar(Frame) : Sets(Frame, r)
    BY <1>0, SetNetworkVarIs
  <2> QED
    BY <1>2, <1>6, <2>1 DEF SetNetworkVarRequest
<1>7. CASE SetPropertyRequest
  <2>1. /\ \A r \in SetPos(Frame) : Sets(Frame, r)
        /\ \A r \in SetAngles(Frame) : Sets(Frame, r)
        /\ \A r \in SetHealth(Frame) : Sets(Frame, r)
        /\ \A r \in SetField(Frame) : Sets(Frame, r)
    BY <1>0, SetPosIs, SetAnglesIs, SetHealthIs, SetFieldIs
  <2> QED
    BY <1>2, <1>7, <2>1 DEF SetPropertyRequest
<1>8. CASE GlualsRequest
  <2>1. \A t \in InvokeGluals : Result(t, TRUE)
    BY <1>0, GlualsIs
  <2> QED
    BY <1>0, <1>8, <2>1, AnswerIs DEF GlualsRequest
<1>9. CASE CommandRequest
  <2>1. \A t \in RunCommand : Result(t, TRUE)
    BY <1>0, CommandIs
  <2> QED
    BY <1>0, <1>9, <2>1, AnswerIs DEF CommandRequest
<1> QED
  BY <1>3, <1>4, <1>5, <1>6, <1>7, <1>8, <1>9 DEF Next

\* The invariant holds of every behaviour.
THEOREM QueriesInvariance == Spec => []QInv
<1>1. QInv /\ [Next]_vars => QInv'
  <2> SUFFICES ASSUME QInv, [Next]_vars PROVE QInv'
    OBVIOUS
  <2>1. CASE Next
    BY <2>1, NextQInv
  <2>2. CASE UNCHANGED vars
    BY <2>2 DEF vars, QInv, TypeOK, CallsWellFormed, StaysInFrame, ReportsWhatItDid
  <2> QED
    BY <2>1, <2>2
<1> QED
  BY <1>1, InitQInv, PTL DEF Spec

\* However the helpers fail and whatever the caller left on the stack, no PCall finds
\* anything but a function and its arguments under the top.
THEOREM CallSafety == Spec => []CallsWellFormed
<1>1. QInv => CallsWellFormed
  BY DEF QInv
<1> QED
  BY <1>1, QueriesInvariance, PTL

\* From any depth of the caller's stack, a request pops no slot that is not its own and
\* never needs more slots than Lua grants a C function.
THEOREM FrameSafety == Spec => []StaysInFrame
<1>1. QInv => StaysInFrame
  BY DEF QInv
<1> QED
  BY <1>1, QueriesInvariance, PTL

\* A setting request that answers ok called exactly one setter that returned, and every
\* other answer comes without one.
THEOREM ReportSafety == Spec => []ReportsWhatItDid
<1>1. QInv => ReportsWhatItDid
  BY DEF QInv
<1> QED
  BY <1>1, QueriesInvariance, PTL

\* A request that answers leaves the stack as it found it, slot by slot, whichever of its
\* helpers failed on the way.
THEOREM BalanceSafety == Spec => StackRestored
<1>1. QInv /\ [Next]_vars => [last'.reply # "escaped" => stack' = stack]_vars
  BY NextQInv
<1> QED
  BY <1>1, QueriesInvariance, PTL DEF Spec, StackRestored
=============================================================================
