---------------------------- MODULE Calls_proofs ----------------------------
(***************************************************************************)
(* What the talk with the bridge service keeps, for every capacity of the  *)
(* port, any peers, settings and values.                                   *)
(***************************************************************************)
EXTENDS Calls, SequenceTheorems, TLAPS

Words  == ValueLines \cup {"bver", "cver", "rcall", "icall", "hangup", "pr",
                           "monitor", "halt"}
Line   == [line : Words, value : Numbers]
Report == [report : {"bp", "fpga", "sync/end"}, value : Versions \cup {Unset}]

TypeInv == TypeOK /\ wire \in Seq(Line) /\ back \in Seq(Report)

----------------------------------------------------------------------------
(* Sequences of one to five things.                                        *)

LEMMA Tuples ==
    ASSUME NEW S, NEW a \in S, NEW b \in S, NEW c \in S, NEW d \in S, NEW e \in S
    PROVE  /\ <<>> \in Seq(S) /\ <<a>> \in Seq(S) /\ <<a, b>> \in Seq(S)
           /\ <<a, b, c>> \in Seq(S) /\ <<a, b, c, d, e>> \in Seq(S)
OBVIOUS

LEMMA TwoAndOne ==
    ASSUME NEW S, NEW a \in S, NEW b \in S, NEW c \in S
    PROVE  <<a, b>> \o <<c>> = <<a, b, c>>
<1> DEFINE s == <<a, b>>
           t == <<c>>
           u == <<a, b, c>>
<1>1. s \in Seq(S) /\ t \in Seq(S) /\ u \in Seq(S)
  BY Tuples
<1>2. /\ Len(s) = 2 /\ s[1] = a /\ s[2] = b
      /\ Len(t) = 1 /\ t[1] = c
      /\ Len(u) = 3 /\ u[1] = a /\ u[2] = b /\ u[3] = c
  OBVIOUS
<1> HIDE DEF s, t, u
<1>3. /\ s \o t \in Seq(S) /\ Len(s \o t) = 3
      /\ \A i \in 1..3 : (s \o t)[i] = IF i <= 2 THEN s[i] ELSE t[i - 2]
  <2>1. /\ s \o t \in Seq(S) /\ Len(s \o t) = Len(s) + Len(t)
        /\ \A i \in 1..(Len(s) + Len(t)) :
              (s \o t)[i] = IF i <= Len(s) THEN s[i] ELSE t[i - Len(s)]
    BY <1>1, ConcatProperties
  <2> QED BY <1>2, <2>1
<1>4. \A i \in 1..3 : (s \o t)[i] = u[i]
  BY <1>2, <1>3
<1>5. s \o t = u
  BY <1>1, <1>2, <1>3, <1>4, SeqEqual
<1> QED BY <1>5 DEF s, t, u

LEMMA SendIsThing ==
    /\ \A l \in Words, v \in Numbers : Send(l, v) \in Things
    /\ \A k \in Keys, v \in Values : Save(k, v) \in Things
    /\ \A b \in BOOLEAN : Allow(b) \in Things
    /\ StartCoredump \in Things
    /\ \A i \in 1..4 : Restore(i) \in Things
<1>1. \A l \in Words, v \in Numbers : Send(l, v) \in Things
  BY DEF Send, Things, Words
<1>2. \A k \in Keys, v \in Values : Save(k, v) \in Things
  BY DEF Save, Things
<1>3. \A b \in BOOLEAN : Allow(b) \in Things
  BY DEF Allow, Things
<1>4. StartCoredump \in Things
  BY DEF Things
<1>5. DOMAIN Restored = 1..4
  BY DEF Restored
<1>6. \A i \in 1..4 : Restore(i) \in Things
  BY <1>5 DEF Things
<1> QED BY <1>1, <1>2, <1>3, <1>4, <1>6

LEMMA SomeNumbers == /\ Unset \in Numbers /\ Own \in Numbers /\ 10 \in Numbers
                     /\ Peers \subseteq Numbers /\ Values \subseteq Numbers
BY DEF Numbers

\* What a start may restore a setting to.
LEMMA RestoredValue ==
    ASSUME TypeOK, NEW i \in 1..4
    PROVE  hardware_value(Restored[i]) \in Numbers
<1>1. Restored[i] \in {"global", "network", "local", "delay"}
  BY DEF Restored
<1>2. Defaults[Restored[i]] \in Numbers
  BY <1>1, CallsAssumption DEF CallsAssumption, Numbers
<1>3. db[Restored[i]] \in Numbers
  BY <1>1, SomeNumbers DEF TypeOK, Keys
<1> QED BY <1>2, <1>3, SomeNumbers DEF hardware_value

LEMMA SomeWords == /\ PeerLines \subseteq ValueLines /\ ValueLines \subseteq Words
                   /\ {"bver", "cver", "rcall", "icall", "hangup", "pr",
                       "monitor", "halt"} \subseteq Words
BY DEF PeerLines, ValueLines, Words

\* The lines and the keys of a setting.
LEMMA LinesOfKey ==
    ASSUME NEW k \in Keys \cup {"inputs"}
    PROVE  /\ Lines[k] \in Seq({"vol", "vnl", "vnr", "vll", "vlr", "delay"})
           /\ KeysOf(k) \in Seq(Keys)
<1> DEFINE W == {"vol", "vnl", "vnr", "vll", "vlr", "delay"}
<1>1. Lines[k] \in Seq(W)
  <2>1. /\ <<"vol">> \in Seq(W) /\ <<"vnl", "vnr">> \in Seq(W)
        /\ <<"vll", "vlr">> \in Seq(W) /\ <<"vlr">> \in Seq(W)
        /\ <<"vll">> \in Seq(W) /\ <<"vlr", "vll">> \in Seq(W)
        /\ <<"delay">> \in Seq(W)
    BY Tuples
  <2>2. /\ Lines["global"] = <<"vol">> /\ Lines["network"] = <<"vnl", "vnr">>
        /\ Lines["local"] = <<"vll", "vlr">> /\ Lines["input1"] = <<"vlr">>
        /\ Lines["input2"] = <<"vll">> /\ Lines["inputs"] = <<"vlr", "vll">>
        /\ Lines["delay"] = <<"delay">>
    BY DEF Lines
  <2>3. k \in {"global", "network", "local", "input1", "input2", "inputs", "delay"}
    BY DEF Keys
  <2> HIDE DEF W
  <2> QED BY <2>1, <2>2, <2>3
<1>2. KeysOf(k) \in Seq(Keys)
  <2>1. "input1" \in Keys /\ "input2" \in Keys
    BY DEF Keys
  <2>2. <<"input1", "input2">> \in Seq(Keys)
    BY <2>1, Tuples
  <2>3. CASE k = "inputs"
    BY <2>2, <2>3 DEF KeysOf
  <2>4. CASE k # "inputs"
    <3>1. k \in Keys
      BY <2>4
    <3>2. <<k>> \in Seq(Keys)
      BY <3>1, Tuples
    <3> QED BY <3>2, <2>4 DEF KeysOf
  <2> QED BY <2>3, <2>4
<1> QED BY <1>1, <1>2

\* What a setting makes its thread do.
LEMMA SendAllIsThings ==
    ASSUME NEW k \in Keys \cup {"inputs"}, NEW v \in Numbers
    PROVE  SendAll(k, v) \in Seq(Things)
<1> DEFINE n == Len(Lines[k])
<1>1. n \in Nat /\ DOMAIN Lines[k] = 1..n
  BY LinesOfKey, LenProperties
<1>2. \A i \in 1..n : Lines[k][i] \in {"vol", "vnl", "vnr", "vll", "vlr", "delay"}
  BY LinesOfKey, ElementOfSeq
<1>3. {"vol", "vnl", "vnr", "vll", "vlr", "delay"} \subseteq Words
  BY DEF Words, ValueLines
<1>4. \A i \in 1..n : Send(Lines[k][i], v) \in Things
  BY <1>2, <1>3, SendIsThing
<1>5. SendAll(k, v) \in [1..n -> Things]
  BY <1>1, <1>4 DEF SendAll
<1> QED BY <1>1, <1>5, SeqDef

LEMMA SaveAllIsThings ==
    ASSUME NEW k \in Keys \cup {"inputs"}, NEW v \in Values
    PROVE  SaveAll(k, v) \in Seq(Things)
<1> DEFINE n == Len(KeysOf(k))
<1>1. n \in Nat /\ DOMAIN KeysOf(k) = 1..n
  BY LinesOfKey, LenProperties
<1>2. \A i \in 1..n : KeysOf(k)[i] \in Keys
  BY LinesOfKey, ElementOfSeq
<1>4. \A i \in 1..n : Save(KeysOf(k)[i], v) \in Things
  BY <1>2, SendIsThing
<1>5. SaveAll(k, v) \in [1..n -> Things]
  BY <1>1, <1>4 DEF SaveAll
<1> QED BY <1>1, <1>5, SeqDef

\* What a thread has to do says what it is.
LEMMA ThingKinds ==
    ASSUME NEW t \in Things
    PROVE  /\ t.do = "send" => t.what \in Words /\ t.value \in Numbers
           /\ t.do = "save" => t.what \in Keys /\ t.value \in Values
           /\ t.do = "allow" => t.what \in BOOLEAN
           /\ t.do = "restore" => t.what \in 1..4
<1>1. DOMAIN Restored = 1..4
  BY DEF Restored
<1>2. CASE t \in [do : {"send"}, what : Words, value : Numbers]
  BY <1>2
<1>3. CASE t \in [do : {"save"}, what : Keys, value : Values]
  BY <1>3
<1>4. CASE t \in [do : {"allow"}, what : BOOLEAN, value : {Unset}]
  BY <1>4
<1>5. CASE t = StartCoredump
  BY <1>5 DEF StartCoredump
<1>6. ASSUME NEW i \in 1..4, t = Restore(i)
      PROVE  t.do = "restore" /\ t.what = i
  BY <1>6 DEF Restore
<1>7. CASE \E i \in 1..4 : t = Restore(i)
  BY <1>6, <1>7
<1> QED BY <1>1, <1>2, <1>3, <1>4, <1>5, <1>7 DEF Things, Words

----------------------------------------------------------------------------
(* What a message or a start makes its thread do.                          *)

PlainWords == {"setlip", "setpip", "vol", "vnl", "vnr", "vll", "vlr", "delay",
               "bver", "cver", "hangup", "pr"}

IsPlain(t) == t.do = "save" \/ (t.do = "send" /\ t.what \in PlainWords)

\* Nothing of it concerns a call or its monitor, and a restore comes last.
Tame(s) == \A i \in 1..Len(s) : IsPlain(s[i]) \/ (s[i].do = "restore" /\ i = Len(s))

Halt     == Send("halt", Unset)
Hangup   == Send("hangup", Unset)
Monitor  == Send("monitor", Unset)

LEMMA SendAllIsTame ==
    ASSUME NEW k \in Keys \cup {"inputs"}, NEW v \in Numbers
    PROVE  \A i \in 1..Len(SendAll(k, v)) : IsPlain(SendAll(k, v)[i])
<1> DEFINE n == Len(Lines[k])
<1>1. n \in Nat /\ DOMAIN Lines[k] = 1..n
  BY LinesOfKey, LenProperties
<1>2. \A i \in 1..n : Lines[k][i] \in {"vol", "vnl", "vnr", "vll", "vlr", "delay"}
  BY LinesOfKey, ElementOfSeq
<1>3. DOMAIN SendAll(k, v) = 1..Len(SendAll(k, v))
  BY SendAllIsThings, LenProperties
<1>4. DOMAIN SendAll(k, v) = 1..n
  BY <1>1 DEF SendAll
<1>5. ASSUME NEW i \in 1..n PROVE IsPlain(SendAll(k, v)[i])
  <2>1. SendAll(k, v)[i] = Send(Lines[k][i], v)
    BY <1>1 DEF SendAll
  <2> QED BY <1>2, <2>1 DEF IsPlain, Send, PlainWords
<1> QED BY <1>3, <1>4, <1>5

LEMMA SaveAllIsTame ==
    ASSUME NEW k \in Keys \cup {"inputs"}, NEW v \in Values
    PROVE  \A i \in 1..Len(SaveAll(k, v)) : IsPlain(SaveAll(k, v)[i])
<1> DEFINE n == Len(KeysOf(k))
<1>1. n \in Nat /\ DOMAIN KeysOf(k) = 1..n
  BY LinesOfKey, LenProperties
<1>3. DOMAIN SaveAll(k, v) = 1..Len(SaveAll(k, v))
  BY SaveAllIsThings, LenProperties
<1>4. DOMAIN SaveAll(k, v) = 1..n
  BY <1>1 DEF SaveAll
<1>5. ASSUME NEW i \in 1..n PROVE IsPlain(SaveAll(k, v)[i])
  BY <1>1 DEF SaveAll, IsPlain, Save
<1> QED BY <1>3, <1>4, <1>5

LEMMA CallIsThings ==
    ASSUME NEW p \in Peers, NEW d \in {"rcall", "icall"}
    PROVE  CallLines(p, d) \in Seq(Things)
<1>1. p \in Numbers /\ Unset \in Numbers
  BY SomeNumbers
<1>2. {"setport", "setrpip", "setrlip", d} \subseteq Words
  BY DEF Words, ValueLines, PeerLines
<1>3. /\ Send("setport", p) \in Things /\ Send("setrpip", p) \in Things
      /\ Send("setrlip", p) \in Things /\ Send(d, Unset) \in Things
      /\ StartCoredump \in Things
  BY <1>1, <1>2, SendIsThing
<1> QED BY <1>3, Tuples DEF CallLines

LEMMA StopIsThings ==
    /\ <<Allow(TRUE), Halt>> \in Seq(Things)
    /\ <<Allow(TRUE), Halt, Hangup>> \in Seq(Things)
    /\ <<Allow(FALSE), Monitor>> \in Seq(Things)
<1>1. /\ Allow(TRUE) \in Things /\ Allow(FALSE) \in Things
      /\ Halt \in Things /\ Hangup \in Things /\ Monitor \in Things
  BY SendIsThing, SomeNumbers, SomeWords DEF Halt, Hangup, Monitor
<1> QED BY <1>1, Tuples

LEMMA MessageKinds ==
    ASSUME Messages
    PROVE  /\ up /\ todo = <<>>
           /\ UNCHANGED <<up, allow, reported, disk, port, service>>
           /\ todo' \in Seq(Things)
           /\ \/ Tame(todo')
              \/ \E p \in Peers, d \in {"rcall", "icall"} : todo' = CallLines(p, d)
              \/ todo' = <<Allow(TRUE), Halt>>
              \/ todo' = <<Allow(TRUE), Halt, Hangup>>
<1>1. ASSUME NEW k \in Settings, NEW v \in Values, SetValue(k, v)
      PROVE  todo' \in Seq(Things) /\ Tame(todo')
  <2> DEFINE a == SaveAll(k, v)
             b == SendAll(k, v)
  <2>1. k \in Keys \cup {"inputs"} /\ v \in Numbers
    BY CallsAssumption, SomeNumbers DEF CallsAssumption
  <2>2. a \in Seq(Things) /\ b \in Seq(Things)
    BY <2>1, SaveAllIsThings, SendAllIsThings
  <2>3. todo' = a \o b
    BY <1>1 DEF SetValue, Message
  <2>4. /\ \A i \in 1..Len(a) : IsPlain(a[i])
        /\ \A i \in 1..Len(b) : IsPlain(b[i])
    BY <2>1, SaveAllIsTame, SendAllIsTame
  <2> HIDE DEF a, b
  <2>5. /\ a \o b \in Seq(Things) /\ Len(a \o b) = Len(a) + Len(b)
        /\ \A i \in 1..(Len(a) + Len(b)) :
              (a \o b)[i] = IF i <= Len(a) THEN a[i] ELSE b[i - Len(a)]
    BY <2>2, ConcatProperties
  <2>6. Len(a) \in Nat /\ Len(b) \in Nat
    BY <2>2, LenProperties
  <2>7. \A i \in 1..(Len(a) + Len(b)) : IsPlain((a \o b)[i])
    <3>1. SUFFICES ASSUME NEW i \in 1..(Len(a) + Len(b)) PROVE IsPlain((a \o b)[i])
      OBVIOUS
    <3>2. CASE i <= Len(a)
      BY <2>4, <2>5, <2>6, <3>2
    <3>3. CASE ~(i <= Len(a))
      <4>1. i - Len(a) \in 1..Len(b)
        BY <2>6, <3>3
      <4> QED BY <2>4, <2>5, <3>3, <4>1
    <3> QED BY <3>2, <3>3
  <2> QED BY <2>3, <2>5, <2>7 DEF Tame
<1>2. ASSUME NEW p \in Peers, ReceiveCall(p) \/ InitiateCall(p)
      PROVE  /\ todo' \in Seq(Things)
             /\ \E d \in {"rcall", "icall"} : todo' = CallLines(p, d)
  BY <1>2, CallIsThings DEF ReceiveCall, InitiateCall, Message
<1>3. ASSUME HangupAll \/ PathReset PROVE todo' \in Seq(Things) /\ Tame(todo')
  <2>1. /\ Hangup \in Things /\ Send("pr", Unset) \in Things
        /\ IsPlain(Hangup) /\ IsPlain(Send("pr", Unset))
    <3>1. Hangup \in Things /\ Send("pr", Unset) \in Things
      BY SendIsThing, SomeNumbers, SomeWords DEF Hangup
    <3>2. IsPlain(Hangup) /\ IsPlain(Send("pr", Unset))
      BY DEF IsPlain, PlainWords, Hangup, Send
    <3> QED BY <3>1, <3>2
  <2>2. \E t \in Things : todo' = <<t>> /\ IsPlain(t)
    BY <1>3, <2>1 DEF HangupAll, PathReset, Message, Hangup
  <2>3. PICK t \in Things : todo' = <<t>> /\ IsPlain(t)
    BY <2>2
  <2>4. Len(<<t>>) = 1 /\ <<t>>[1] = t
    OBVIOUS
  <2> QED BY <2>3, <2>4, Tuples DEF Tame
<1>4. ASSUME StopCoredump \/ StopCall
      PROVE  /\ todo' \in Seq(Things)
             /\ todo' \in {<<Allow(TRUE), Halt>>, <<Allow(TRUE), Halt, Hangup>>}
  <2>1. stop_coredump = <<Allow(TRUE), Halt>>
    BY DEF stop_coredump, Halt
  <2>2. <<Allow(TRUE), Halt>> \o <<Hangup>> = <<Allow(TRUE), Halt, Hangup>>
    <3>1. Allow(TRUE) \in Things /\ Halt \in Things /\ Hangup \in Things
      BY SendIsThing, SomeNumbers, SomeWords DEF Halt, Hangup
    <3> QED BY <3>1, TwoAndOne
  <2> QED BY <1>4, <2>1, <2>2, StopIsThings
      DEF StopCoredump, StopCall, Message, Hangup
<1>5. /\ up /\ todo = <<>>
      /\ UNCHANGED <<up, allow, reported, disk, port, service>>
  BY DEF Messages, SetValue, ReceiveCall, InitiateCall, StopCall, HangupAll,
         PathReset, StopCoredump, Message
<1> QED BY <1>1, <1>2, <1>3, <1>4, <1>5 DEF Messages

\* The start.
LEMMA StartIsTame ==
    ASSUME Start PROVE todo' \in Seq(Things) /\ Tame(todo')
<1> DEFINE a == Send("setlip", Own)
           b == Send("setpip", Own)
           c == Send("bver", Unset)
           d == Send("cver", Unset)
           e == Restore(1)
<1>1. todo' = <<a, b, c, d, e>>
  BY DEF Start
<1>2. "setlip" \in Words /\ "setpip" \in Words
  BY DEF Words, ValueLines
<1>3. a \in Things /\ b \in Things /\ c \in Things /\ d \in Things /\ e \in Things
  BY <1>2, SendIsThing, SomeNumbers, SomeWords
<1>4. IsPlain(a) /\ IsPlain(b) /\ IsPlain(c) /\ IsPlain(d)
  BY DEF IsPlain, PlainWords, Send
<1>5. e.do = "restore"
  BY DEF Restore
<1> HIDE DEF a, b, c, d, e
<1>6. /\ Len(<<a, b, c, d, e>>) = 5
      /\ <<a, b, c, d, e>>[1] = a /\ <<a, b, c, d, e>>[2] = b
      /\ <<a, b, c, d, e>>[3] = c /\ <<a, b, c, d, e>>[4] = d
      /\ <<a, b, c, d, e>>[5] = e
  OBVIOUS
<1> QED BY <1>1, <1>3, <1>4, <1>5, <1>6, Tuples DEF Tame

\* The settings of a start: what comes after the restore is its own.
LEMMA RestoreIsTame ==
    ASSUME TypeInv, init_hw_values PROVE todo' \in Seq(Things) /\ Tame(todo')
<1> DEFINE i == Head(todo).what
           k == Restored[i]
           rest == IF i < Len(Restored) THEN <<Restore(i + 1)>> ELSE <<>>
           s == SendAll(k, hardware_value(k))
<1>1. todo' = IF hardware_value(k) = Unset THEN rest ELSE s \o rest
  BY DEF init_hw_values
<1>2. i \in 1..4 /\ k \in Keys
  <2>1. Head(todo) \in Things
    BY HeadTailProperties DEF TypeInv, TypeOK, init_hw_values, First
  <2>2. i \in 1..4
    BY <2>1, ThingKinds DEF init_hw_values, First
  <2>3. Restored[1] \in Keys /\ Restored[2] \in Keys /\ Restored[3] \in Keys
        /\ Restored[4] \in Keys
    BY DEF Restored, Keys
  <2> QED BY <2>2, <2>3
<1>3. rest \in Seq(Things) /\ \A j \in 1..Len(rest) : rest[j].do = "restore" /\ j = 1 /\ Len(rest) = 1
  <2>1. Len(Restored) = 4
    BY DEF Restored
  <2>2. CASE i < 4
    <3>1. Restore(i + 1) \in Things /\ Restore(i + 1).do = "restore"
      <4>1. i + 1 \in 1..4
        BY <1>2, <2>2
      <4>2. Restore(i + 1).do = "restore"
        BY DEF Restore
      <4> QED BY <4>1, <4>2, SendIsThing
    <3>2. rest = <<Restore(i + 1)>>
      BY <2>1, <2>2
    <3> HIDE DEF i
    <3> DEFINE t == Restore(i + 1)
    <3> HIDE DEF t
    <3>3. Len(<<t>>) = 1 /\ <<t>>[1] = t
      OBVIOUS
    <3>4. <<t>> \in Seq(Things)
      BY <3>1, Tuples DEF t
    <3> QED BY <3>1, <3>2, <3>3, <3>4 DEF t
  <2>3. CASE ~(i < 4)
    <3>1. rest = <<>>
      BY <2>1, <2>3
    <3> QED BY <3>1
  <2> QED BY <2>2, <2>3
<1>4. CASE hardware_value(k) = Unset
  BY <1>1, <1>3, <1>4 DEF Tame
<1>5. CASE hardware_value(k) # Unset
  <2>1. hardware_value(k) \in Numbers
    BY <1>2, RestoredValue DEF TypeInv
  <2>2. s \in Seq(Things) /\ \A j \in 1..Len(s) : IsPlain(s[j])
    BY <1>2, <2>1, SendAllIsThings, SendAllIsTame
  <2> HIDE DEF s, rest
  <2>3. /\ s \o rest \in Seq(Things) /\ Len(s \o rest) = Len(s) + Len(rest)
        /\ \A j \in 1..(Len(s) + Len(rest)) :
              (s \o rest)[j] = IF j <= Len(s) THEN s[j] ELSE rest[j - Len(s)]
    BY <1>3, <2>2, ConcatProperties
  <2>4. Len(s) \in Nat /\ Len(rest) \in Nat
    BY <1>3, <2>2, LenProperties
  <2>5. ASSUME NEW j \in 1..(Len(s) + Len(rest))
        PROVE  IsPlain((s \o rest)[j])
               \/ ((s \o rest)[j].do = "restore" /\ j = Len(s) + Len(rest))
    <3>1. CASE j <= Len(s)
      BY <2>2, <2>3, <2>4, <3>1
    <3>2. CASE ~(j <= Len(s))
      <4>1. j - Len(s) \in 1..Len(rest)
        BY <2>4, <3>2
      <4>2. rest[j - Len(s)].do = "restore" /\ j - Len(s) = 1 /\ Len(rest) = 1
        BY <1>3, <4>1
      <4> QED BY <2>3, <2>4, <3>2, <4>2
    <3> QED BY <3>1, <3>2
  <2> QED BY <1>1, <1>5, <2>3, <2>5 DEF Tame
<1> QED BY <1>4, <1>5

----------------------------------------------------------------------------
(* Types.                                                                  *)

\* What First and Reads say of the queues.
LEMMA FirstThing ==
    ASSUME TypeInv, NEW do, First(do)
    PROVE  /\ Head(todo) \in Things /\ Head(todo).do = do
           /\ Tail(todo) \in Seq(Things)
           /\ Len(Tail(todo)) = Len(todo) - 1
           /\ Len(todo) \in Nat /\ Len(todo) > 0 /\ Head(todo) = todo[1]
           /\ \A i \in 1..Len(Tail(todo)) : Tail(todo)[i] = todo[i + 1]
<1>1. todo \in Seq(Things) /\ todo # <<>> /\ Head(todo).do = do
  BY DEF TypeInv, TypeOK, First
<1>2. Len(todo) \in Nat /\ Len(todo) > 0 /\ Head(todo) = todo[1]
  BY <1>1
<1> QED BY <1>1, <1>2, HeadTailProperties

LEMMA FirstReport ==
    ASSUME TypeInv, back # <<>>
    PROVE  /\ Head(back) \in Report
           /\ Tail(back) \in Seq(Report)
           /\ Len(Tail(back)) = Len(back) - 1
           /\ Len(back) \in Nat /\ Len(back) > 0 /\ Head(back) = back[1]
           /\ \A i \in 1..Len(Tail(back)) : Tail(back)[i] = back[i + 1]
<1>1. back \in Seq(Report)
  BY DEF TypeInv
<1>2. Len(back) \in Nat /\ Len(back) > 0 /\ Head(back) = back[1]
  BY <1>1
<1> QED BY <1>1, <1>2, HeadTailProperties

LEMMA FirstLine ==
    ASSUME TypeInv, wire # <<>>
    PROVE  /\ Head(wire) \in Line
           /\ Tail(wire) \in Seq(Line)
           /\ Len(Tail(wire)) = Len(wire) - 1
           /\ Len(wire) \in Nat /\ Len(wire) > 0 /\ Head(wire) = wire[1]
           /\ \A i \in 1..Len(Tail(wire)) : Tail(wire)[i] = wire[i + 1]
<1>1. wire \in Seq(Line)
  BY DEF TypeInv
<1>2. Len(wire) \in Nat /\ Len(wire) > 0 /\ Head(wire) = wire[1]
  BY <1>1
<1> QED BY <1>1, <1>2, HeadTailProperties

LEMMA InitTypes == Init => TypeInv
<1> SUFFICES ASSUME Init PROVE TypeInv
  OBVIOUS
<1>1. wire \in Seq(Line) /\ back \in Seq(Report) /\ todo \in Seq(Things)
  BY EmptySeq DEF Init
<1>2. up \in BOOLEAN /\ allow \in BOOLEAN /\ monitor \in BOOLEAN
  BY DEF Init
<1>3. /\ reported \in [{"bp", "fpga"} -> Versions \cup {Unset}]
      /\ file \in [{"bp", "fpga"} -> Versions \cup {Unset}]
  BY DEF Init, NoReport
<1>4. /\ db \in [Keys -> Values \cup {Unset}]
      /\ reg \in [ValueLines -> Numbers] /\ call \in [PeerLines -> Numbers]
  BY SomeNumbers DEF Init, NoPeer
<1>5. /\ versions \in [{"bp", "fpga"} -> Versions]
      /\ ~up => todo = <<>> /\ allow
  BY DEF Init
<1> QED BY <1>1, <1>2, <1>3, <1>4, <1>5 DEF TypeInv, TypeOK

\* A thread's step whose todo and flag keep their type.
LEMMA ThreadTypes ==
    ASSUME TypeInv, up', todo' \in Seq(Things), allow' \in BOOLEAN,
           UNCHANGED <<reported, disk, port, service>>
    PROVE  TypeInv'
<1>1. up' \in BOOLEAN
  OBVIOUS
<1> QED BY <1>1 DEF TypeInv, TypeOK, disk, port, service

LEMMA MessageTypes == TypeInv /\ Messages => TypeInv'
BY MessageKinds, ThreadTypes DEF TypeInv, TypeOK

LEMMA StartTypes == TypeInv /\ Start => TypeInv'
<1> SUFFICES ASSUME TypeInv, Start PROVE TypeInv'
  OBVIOUS
<1>1. up' = TRUE /\ UNCHANGED <<allow, reported, disk, port, service>>
  BY DEF Start
<1> QED BY <1>1, StartIsTame, ThreadTypes DEF TypeInv, TypeOK

LEMMA SendTypes == TypeInv /\ send_command => TypeInv'
<1> SUFFICES ASSUME TypeInv, send_command PROVE TypeInv'
  OBVIOUS
<1> DEFINE x == [line |-> Head(todo).what, value |-> Head(todo).value]
<1>1. Head(todo) \in Things /\ Head(todo).do = "send" /\ Tail(todo) \in Seq(Things)
  BY FirstThing DEF send_command
<1>2. x \in Line
  <2>1. Head(todo).what \in Words /\ Head(todo).value \in Numbers
    BY <1>1, ThingKinds
  <2> QED BY <2>1 DEF Line
<1>3. wire' \in Seq(Line)
  BY <1>2, AppendProperties DEF send_command, TypeInv
<1>4. /\ todo' \in Seq(Things) /\ up = TRUE
      /\ UNCHANGED <<up, allow, reported, disk, back, service>>
  BY <1>1 DEF send_command, First, TypeInv, TypeOK
<1> QED BY <1>3, <1>4 DEF TypeInv, TypeOK, disk, service

LEMMA SaveTypes == TypeInv /\ assoc_at => TypeInv'
<1> SUFFICES ASSUME TypeInv, assoc_at PROVE TypeInv'
  OBVIOUS
<1>1. Head(todo) \in Things /\ Head(todo).do = "save" /\ Tail(todo) \in Seq(Things)
  BY FirstThing DEF assoc_at
<1>2. Head(todo).what \in Keys /\ Head(todo).value \in Values
  BY <1>1, ThingKinds
<1>3. db' \in [Keys -> Values \cup {Unset}]
  BY <1>2 DEF assoc_at, TypeInv, TypeOK
<1>4. /\ todo' \in Seq(Things) /\ up = TRUE
      /\ UNCHANGED <<up, allow, reported, file, port, service>>
  BY <1>1 DEF assoc_at, First, TypeInv, TypeOK
<1> QED BY <1>3, <1>4 DEF TypeInv, TypeOK, port, service

LEMMA AllowTypes == TypeInv /\ reset_allow => TypeInv'
<1> SUFFICES ASSUME TypeInv, reset_allow PROVE TypeInv'
  OBVIOUS
<1>1. Head(todo) \in Things /\ Head(todo).do = "allow" /\ Tail(todo) \in Seq(Things)
  BY FirstThing DEF reset_allow
<1>2. Head(todo).what \in BOOLEAN
  BY <1>1, ThingKinds
<1>3. allow' \in BOOLEAN
  BY <1>2 DEF reset_allow
<1>4. up' /\ todo' = Tail(todo) /\ UNCHANGED <<reported, disk, port, service>>
  BY DEF reset_allow, First
<1> QED BY <1>1, <1>3, <1>4, ThreadTypes

\* The flag is read.
LEMMA CoredumpTypes == TypeInv /\ start_coredump => TypeInv'
<1> SUFFICES ASSUME TypeInv, start_coredump PROVE TypeInv'
  OBVIOUS
<1>1. Tail(todo) \in Seq(Things)
  BY FirstThing DEF start_coredump
<1>2. <<Allow(FALSE), Monitor>> \in Seq(Things)
  BY StopIsThings
<1>3. <<Allow(FALSE), Monitor>> \o Tail(todo) \in Seq(Things)
  BY <1>1, <1>2, ConcatProperties
<1>4. todo' \in Seq(Things)
  BY <1>1, <1>3 DEF start_coredump, Monitor
<1>5. up' /\ allow' = allow /\ UNCHANGED <<reported, disk, port, service>>
  BY DEF start_coredump, First
<1> QED BY <1>4, <1>5, ThreadTypes DEF TypeInv, TypeOK

LEMMA RestoreTypes == TypeInv /\ init_hw_values => TypeInv'
<1> SUFFICES ASSUME TypeInv, init_hw_values PROVE TypeInv'
  OBVIOUS
<1>1. up' /\ allow' = allow /\ UNCHANGED <<reported, disk, port, service>>
  BY DEF init_hw_values, First
<1> QED BY <1>1, RestoreIsTame, ThreadTypes DEF TypeInv, TypeOK

LEMMA HangupTypes == TypeInv /\ hangup_all => TypeInv'
<1> SUFFICES ASSUME TypeInv, hangup_all PROVE TypeInv'
  OBVIOUS
<1>1. [line |-> "hangup", value |-> Unset] \in Line
  BY SomeNumbers, SomeWords DEF Line
<1>2. wire' \in Seq(Line)
  BY <1>1, AppendProperties DEF hangup_all, TypeInv
<1>3. back' \in Seq(Report)
  BY FirstReport DEF hangup_all, Reads
<1>4. UNCHANGED <<process, disk, service>>
  BY DEF hangup_all
<1> QED BY <1>2, <1>3, <1>4 DEF TypeInv, TypeOK, process, disk, service

LEMMA VersionTypes ==
    ASSUME TypeInv, NEW v \in {"bp", "fpga"}, Version(v) PROVE TypeInv'
<1>1. Head(back) \in Report /\ back' \in Seq(Report)
  BY FirstReport DEF Version, Reads
<1>2. Head(back).value \in Versions \cup {Unset}
  BY <1>1 DEF Report
<1>3. reported' \in [{"bp", "fpga"} -> Versions \cup {Unset}]
  BY <1>2 DEF Version, TypeInv, TypeOK
<1>4. file' \in [{"bp", "fpga"} -> Versions \cup {Unset}]
  BY <1>3 DEF Version, TypeInv, TypeOK
<1>5. UNCHANGED <<up, todo, allow, db, wire, service>>
  BY DEF Version
<1> QED BY <1>1, <1>3, <1>4, <1>5 DEF TypeInv, TypeOK, service

\* What the service answers.
LEMMA AnswerIsReport ==
    ASSUME TypeInv, Obey
    PROVE  /\ back' \in Seq(Report)
           /\ \/ back' = back
              \/ /\ Head(wire).line = "bver"
                 /\ back' = Append(back, [report |-> "bp", value |-> versions.bp])
              \/ /\ Head(wire).line = "cver"
                 /\ back' = Append(back, [report |-> "fpga", value |-> versions.fpga])
<1>1. versions.bp \in Versions /\ versions.fpga \in Versions
  BY DEF TypeInv, TypeOK
<1>2. /\ [report |-> "bp", value |-> versions.bp] \in Report
      /\ [report |-> "fpga", value |-> versions.fpga] \in Report
  BY <1>1 DEF Report
<1>3. /\ \/ back' = back
         \/ /\ Head(wire).line = "bver"
            /\ back' = Append(back, [report |-> "bp", value |-> versions.bp])
         \/ /\ Head(wire).line = "cver"
            /\ back' = Append(back, [report |-> "fpga", value |-> versions.fpga])
  BY DEF Obey
<1>4. back' \in Seq(Report)
  <2>1. back \in Seq(Report)
    BY DEF TypeInv
  <2>2. \A r \in Report : Append(back, r) \in Seq(Report)
    BY <2>1, AppendProperties
  <2> QED BY <1>2, <1>3, <2>1, <2>2
<1> QED BY <1>3, <1>4

LEMMA ObeyTypes == TypeInv /\ Obey => TypeInv'
<1> SUFFICES ASSUME TypeInv, Obey PROVE TypeInv'
  OBVIOUS
<1>1. Head(wire) \in Line /\ wire' \in Seq(Line)
  BY FirstLine DEF Obey
<1>2. Head(wire).value \in Numbers
  BY <1>1 DEF Line
<1>3. reg' \in [ValueLines -> Numbers]
  BY <1>2 DEF Obey, TypeInv, TypeOK
<1>4. call' \in [PeerLines -> Numbers]
  <2>1. \A p \in PeerLines : reg[p] \in Numbers
    BY SomeWords DEF TypeInv, TypeOK
  <2>2. [p \in PeerLines |-> reg[p]] \in [PeerLines -> Numbers]
    BY <2>1
  <2>3. NoPeer \in [PeerLines -> Numbers]
    BY SomeNumbers DEF NoPeer
  <2>4. call' \in {call, NoPeer, [p \in PeerLines |-> reg[p]]}
    BY DEF Obey
  <2> QED BY <2>2, <2>3, <2>4 DEF TypeInv, TypeOK
<1>5. monitor' \in BOOLEAN
  BY DEF Obey
<1>6. UNCHANGED <<process, disk, versions>>
  BY DEF Obey
<1> QED BY <1>1, <1>3, <1>4, <1>5, <1>6, AnswerIsReport
    DEF TypeInv, TypeOK, process, disk

LEMMA FailTypes == TypeInv /\ SyncFails => TypeInv'
<1> SUFFICES ASSUME TypeInv, SyncFails PROVE TypeInv'
  OBVIOUS
<1>1. [report |-> "sync/end", value |-> Unset] \in Report
  BY DEF Report
<1>2. back' \in Seq(Report)
  BY <1>1, AppendProperties DEF SyncFails, TypeInv
<1>3. UNCHANGED <<process, disk, wire, service>>
  BY DEF SyncFails
<1> QED BY <1>2, <1>3 DEF TypeInv, TypeOK, process, disk, service

LEMMA EndTypes ==
    ASSUME EndTpx
    PROVE  /\ up' = FALSE /\ allow' = TRUE /\ todo' = <<>>
           /\ todo' \in Seq(Things)
           /\ reported' \in [{"bp", "fpga"} -> Versions \cup {Unset}]
           /\ UNCHANGED disk
<1>1. <<>> \in Seq(Things)
  BY EmptySeq
<1> QED BY <1>1 DEF EndTpx, NoReport

LEMMA CrashTypes == TypeInv /\ Crash => TypeInv'
<1> SUFFICES ASSUME TypeInv, Crash PROVE TypeInv'
  OBVIOUS
<1>1. back' = back \/ (back # <<>> /\ back' = Tail(back))
  BY DEF Crash
<1>2. back' \in Seq(Report)
  BY <1>1, FirstReport DEF TypeInv
<1>3. EndTpx /\ UNCHANGED <<wire, service>>
  BY DEF Crash
<1> QED BY <1>2, <1>3, EndTypes DEF TypeInv, TypeOK, disk, service

LEMMA ServiceTypes ==
    ASSUME TypeInv, NEW v \in [{"bp", "fpga"} -> Versions], RestartService(v)
    PROVE  TypeInv'
<1>1. wire' \in Seq(Line) /\ back' \in Seq(Report)
  BY EmptySeq DEF RestartService, TypeInv
<1>2. reg' \in [ValueLines -> Numbers] /\ call' \in [PeerLines -> Numbers]
  BY SomeNumbers DEF RestartService, NoPeer
<1>3. monitor' \in BOOLEAN /\ versions' = v /\ EndTpx
  BY DEF RestartService
<1> QED BY <1>1, <1>2, <1>3, EndTypes DEF TypeInv, TypeOK, disk

LEMMA NextTypes == TypeInv /\ [Next]_vars => TypeInv'
<1> SUFFICES ASSUME TypeInv, [Next]_vars PROVE TypeInv'
  OBVIOUS
<1>1. CASE UNCHANGED vars
  BY <1>1 DEF TypeInv, TypeOK, vars, process, disk, port, service
<1>2. ASSUME NEW v \in {"bp", "fpga"}, Version(v) PROVE TypeInv'
  BY <1>2, VersionTypes
<1>3. ASSUME NEW v \in [{"bp", "fpga"} -> Versions], RestartService(v) PROVE TypeInv'
  BY <1>3, ServiceTypes
<1> QED BY <1>1, <1>2, <1>3, StartTypes, MessageTypes, SendTypes, SaveTypes,
           AllowTypes, CoredumpTypes, RestoreTypes, HangupTypes, ObeyTypes,
           FailTypes, CrashTypes DEF Next

\* Every variable keeps its type (ipc.clj, ipc/command.clj, ipc/handler.clj),
\* and nothing is left to do, nor the flag lowered, when TPX does not run.
THEOREM TypeCorrect == Spec => []TypeOK
<1>1. TypeInv => TypeOK
  BY DEF TypeInv
<1> QED BY <1>1, InitTypes, NextTypes, PTL DEF Spec

----------------------------------------------------------------------------
(* The lines on their way.                                                 *)

\* Of the first n lines of s, and what the service had before them, q is the
\* last that l was set to.
LastIs(s, r, n, l, q) ==
    \/ \E i \in 1..n : /\ s[i].line = l /\ s[i].value = q
                       /\ \A j \in (i + 1)..n : s[j].line # l
    \/ r[l] = q /\ \A j \in 1..n : s[j].line # l

\* The service monitors once it has taken all lines of s.
HeldOn(s, m) ==
    \/ \E i \in 1..Len(s) : /\ s[i].line = "monitor"
                            /\ \A j \in (i + 1)..Len(s) : s[j].line # "halt"
    \/ m /\ \A j \in 1..Len(s) : s[j].line # "halt"

LEMMA AppendFacts ==
    ASSUME NEW s \in Seq(Line), NEW x \in Line
    PROVE  /\ Append(s, x) \in Seq(Line)
           /\ Len(s) \in Nat /\ Len(Append(s, x)) = Len(s) + 1
           /\ \A i \in 1..Len(s) : Append(s, x)[i] = s[i]
           /\ Append(s, x)[Len(s) + 1] = x
<1>1. Len(s) \in Nat
  BY LenProperties
<1> QED BY <1>1, AppendProperties

LEMMA LastKept ==
    ASSUME NEW s \in Seq(Line), NEW x \in Line, NEW r, NEW l, NEW q,
           NEW n \in 0..Len(s), LastIs(s, r, n, l, q)
    PROVE  LastIs(Append(s, x), r, n, l, q)
<1> DEFINE t == Append(s, x)
<1>1. Len(s) \in Nat /\ \A i \in 1..n : t[i] = s[i]
  BY AppendFacts
<1> HIDE DEF t
<1>2. CASE \E i \in 1..n : /\ s[i].line = l /\ s[i].value = q
                           /\ \A j \in (i + 1)..n : s[j].line # l
  <2>1. PICK i \in 1..n : /\ s[i].line = l /\ s[i].value = q
                          /\ \A j \in (i + 1)..n : s[j].line # l
    BY <1>2
  <2>2. \A j \in (i + 1)..n : j \in 1..n
    BY <1>1
  <2>3. t[i].line = l /\ t[i].value = q /\ \A j \in (i + 1)..n : t[j].line # l
    BY <1>1, <2>1, <2>2
  <2>4. LastIs(t, r, n, l, q)
    BY <2>3 DEF LastIs
  <2> QED BY <2>4 DEF t
<1>3. CASE r[l] = q /\ \A j \in 1..n : s[j].line # l
  <2>1. LastIs(t, r, n, l, q)
    BY <1>1, <1>3 DEF LastIs
  <2> QED BY <2>1 DEF t
<1> QED BY <1>2, <1>3 DEF LastIs

LEMMA LastSaid ==
    ASSUME NEW s \in Seq(Line), NEW x \in Line, NEW r
    PROVE  LastIs(Append(s, x), r, Len(Append(s, x)), x.line, x.value)
<1> DEFINE t == Append(s, x)
<1>1. Len(s) \in Nat /\ Len(t) = Len(s) + 1 /\ t[Len(s) + 1] = x
  BY AppendFacts
<1> HIDE DEF t
<1>2. Len(t) \in 1..Len(t) /\ t[Len(t)] = x /\ \A j \in (Len(t) + 1)..Len(t) : FALSE
  BY <1>1
<1>3. LastIs(t, r, Len(t), x.line, x.value)
  BY <1>2 DEF LastIs
<1> QED BY <1>3 DEF t

LEMMA LastStays ==
    ASSUME NEW s \in Seq(Line), NEW x \in Line, NEW r, NEW l, NEW q,
           x.line # l, LastIs(s, r, Len(s), l, q)
    PROVE  LastIs(Append(s, x), r, Len(Append(s, x)), l, q)
<1> DEFINE t == Append(s, x)
           n == Len(s)
<1>1. /\ n \in Nat /\ Len(t) = n + 1 /\ t[n + 1] = x
      /\ \A i \in 1..n : t[i] = s[i]
  BY AppendFacts
<1>0. LastIs(s, r, n, l, q)
  OBVIOUS
<1> HIDE DEF t, n
<1>2. CASE \E i \in 1..n : /\ s[i].line = l /\ s[i].value = q
                           /\ \A j \in (i + 1)..n : s[j].line # l
  <2>1. PICK i \in 1..n : /\ s[i].line = l /\ s[i].value = q
                          /\ \A j \in (i + 1)..n : s[j].line # l
    BY <1>2
  <2>2. \A j \in (i + 1)..(n + 1) : j = n + 1 \/ (j \in 1..n /\ j \in (i + 1)..n)
    BY <1>1
  <2>3. \A j \in (i + 1)..(n + 1) : t[j].line # l
    BY <1>1, <2>1, <2>2
  <2>4. i \in 1..(n + 1) /\ t[i].line = l /\ t[i].value = q
    BY <1>1, <2>1
  <2>5. LastIs(t, r, Len(t), l, q)
    BY <1>1, <2>3, <2>4 DEF LastIs
  <2> QED BY <2>5 DEF t
<1>3. CASE r[l] = q /\ \A j \in 1..n : s[j].line # l
  <2>1. \A j \in 1..(n + 1) : j = n + 1 \/ j \in 1..n
    BY <1>1
  <2>2. \A j \in 1..(n + 1) : t[j].line # l
    BY <1>1, <1>3, <2>1
  <2>3. LastIs(t, r, Len(t), l, q)
    BY <1>1, <1>3, <2>2 DEF LastIs
  <2> QED BY <2>3 DEF t
<1> QED BY <1>0, <1>2, <1>3 DEF LastIs

\* The service takes a line.
LEMMA LastTaken ==
    ASSUME NEW s \in Seq(Line), s # <<>>, NEW n \in 1..Len(s),
           NEW r, NEW u, NEW l, NEW q, LastIs(s, r, n, l, q),
           u[l] = IF Head(s).line = l THEN Head(s).value ELSE r[l]
    PROVE  LastIs(Tail(s), u, n - 1, l, q)
<1> DEFINE t == Tail(s)
<1>1. /\ Len(s) \in Nat /\ n \in Nat /\ Len(t) = Len(s) - 1 /\ Head(s) = s[1]
      /\ \A i \in 1..(n - 1) : t[i] = s[i + 1]
  <2>1. Len(s) \in Nat /\ Head(s) = s[1]
    BY LenProperties
  <2>2. Len(t) = Len(s) - 1 /\ \A i \in 1..Len(t) : t[i] = s[i + 1]
    BY HeadTailProperties
  <2> QED BY <2>1, <2>2
<1> HIDE DEF t
<1>2. CASE \E i \in 1..n : /\ s[i].line = l /\ s[i].value = q
                           /\ \A j \in (i + 1)..n : s[j].line # l
  <2>1. PICK i \in 1..n : /\ s[i].line = l /\ s[i].value = q
                          /\ \A j \in (i + 1)..n : s[j].line # l
    BY <1>2
  <2>2. \A j \in i..(n - 1) : j + 1 \in (i + 1)..n /\ j \in 1..(n - 1)
    BY <1>1
  <2>3. \A j \in i..(n - 1) : t[j].line # l
    BY <1>1, <2>1, <2>2
  <2>4. CASE i = 1
    <3>1. u[l] = q
      BY <1>1, <2>1, <2>4
    <3>2. \A j \in 1..(n - 1) : t[j].line # l
      BY <2>3, <2>4
    <3> QED BY <3>1, <3>2 DEF LastIs, t
  <2>5. CASE i # 1
    <3>1. i - 1 \in 1..(n - 1) /\ (i - 1) + 1 = i
      BY <1>1, <2>5
    <3>2. t[i - 1].line = l /\ t[i - 1].value = q
      BY <1>1, <2>1, <3>1
    <3>3. \A j \in ((i - 1) + 1)..(n - 1) : t[j].line # l
      BY <2>3, <3>1
    <3> QED BY <3>1, <3>2, <3>3 DEF LastIs, t
  <2> QED BY <2>4, <2>5
<1>3. CASE r[l] = q /\ \A j \in 1..n : s[j].line # l
  <2>1. 1 \in 1..n /\ \A j \in 1..(n - 1) : j + 1 \in 1..n
    BY <1>1
  <2>2. u[l] = q
    BY <1>1, <1>3, <2>1
  <2>3. \A j \in 1..(n - 1) : t[j].line # l
    BY <1>1, <1>3, <2>1
  <2> QED BY <2>2, <2>3 DEF LastIs, t
<1> QED BY <1>2, <1>3 DEF LastIs

\* The same of the monitor.
LEMMA HeldStays ==
    ASSUME NEW s \in Seq(Line), NEW x \in Line, NEW m, x.line # "halt",
           HeldOn(s, m) \/ x.line = "monitor"
    PROVE  HeldOn(Append(s, x), m)
<1> DEFINE t == Append(s, x)
           n == Len(s)
<1>1. /\ n \in Nat /\ Len(t) = n + 1 /\ t[n + 1] = x
      /\ \A i \in 1..n : t[i] = s[i]
  BY AppendFacts
<1>0. HeldOn(s, m) => \/ \E i \in 1..n : /\ s[i].line = "monitor"
                                         /\ \A j \in (i + 1)..n : s[j].line # "halt"
                      \/ m /\ \A j \in 1..n : s[j].line # "halt"
  BY DEF HeldOn
<1> HIDE DEF t, n
<1>2. ASSUME NEW i \in 1..n, s[i].line = "monitor",
             \A j \in (i + 1)..n : s[j].line # "halt"
      PROVE  HeldOn(t, m)
  <2>1. \A j \in (i + 1)..(n + 1) : j = n + 1 \/ (j \in 1..n /\ j \in (i + 1)..n)
    BY <1>1
  <2>2. \A j \in (i + 1)..(n + 1) : t[j].line # "halt"
    BY <1>1, <1>2, <2>1
  <2>3. i \in 1..(n + 1) /\ t[i].line = "monitor"
    BY <1>1, <1>2
  <2> QED BY <1>1, <2>2, <2>3 DEF HeldOn
<1>3. ASSUME m, \A j \in 1..n : s[j].line # "halt" PROVE HeldOn(t, m)
  <2>1. \A j \in 1..(n + 1) : j = n + 1 \/ j \in 1..n
    BY <1>1
  <2>2. \A j \in 1..(n + 1) : t[j].line # "halt"
    BY <1>1, <1>3, <2>1
  <2> QED BY <1>1, <1>3, <2>2 DEF HeldOn
<1>4. ASSUME x.line = "monitor" PROVE HeldOn(t, m)
  <2>1. n + 1 \in 1..(n + 1) /\ \A j \in ((n + 1) + 1)..(n + 1) : FALSE
    BY <1>1
  <2> QED BY <1>1, <1>4, <2>1 DEF HeldOn
<1>5. HeldOn(t, m)
  BY <1>0, <1>2, <1>3, <1>4
<1> QED BY <1>5 DEF t

LEMMA HeldTaken ==
    ASSUME NEW s \in Seq(Line), s # <<>>, NEW m, HeldOn(s, m), NEW w,
           w <=> (Head(s).line = "monitor" \/ (m /\ Head(s).line # "halt"))
    PROVE  HeldOn(Tail(s), w)
<1> DEFINE t == Tail(s)
           n == Len(s)
<1>1. /\ n \in Nat /\ n > 0 /\ Len(t) = n - 1 /\ Head(s) = s[1]
      /\ \A i \in 1..(n - 1) : t[i] = s[i + 1]
  <2>1. n \in Nat /\ n > 0 /\ Head(s) = s[1]
    BY LenProperties
  <2>2. Len(t) = Len(s) - 1 /\ \A i \in 1..Len(t) : t[i] = s[i + 1]
    BY HeadTailProperties
  <2> QED BY <2>1, <2>2
<1>0. \/ \E i \in 1..n : /\ s[i].line = "monitor"
                         /\ \A j \in (i + 1)..n : s[j].line # "halt"
      \/ m /\ \A j \in 1..n : s[j].line # "halt"
  BY DEF HeldOn
<1> HIDE DEF t, n
<1>2. ASSUME NEW i \in 1..n, s[i].line = "monitor",
             \A j \in (i + 1)..n : s[j].line # "halt"
      PROVE  HeldOn(t, w)
  <2>1. \A j \in i..(n - 1) : j + 1 \in (i + 1)..n /\ j \in 1..(n - 1)
    BY <1>1
  <2>2. \A j \in i..(n - 1) : t[j].line # "halt"
    BY <1>1, <1>2, <2>1
  <2>3. CASE i = 1
    <3>1. w /\ \A j \in 1..(n - 1) : t[j].line # "halt"
      BY <1>1, <1>2, <2>2, <2>3
    <3> QED BY <1>1, <3>1 DEF HeldOn
  <2>4. CASE i # 1
    <3>1. i - 1 \in 1..(n - 1) /\ (i - 1) + 1 = i
      BY <1>1, <2>4
    <3>2. t[i - 1].line = "monitor" /\ \A j \in ((i - 1) + 1)..(n - 1) : t[j].line # "halt"
      BY <1>1, <1>2, <2>2, <3>1
    <3> QED BY <1>1, <3>1, <3>2 DEF HeldOn
  <2> QED BY <2>3, <2>4
<1>3. ASSUME m, \A j \in 1..n : s[j].line # "halt" PROVE HeldOn(t, w)
  <2>1. 1 \in 1..n /\ \A j \in 1..(n - 1) : j + 1 \in 1..n
    BY <1>1
  <2>2. \A j \in 1..(n - 1) : t[j].line # "halt"
    BY <1>1, <1>3, <2>1
  <2>3. w
    BY <1>1, <1>3, <2>1
  <2> QED BY <1>1, <2>2, <2>3 DEF HeldOn
<1>4. HeldOn(t, w)
  BY <1>0, <1>2, <1>3
<1> QED BY <1>4 DEF t

----------------------------------------------------------------------------
(* The monitor and the calls.                                              *)

\* What the service was told of l when it has taken every line is p.
Said(l, p) == LastIs(wire, reg, Len(wire), l, p)

\* A call is on its way to be dialled: what is left of its lines.
Dialling(p, d) ==
    \/ todo = <<Send("setport", p), Send("setrpip", p), Send("setrlip", p),
                Send(d, Unset), StartCoredump>>
    \/ /\ todo = <<Send("setrpip", p), Send("setrlip", p), Send(d, Unset),
                   StartCoredump>>
       /\ Said("setport", p)
    \/ /\ todo = <<Send("setrlip", p), Send(d, Unset), StartCoredump>>
       /\ Said("setport", p) /\ Said("setrpip", p)
    \/ /\ todo = <<Send(d, Unset), StartCoredump>>
       /\ Said("setport", p) /\ Said("setrpip", p) /\ Said("setrlip", p)
    \/ todo = <<StartCoredump>>

\* What the thread may be at.
Work ==
    \/ Tame(todo)
    \/ \E p \in Peers, d \in {"rcall", "icall"} : Dialling(p, d)
    \/ todo = <<Allow(FALSE), Monitor>>
    \/ todo = <<Monitor>>
    \/ todo = <<Allow(TRUE), Halt>>
    \/ todo = <<Allow(TRUE), Halt, Hangup>>
    \/ allow /\ (todo = <<Halt>> \/ todo = <<Halt, Hangup>>)

\* The monitor is held back only if the service will run it, or it is the next
\* thing to ask.
Flagged == up /\ ~allow => HeldOn(wire, monitor) \/ todo = <<Monitor>>

\* When it has taken the first n lines of s, a service that had been told r
\* knows nothing of peers but what makes it q.
Told(s, r, n, q) ==
    \A l \in PeerLines : LastIs(s, r, n, l, q) \/ LastIs(s, r, n, l, Unset)

\* Every call on the wire finds one peer told, or a part of one.
Dialled ==
    \A k \in 1..Len(wire) : wire[k].line \in {"rcall", "icall"} =>
        \E q \in Numbers : Told(wire, reg, k - 1, q)

CallInv == Work /\ Flagged /\ Dialled /\ CallsOnePeer

LEMMA EmptyIsTame == Tame(<<>>)
BY DEF Tame

LEMMA OneIsTame == ASSUME NEW t \in Things, IsPlain(t) PROVE Tame(<<t>>)
<1>1. Len(<<t>>) = 1 /\ <<t>>[1] = t
  OBVIOUS
<1> QED BY <1>1 DEF Tame

\* The thread's first thing is one of these.
LEMMA TameTail ==
    ASSUME TypeInv, NEW do, First(do), Tame(todo)
    PROVE  /\ Tame(Tail(todo))
           /\ IsPlain(Head(todo)) \/ Head(todo).do = "restore"
<1>1. /\ Len(Tail(todo)) = Len(todo) - 1
      /\ Len(todo) \in Nat /\ Len(todo) > 0 /\ Head(todo) = todo[1]
      /\ \A i \in 1..Len(Tail(todo)) : Tail(todo)[i] = todo[i + 1]
  BY FirstThing
<1>2. \A i \in 1..Len(Tail(todo)) :
         i + 1 \in 1..Len(todo) /\ (i + 1 = Len(todo) => i = Len(Tail(todo)))
  BY <1>1
<1>3. Tame(Tail(todo))
  BY <1>1, <1>2 DEF Tame
<1>4. 1 \in 1..Len(todo)
  BY <1>1
<1> QED BY <1>1, <1>3, <1>4 DEF Tame

LEMMA TuplesTaken ==
    ASSUME NEW a, NEW b, NEW c, NEW d, NEW e
    PROVE  /\ Head(<<a>>) = a /\ Tail(<<a>>) = <<>>
           /\ Head(<<a, b>>) = a /\ Tail(<<a, b>>) = <<b>>
           /\ Head(<<a, b, c>>) = a /\ Tail(<<a, b, c>>) = <<b, c>>
           /\ Head(<<a, b, c, d>>) = a /\ Tail(<<a, b, c, d>>) = <<b, c, d>>
           /\ Head(<<a, b, c, d, e>>) = a
           /\ Tail(<<a, b, c, d, e>>) = <<b, c, d, e>>
OBVIOUS

LEMMA Kinds ==
    /\ \A l, v : Send(l, v).do = "send" /\ Send(l, v).what = l /\ Send(l, v).value = v
    /\ \A b : Allow(b).do = "allow" /\ Allow(b).what = b
    /\ StartCoredump.do = "start"
BY DEF Send, Allow, StartCoredump

\* A line of this thread: the work goes on in its order.
LEMMA SendShape ==
    ASSUME TypeInv, CallInv, send_command, NEW x,
           x = [line |-> Head(todo).what, value |-> Head(todo).value]
    PROVE  /\ Work'
           /\ x.line \in {"rcall", "icall"} =>
                \E q \in Numbers : \A l \in PeerLines : Said(l, q)
           /\ x.line = "halt" => allow
           /\ todo = <<Monitor>> => x.line = "monitor"
<1> DEFINE Goal == /\ Work'
                   /\ x.line \in {"rcall", "icall"} =>
                        \E q \in Numbers : \A l \in PeerLines : Said(l, q)
                   /\ x.line = "halt" => allow
<1>1. /\ Head(todo).do = "send" /\ todo' = Tail(todo) /\ allow' = allow
      /\ x.line = Head(todo).what /\ x.value = Head(todo).value
      /\ wire' = Append(wire, x) /\ reg' = reg
  BY DEF send_command, First, service
<1>2. x \in Line /\ wire \in Seq(Line)
  <2>1. Head(todo) \in Things /\ Head(todo).do = "send"
    BY FirstThing DEF send_command
  <2>2. Head(todo).what \in Words /\ Head(todo).value \in Numbers
    BY <2>1, ThingKinds
  <2> QED BY <2>2 DEF Line, TypeInv
<1>3. todo = <<Monitor>> => x.line = "monitor"
  BY <1>1, TuplesTaken, Kinds DEF Monitor
<1>4. CASE Tame(todo)
  <2>1. Tame(Tail(todo)) /\ (IsPlain(Head(todo)) \/ Head(todo).do = "restore")
    BY <1>4, TameTail DEF send_command
  <2>2. Work'
    BY <1>1, <2>1 DEF Work, Tame
  <2>3. x.line \in PlainWords
    BY <1>1, <2>1 DEF IsPlain
  <2> QED BY <2>2, <2>3, <1>3 DEF PlainWords
<1>5. ASSUME NEW p \in Peers, NEW d \in {"rcall", "icall"}, Dialling(p, d)
      PROVE  Goal
  <2> DEFINE a == Send("setport", p)
             b == Send("setrpip", p)
             c == Send("setrlip", p)
             e == Send(d, Unset)
  <2>1. /\ LastIs(wire', reg', Len(wire'), x.line, x.value)
        /\ \A l \in PeerLines : x.line # l /\ Said(l, p) => Said(l, p)'
    BY <1>1, <1>2, LastSaid, LastStays DEF Said
  <2>2. PeerLines = {"setport", "setrpip", "setrlip"}
    BY DEF PeerLines
  <2>4. CASE todo = <<a, b, c, e, StartCoredump>>
    <3>1. Head(todo) = a /\ Tail(todo) = <<b, c, e, StartCoredump>>
      BY <2>4, TuplesTaken
    <3>2. x.line = "setport" /\ x.value = p
      BY <1>1, <3>1, Kinds
    <3>3. Said("setport", p)'
      BY <2>1, <3>2 DEF Said
    <3>4. Dialling(p, d)'
      BY <1>1, <3>1, <3>3 DEF Dialling
    <3> QED BY <3>2, <3>4 DEF Work
  <2>5. CASE todo = <<b, c, e, StartCoredump>> /\ Said("setport", p)
    <3>1. Head(todo) = b /\ Tail(todo) = <<c, e, StartCoredump>>
      BY <2>5, TuplesTaken
    <3>2. x.line = "setrpip" /\ x.value = p
      BY <1>1, <3>1, Kinds
    <3>3. Said("setrpip", p)' /\ Said("setport", p)'
      BY <2>1, <2>2, <2>5, <3>2 DEF Said
    <3>4. Dialling(p, d)'
      BY <1>1, <3>1, <3>3 DEF Dialling
    <3> QED BY <3>2, <3>4 DEF Work
  <2>6. CASE /\ todo = <<c, e, StartCoredump>>
             /\ Said("setport", p) /\ Said("setrpip", p)
    <3>1. Head(todo) = c /\ Tail(todo) = <<e, StartCoredump>>
      BY <2>6, TuplesTaken
    <3>2. x.line = "setrlip" /\ x.value = p
      BY <1>1, <3>1, Kinds
    <3>3. Said("setrpip", p)' /\ Said("setport", p)' /\ Said("setrlip", p)'
      BY <2>1, <2>2, <2>6, <3>2 DEF Said
    <3>4. Dialling(p, d)'
      BY <1>1, <3>1, <3>3 DEF Dialling
    <3> QED BY <3>2, <3>4 DEF Work
  <2>7. CASE /\ todo = <<e, StartCoredump>>
             /\ Said("setport", p) /\ Said("setrpip", p) /\ Said("setrlip", p)
    <3>1. Head(todo) = e /\ Tail(todo) = <<StartCoredump>>
      BY <2>7, TuplesTaken
    <3>2. x.line = d
      BY <1>1, <3>1, Kinds
    <3>4. Dialling(p, d)'
      BY <1>1, <3>1 DEF Dialling
    <3>5. p \in Numbers /\ \A l \in PeerLines : Said(l, p)
      BY <2>2, <2>7, SomeNumbers
    <3> QED BY <3>2, <3>4, <3>5 DEF Work
  <2>8. CASE todo = <<StartCoredump>>
    BY <1>1, <2>8, TuplesTaken, Kinds
  <2> QED BY <1>5, <2>4, <2>5, <2>6, <2>7, <2>8 DEF Dialling
<1>6. CASE todo = <<Allow(FALSE), Monitor>> \/ todo = <<Allow(TRUE), Halt>>
           \/ todo = <<Allow(TRUE), Halt, Hangup>>
  <2>1. Head(todo) = Allow(FALSE) \/ Head(todo) = Allow(TRUE)
    <3>1. CASE todo = <<Allow(FALSE), Monitor>>
      BY <3>1, TuplesTaken
    <3>2. CASE todo = <<Allow(TRUE), Halt>>
      BY <3>2, TuplesTaken
    <3>3. CASE todo = <<Allow(TRUE), Halt, Hangup>>
      BY <3>3, TuplesTaken
    <3> QED BY <1>6, <3>1, <3>2, <3>3
  <2> QED BY <1>1, <2>1, Kinds
<1>7. CASE todo = <<Monitor>>
  <2>1. Work'
    BY <1>1, <1>7, TuplesTaken, EmptyIsTame DEF Work
  <2> QED BY <1>3, <1>7, <2>1
<1>8. CASE allow /\ (todo = <<Halt>> \/ todo = <<Halt, Hangup>>)
  <2>1. Tame(<<>>) /\ Tame(<<Hangup>>)
    <3>1. Hangup \in Things /\ IsPlain(Hangup)
      <4>1. Hangup \in Things
        BY SendIsThing, SomeNumbers, SomeWords DEF Hangup
      <4> QED BY <4>1 DEF IsPlain, PlainWords, Hangup, Send
    <3> QED BY <3>1, EmptyIsTame, OneIsTame
  <2>2. (Tail(todo) = <<>> \/ Tail(todo) = <<Hangup>>) /\ Head(todo) = Halt
    <3>1. CASE todo = <<Halt>>
      BY <3>1, TuplesTaken
    <3>2. CASE todo = <<Halt, Hangup>>
      BY <3>2, TuplesTaken
    <3> QED BY <1>8, <3>1, <3>2
  <2>3. Work'
    BY <1>1, <2>1, <2>2 DEF Work
  <2>4. x.line = "halt"
    BY <1>1, <2>2, Kinds DEF Halt
  <2> QED BY <1>3, <1>8, <2>3, <2>4
<1> QED BY <1>3, <1>4, <1>5, <1>6, <1>7, <1>8 DEF CallInv, Work

LEMMA SendCalls == TypeInv /\ CallInv /\ send_command => CallInv'
<1> SUFFICES ASSUME TypeInv, CallInv, send_command PROVE CallInv'
  OBVIOUS
<1> DEFINE x == [line |-> Head(todo).what, value |-> Head(todo).value]
<1>1. /\ up' = up /\ allow' = allow /\ monitor' = monitor /\ call' = call
      /\ wire' = Append(wire, x) /\ reg' = reg
  BY DEF send_command, service
<1>2. x \in Line /\ wire \in Seq(Line)
  <2>1. Head(todo) \in Things /\ Head(todo).do = "send"
    BY FirstThing DEF send_command
  <2>2. Head(todo).what \in Words /\ Head(todo).value \in Numbers
    BY <2>1, ThingKinds
  <2> QED BY <2>2 DEF Line, TypeInv
<1>3. /\ Work'
      /\ x.line \in {"rcall", "icall"} =>
           \E q \in Numbers : \A l \in PeerLines : Said(l, q)
      /\ x.line = "halt" => allow
      /\ todo = <<Monitor>> => x.line = "monitor"
  BY SendShape
<1> HIDE DEF x
<1>4. Flagged'
  <2>1. SUFFICES ASSUME up, ~allow PROVE HeldOn(wire, monitor)'
    BY <1>1 DEF Flagged
  <2>2. HeldOn(wire, monitor) \/ x.line = "monitor"
    BY <2>1, <1>3 DEF CallInv, Flagged
  <2>3. HeldOn(Append(wire, x), monitor)
    BY <1>2, <1>3, <2>1, <2>2, HeldStays
  <2> QED BY <1>1, <2>3
<1>5. Dialled'
  <2>1. SUFFICES ASSUME NEW k \in 1..Len(wire'), wire'[k].line \in {"rcall", "icall"}
                 PROVE  \E q \in Numbers : Told(wire', reg', k - 1, q)
    BY DEF Dialled
  <2>2. /\ Len(wire) \in Nat /\ Len(wire') = Len(wire) + 1
        /\ \A i \in 1..Len(wire) : wire'[i] = wire[i]
        /\ wire'[Len(wire) + 1] = x
    BY <1>1, <1>2, AppendFacts
  <2>3. k - 1 \in 0..Len(wire)
    BY <2>2
  <2>4. \E q \in Numbers : Told(wire, reg, k - 1, q)
    <3>1. CASE k \in 1..Len(wire)
      BY <2>1, <2>2, <3>1 DEF CallInv, Dialled
    <3>2. CASE k = Len(wire) + 1
      <4>1. x.line \in {"rcall", "icall"} /\ k - 1 = Len(wire)
        BY <2>1, <2>2, <3>2
      <4> QED BY <1>3, <4>1 DEF Said, Told
    <3> QED BY <2>2, <3>1, <3>2
  <2>5. PICK q \in Numbers : Told(wire, reg, k - 1, q)
    BY <2>4
  <2>6. Told(wire', reg', k - 1, q)
    BY <1>1, <1>2, <2>3, <2>5, LastKept DEF Told
  <2> QED BY <2>6
<1> QED BY <1>1, <1>3, <1>4, <1>5 DEF CallInv, CallsOnePeer

\* What the thread is at, by the first thing it has to do.
LEMMA WorkHead ==
    ASSUME TypeInv, Work, NEW do, First(do)
    PROVE  /\ do \in {"save", "restore"} => Tame(todo)
           /\ do = "start" => todo = <<StartCoredump>>
           /\ do = "allow" => \/ todo = <<Allow(FALSE), Monitor>>
                              \/ todo = <<Allow(TRUE), Halt>>
                              \/ todo = <<Allow(TRUE), Halt, Hangup>>
           /\ do \in {"save", "restore", "start", "allow"} => todo # <<Monitor>>
<1>1. Head(todo).do = do
  BY DEF First
<1>0. do \in {"save", "restore", "start", "allow"} => todo # <<Monitor>>
  <2>1. ASSUME todo = <<Monitor>> PROVE do = "send"
    <3>1. Head(todo) = Monitor
      BY <2>1, TuplesTaken
    <3>2. Monitor.do = "send"
      BY Kinds DEF Monitor
    <3> QED BY <1>1, <3>1, <3>2
  <2> QED BY <2>1
<1>2. CASE Tame(todo)
  <2>1. do \in {"save", "send", "restore"}
    BY <1>1, <1>2, TameTail DEF IsPlain
  <2> QED BY <1>0, <1>2, <2>1
<1>3. ASSUME NEW p \in Peers, NEW d \in {"rcall", "icall"}, Dialling(p, d),
             todo # <<StartCoredump>>
      PROVE  do = "send"
  <2> DEFINE a == Send("setport", p)
             b == Send("setrpip", p)
             c == Send("setrlip", p)
             e == Send(d, Unset)
  <2>1. a.do = "send" /\ b.do = "send" /\ c.do = "send" /\ e.do = "send"
    BY Kinds
  <2>2. CASE todo = <<a, b, c, e, StartCoredump>>
    BY <1>1, <2>1, <2>2, TuplesTaken
  <2>3. CASE todo = <<b, c, e, StartCoredump>>
    BY <1>1, <2>1, <2>3, TuplesTaken
  <2>4. CASE todo = <<c, e, StartCoredump>>
    BY <1>1, <2>1, <2>4, TuplesTaken
  <2>5. CASE todo = <<e, StartCoredump>>
    BY <1>1, <2>1, <2>5, TuplesTaken
  <2> HIDE DEF a, b, c, e
  <2> QED BY <1>3, <2>2, <2>3, <2>4, <2>5 DEF Dialling, a, b, c, e
<1>4. CASE todo = <<StartCoredump>>
  <2>1. Head(todo) = StartCoredump
    BY <1>4, TuplesTaken
  <2>2. do = "start"
    BY <1>1, <2>1, Kinds
  <2> QED BY <1>0, <1>4, <2>2
<1>5. ASSUME todo = <<Allow(FALSE), Monitor>> PROVE do = "allow"
  <2>1. Head(todo) = Allow(FALSE)
    BY <1>5, TuplesTaken
  <2> QED BY <1>1, <2>1, Kinds
<1>6. ASSUME todo = <<Allow(TRUE), Halt>> PROVE do = "allow"
  <2>1. Head(todo) = Allow(TRUE)
    BY <1>6, TuplesTaken
  <2> QED BY <1>1, <2>1, Kinds
<1>7. ASSUME todo = <<Allow(TRUE), Halt, Hangup>> PROVE do = "allow"
  <2>1. Head(todo) = Allow(TRUE)
    BY <1>7, TuplesTaken
  <2> QED BY <1>1, <2>1, Kinds
<1>8. ASSUME todo = <<Monitor>> \/ todo = <<Halt>> \/ todo = <<Halt, Hangup>>
      PROVE  do = "send"
  <2>1. CASE todo = <<Monitor>>
    BY <1>1, <2>1, TuplesTaken, Kinds DEF Monitor
  <2>2. CASE todo = <<Halt>>
    BY <1>1, <2>2, TuplesTaken, Kinds DEF Halt
  <2>3. CASE todo = <<Halt, Hangup>>
    BY <1>1, <2>3, TuplesTaken, Kinds DEF Halt
  <2> QED BY <1>8, <2>1, <2>2, <2>3
<1>9. CASE do = "send"
  BY <1>9
<1>10. CASE do # "send"
  <2>1. \/ Tame(todo) \/ todo = <<StartCoredump>>
        \/ todo = <<Allow(FALSE), Monitor>> \/ todo = <<Allow(TRUE), Halt>>
        \/ todo = <<Allow(TRUE), Halt, Hangup>>
    BY <1>3, <1>8, <1>10 DEF Work
  <2>2. CASE todo = <<Allow(FALSE), Monitor>>
    BY <1>0, <1>5, <2>2
  <2>3. CASE todo = <<Allow(TRUE), Halt>>
    BY <1>0, <1>6, <2>3
  <2>4. CASE todo = <<Allow(TRUE), Halt, Hangup>>
    BY <1>0, <1>7, <2>4
  <2> QED BY <1>2, <1>4, <2>1, <2>2, <2>3, <2>4
<1> QED BY <1>9, <1>10

\* The lines, the service and its call stand still.
LEMMA PortKeeps ==
    ASSUME CallInv, Work', Flagged', UNCHANGED <<wire, reg, call>>
    PROVE  CallInv'
BY DEF CallInv, Dialled, CallsOnePeer

LEMMA MessageCalls == TypeInv /\ CallInv /\ Messages => CallInv'
<1> SUFFICES ASSUME TypeInv, CallInv, Messages PROVE CallInv'
  OBVIOUS
<1>1. /\ up /\ todo = <<>> /\ up' = up /\ allow' = allow
      /\ UNCHANGED <<wire, reg, call, monitor>>
  BY MessageKinds DEF port, service
<1>2. Work'
  <2>1. ASSUME NEW p \in Peers, NEW d \in {"rcall", "icall"},
               todo' = CallLines(p, d)
        PROVE  Work'
    <3>1. Dialling(p, d)'
      BY <2>1 DEF Dialling, CallLines
    <3> QED BY <3>1 DEF Work
  <2>2. \/ Tame(todo')
        \/ \E p \in Peers, d \in {"rcall", "icall"} : todo' = CallLines(p, d)
        \/ todo' = <<Allow(TRUE), Halt>>
        \/ todo' = <<Allow(TRUE), Halt, Hangup>>
    BY MessageKinds
  <2>3. Tame(todo') => Work'
    BY DEF Work, Tame
  <2>4. todo' = <<Allow(TRUE), Halt>> => Work'
    BY DEF Work
  <2>5. todo' = <<Allow(TRUE), Halt, Hangup>> => Work'
    BY DEF Work
  <2> QED BY <2>1, <2>2, <2>3, <2>4, <2>5
<1>3. Flagged'
  <2>1. todo # <<Monitor>>
    BY <1>1
  <2> QED BY <1>1, <2>1 DEF CallInv, Flagged, HeldOn
<1> QED BY <1>1, <1>2, <1>3, PortKeeps

LEMMA StartCalls == TypeInv /\ CallInv /\ Start => CallInv'
<1> SUFFICES ASSUME TypeInv, CallInv, Start PROVE CallInv'
  OBVIOUS
<1>1. Work'
  BY StartIsTame DEF Work, Tame
<1>2. Flagged'
  BY DEF Flagged, Start, TypeInv, TypeOK
<1> QED BY <1>1, <1>2, PortKeeps DEF Start, port, service

LEMMA SaveCalls == TypeInv /\ CallInv /\ assoc_at => CallInv'
<1> SUFFICES ASSUME TypeInv, CallInv, assoc_at PROVE CallInv'
  OBVIOUS
<1>0. First("save") /\ Work
  BY DEF assoc_at, CallInv
<1>1. Tame(todo) /\ todo # <<Monitor>>
  BY <1>0, WorkHead
<1>2. Tame(Tail(todo))
  BY <1>1, TameTail DEF assoc_at
<1>3. Work'
  BY <1>2 DEF Work, Tame, assoc_at
<1>4. Flagged'
  BY <1>1 DEF Flagged, CallInv, assoc_at, HeldOn, port, service
<1> QED BY <1>3, <1>4, PortKeeps DEF assoc_at, port, service

LEMMA RestoreCalls == TypeInv /\ CallInv /\ init_hw_values => CallInv'
<1> SUFFICES ASSUME TypeInv, CallInv, init_hw_values PROVE CallInv'
  OBVIOUS
<1>0. First("restore") /\ Work
  BY DEF init_hw_values, CallInv
<1>1. todo # <<Monitor>>
  BY <1>0, WorkHead
<1>2. Work'
  BY RestoreIsTame DEF Work, Tame
<1>3. UNCHANGED <<up, allow, port, service>>
  BY DEF init_hw_values
<1>4. Flagged'
  BY <1>1, <1>3 DEF Flagged, CallInv, HeldOn, port, service
<1> QED BY <1>2, <1>3, <1>4, PortKeeps DEF port, service

LEMMA CoredumpCalls == TypeInv /\ CallInv /\ start_coredump => CallInv'
<1> SUFFICES ASSUME TypeInv, CallInv, start_coredump PROVE CallInv'
  OBVIOUS
<1>0. First("start") /\ Work
  BY DEF start_coredump, CallInv
<1>1. todo = <<StartCoredump>> /\ todo # <<Monitor>>
  BY <1>0, WorkHead
<1>2. UNCHANGED <<up, allow, port, service>>
  BY DEF start_coredump
<1>3. Tail(todo) = <<>>
  BY <1>1, TuplesTaken
<1>4. todo' = IF allow THEN <<Allow(FALSE), Monitor>> ELSE <<>>
  <2>1. <<Allow(FALSE), Monitor>> \o <<>> = <<Allow(FALSE), Monitor>>
    BY StopIsThings, ConcatEmptySeq
  <2> QED BY <1>3, <2>1 DEF start_coredump, Monitor
<1>5. Work'
  BY <1>4, EmptyIsTame DEF Work
<1>6. Flagged'
  BY <1>1, <1>2 DEF Flagged, CallInv, HeldOn, port, service
<1> QED BY <1>2, <1>5, <1>6, PortKeeps DEF port, service

LEMMA AllowCalls == TypeInv /\ CallInv /\ reset_allow => CallInv'
<1> SUFFICES ASSUME TypeInv, CallInv, reset_allow PROVE CallInv'
  OBVIOUS
<1>0. First("allow") /\ Work
  BY DEF reset_allow, CallInv
<1>1. \/ todo = <<Allow(FALSE), Monitor>>
      \/ todo = <<Allow(TRUE), Halt>>
      \/ todo = <<Allow(TRUE), Halt, Hangup>>
  BY <1>0, WorkHead
<1>2. /\ UNCHANGED <<up, port, service>>
      /\ todo' = Tail(todo) /\ allow' = Head(todo).what
  BY DEF reset_allow
<1>3. Work' /\ Flagged'
  <2>1. CASE todo = <<Allow(FALSE), Monitor>>
    <3>1. todo' = <<Monitor>>
      BY <1>2, <2>1, TuplesTaken
    <3> QED BY <3>1 DEF Work, Flagged
  <2>2. CASE todo = <<Allow(TRUE), Halt>>
    <3>1. todo' = <<Halt>> /\ Head(todo) = Allow(TRUE)
      BY <1>2, <2>2, TuplesTaken
    <3>2. allow' = TRUE
      BY <1>2, <3>1, Kinds
    <3> QED BY <3>1, <3>2 DEF Work, Flagged
  <2>3. CASE todo = <<Allow(TRUE), Halt, Hangup>>
    <3>1. todo' = <<Halt, Hangup>> /\ Head(todo) = Allow(TRUE)
      BY <1>2, <2>3, TuplesTaken
    <3>2. allow' = TRUE
      BY <1>2, <3>1, Kinds
    <3> QED BY <3>1, <3>2 DEF Work, Flagged
  <2> QED BY <1>1, <2>1, <2>2, <2>3
<1> QED BY <1>2, <1>3, PortKeeps DEF port, service

\* What was said of each peer's line still is, so the work is where it was.
LEMMA WorkStands ==
    ASSUME Work, todo' = todo, allow' = allow,
           \A p \in Peers, l \in PeerLines : Said(l, p) => Said(l, p)'
    PROVE  Work'
<1>1. PeerLines = {"setport", "setrpip", "setrlip"}
  BY DEF PeerLines
<1>2. ASSUME NEW p \in Peers, NEW d \in {"rcall", "icall"}, Dialling(p, d)
      PROVE  Dialling(p, d)'
  <2>1. /\ Said("setport", p) => Said("setport", p)'
        /\ Said("setrpip", p) => Said("setrpip", p)'
        /\ Said("setrlip", p) => Said("setrlip", p)'
    BY <1>1
  <2> QED BY <1>2, <2>1 DEF Dialling
<1> QED BY <1>2 DEF Work, Tame

\* The hangup of the reader's thread.
LEMMA HangupCalls == TypeInv /\ CallInv /\ hangup_all => CallInv'
<1> SUFFICES ASSUME TypeInv, CallInv, hangup_all PROVE CallInv'
  OBVIOUS
<1> DEFINE x == [line |-> "hangup", value |-> Unset]
<1>1. /\ UNCHANGED <<up, todo, allow, reg, call, monitor>>
      /\ wire' = Append(wire, x)
  BY DEF hangup_all, process, service
<1>2. x \in Line /\ wire \in Seq(Line)
  BY SomeNumbers, SomeWords DEF Line, TypeInv
<1>3. x.line = "hangup"
  OBVIOUS
<1> HIDE DEF x
<1>4. Work'
  <2>1. \A l \in PeerLines : x.line # l
    BY <1>3 DEF PeerLines
  <2>2. \A p \in Peers, l \in PeerLines : Said(l, p) => Said(l, p)'
    BY <1>1, <1>2, <2>1, LastStays DEF Said
  <2> QED BY <1>1, <2>2, WorkStands DEF CallInv
<1>5. Flagged'
  <2>1. HeldOn(wire, monitor) => HeldOn(Append(wire, x), monitor)
    BY <1>2, <1>3, HeldStays
  <2> QED BY <1>1, <2>1 DEF CallInv, Flagged
<1>6. Dialled'
  <2>1. SUFFICES ASSUME NEW k \in 1..Len(wire'), wire'[k].line \in {"rcall", "icall"}
                 PROVE  \E q \in Numbers : Told(wire', reg', k - 1, q)
    BY DEF Dialled
  <2>2. /\ Len(wire) \in Nat /\ Len(wire') = Len(wire) + 1
        /\ \A i \in 1..Len(wire) : wire'[i] = wire[i]
        /\ wire'[Len(wire) + 1] = x
    BY <1>1, <1>2, AppendFacts
  <2>3. k \in 1..Len(wire)
    BY <1>3, <2>1, <2>2
  <2>4. k - 1 \in 0..Len(wire)
    BY <2>2, <2>3
  <2>5. PICK q \in Numbers : Told(wire, reg, k - 1, q)
    BY <2>1, <2>2, <2>3 DEF CallInv, Dialled
  <2>6. Told(wire', reg', k - 1, q)
    BY <1>1, <1>2, <2>4, <2>5, LastKept DEF Told
  <2> QED BY <2>6
<1> QED BY <1>1, <1>4, <1>5, <1>6 DEF CallInv, CallsOnePeer

\* The service takes a line.
LEMMA ObeyCalls == TypeInv /\ CallInv /\ Obey => CallInv'
<1> SUFFICES ASSUME TypeInv, CallInv, Obey PROVE CallInv'
  OBVIOUS
<1> DEFINE h == Head(wire)
<1>1. UNCHANGED <<up, todo, allow>> /\ wire' = Tail(wire) /\ wire # <<>>
  BY DEF Obey, process
<1>2. /\ wire \in Seq(Line) /\ Len(wire') = Len(wire) - 1
      /\ Len(wire) \in Nat /\ Len(wire) > 0 /\ h = wire[1]
      /\ \A i \in 1..Len(wire') : wire'[i] = wire[i + 1]
  BY <1>1, FirstLine DEF TypeInv
<1>3. \A l \in PeerLines : reg'[l] = IF h.line = l THEN h.value ELSE reg[l]
  <2>1. reg \in [ValueLines -> Numbers]
    BY DEF TypeInv, TypeOK
  <2>2. reg' = IF h.line \in ValueLines THEN [reg EXCEPT ![h.line] = h.value] ELSE reg
    BY DEF Obey
  <2> QED BY <2>1, <2>2, SomeWords
<1>4. monitor' <=> (h.line = "monitor" \/ (monitor /\ h.line # "halt"))
  BY DEF Obey
<1>5. call' = CASE h.line \in {"rcall", "icall"} -> [p \in PeerLines |-> reg[p]]
                [] h.line = "hangup" -> NoPeer
                [] OTHER -> call
  BY DEF Obey
<1> HIDE DEF h
<1>6. \A n \in 1..Len(wire), l \in PeerLines : \A q :
         LastIs(wire, reg, n, l, q) => LastIs(wire', reg', n - 1, l, q)
  BY <1>1, <1>2, <1>3, LastTaken DEF h
<1>7. Work'
  <2>1. Len(wire) \in 1..Len(wire) /\ Len(wire) - 1 = Len(wire')
    BY <1>2
  <2>2. \A p \in Peers, l \in PeerLines : Said(l, p) => Said(l, p)'
    BY <1>6, <2>1 DEF Said
  <2> QED BY <1>1, <2>2, WorkStands DEF CallInv
<1>8. Flagged'
  <2>1. HeldOn(wire, monitor) => HeldOn(wire', monitor')
    BY <1>1, <1>2, <1>4, HeldTaken DEF h
  <2> QED BY <1>1, <2>1 DEF CallInv, Flagged
<1>9. Dialled'
  <2>1. SUFFICES ASSUME NEW k \in 1..Len(wire'), wire'[k].line \in {"rcall", "icall"}
                 PROVE  \E q \in Numbers : Told(wire', reg', k - 1, q)
    BY DEF Dialled
  <2>2. k + 1 \in 1..Len(wire) /\ k \in 1..Len(wire) /\ (k + 1) - 1 = k
    BY <1>2
  <2>3. wire[k + 1].line \in {"rcall", "icall"}
    BY <1>2, <2>1
  <2>4. PICK q \in Numbers : Told(wire, reg, k, q)
    BY <2>2, <2>3 DEF CallInv, Dialled
  <2>5. Told(wire', reg', k - 1, q)
    <3>1. (k + 1) - 1 - 1 = k - 1
      BY <2>2
    <3> QED BY <1>6, <2>2, <2>4, <3>1 DEF Told
  <2> QED BY <2>5
<1>10. CallsOnePeer'
  <2>1. CASE h.line \in {"rcall", "icall"}
    <3>1. 1 \in 1..Len(wire) /\ 1 - 1 = 0
      BY <1>2
    <3>2. PICK q \in Numbers : Told(wire, reg, 0, q)
      BY <1>2, <2>1, <3>1 DEF CallInv, Dialled
    <3>3. \A l \in PeerLines : reg[l] \in {q, Unset}
      BY <3>2 DEF Told, LastIs
    <3>4. call' = [p \in PeerLines |-> reg[p]]
      BY <1>5, <2>1
    <3> QED BY <3>3, <3>4 DEF CallsOnePeer
  <2>2. CASE h.line = "hangup"
    <3>1. call' = NoPeer
      BY <1>5, <2>2
    <3> QED BY <3>1 DEF CallsOnePeer, NoPeer
  <2>3. CASE h.line \notin {"rcall", "icall", "hangup"}
    <3>1. call' = call
      BY <1>5, <2>3
    <3> QED BY <3>1 DEF CallInv, CallsOnePeer
  <2> QED BY <2>1, <2>2, <2>3
<1> QED BY <1>7, <1>8, <1>9, <1>10 DEF CallInv

\* A report, and what the service sends of itself.
LEMMA ReportCalls ==
    ASSUME CallInv, UNCHANGED <<up, todo, allow, wire, reg, call, monitor>>
    PROVE  CallInv'
<1>1. Work'
  BY WorkStands DEF CallInv, Said
<1>2. Flagged'
  BY DEF CallInv, Flagged
<1> QED BY <1>1, <1>2, PortKeeps

\* What ends TPX, and what ends the service.
LEMMA EndCalls ==
    ASSUME TypeInv, CallInv, Crash \/ \E v \in [{"bp", "fpga"} -> Versions] : RestartService(v)
    PROVE  CallInv'
<1>1. EndTpx
  BY DEF Crash, RestartService
<1>2. Work' /\ Flagged'
  <2>1. todo' = <<>> /\ up' = FALSE
    BY <1>1 DEF EndTpx
  <2>2. Work'
    BY <2>1, EmptyIsTame DEF Work
  <2> QED BY <2>1, <2>2 DEF Flagged
<1>3. CASE Crash
  BY <1>2, <1>3, PortKeeps DEF Crash, service
<1>4. ASSUME NEW v \in [{"bp", "fpga"} -> Versions], RestartService(v)
      PROVE  CallInv'
  <2>1. Dialled'
    <3>1. CASE wire' = <<>>
      BY <3>1 DEF Dialled
    <3>2. CASE wire' = wire
      <4>1. \A l \in PeerLines : reg'[l] = Unset
        BY <1>4, SomeWords DEF RestartService
      <4>2. ASSUME NEW n, NEW q, Told(wire, reg, n, q)
            PROVE  Told(wire', reg', n, q)
        BY <3>2, <4>1, <4>2 DEF Told, LastIs
      <4> QED BY <3>2, <4>2 DEF Dialled, CallInv
    <3> QED BY <1>4, <3>1, <3>2 DEF RestartService
  <2>2. CallsOnePeer'
    BY <1>4 DEF CallsOnePeer, RestartService, NoPeer
  <2> QED BY <1>2, <2>1, <2>2 DEF CallInv
<1> QED BY <1>3, <1>4

LEMMA InitCalls == Init => CallInv
<1> SUFFICES ASSUME Init PROVE CallInv
  OBVIOUS
<1>1. todo = <<>> /\ up = FALSE /\ wire = <<>> /\ call = NoPeer
  BY DEF Init
<1>2. Work
  BY <1>1, EmptyIsTame DEF Work
<1>3. Flagged /\ Dialled
  BY <1>1 DEF Flagged, Dialled
<1>4. CallsOnePeer
  BY <1>1 DEF CallsOnePeer, NoPeer
<1> QED BY <1>2, <1>3, <1>4 DEF CallInv

LEMMA NextCalls == TypeInv /\ CallInv /\ [Next]_vars => CallInv'
<1> SUFFICES ASSUME TypeInv, CallInv, [Next]_vars PROVE CallInv'
  OBVIOUS
<1>1. CASE UNCHANGED vars
  BY <1>1, ReportCalls DEF vars, process, port, service
<1>2. ASSUME NEW v \in {"bp", "fpga"}, Version(v) PROVE CallInv'
  BY <1>2, ReportCalls DEF Version, service
<1>3. CASE SyncFails
  BY <1>3, ReportCalls DEF SyncFails, process, service
<1>4. CASE Crash \/ \E v \in [{"bp", "fpga"} -> Versions] : RestartService(v)
  BY <1>4, EndCalls
<1> QED BY <1>1, <1>2, <1>3, <1>4, StartCalls, MessageCalls, SendCalls,
           SaveCalls, AllowCalls, CoredumpCalls, RestoreCalls, HangupCalls,
           ObeyCalls DEF Next

\* No call mixes the port and the addresses of two peers, in any interleaving
\* with the reader's hangups and wherever TPX or the service is cut
\* (command.clj:73), for any number of lines on the port, lost or left there.
THEOREM OnePeer == Spec => []CallsOnePeer
<1>1. CallInv => CallsOnePeer
  BY DEF CallInv
<1> QED BY <1>1, InitTypes, NextTypes, InitCalls, NextCalls, PTL DEF Spec

\* When all is said, the monitor is held back only if it runs already
\* (command.clj:63).
THEOREM HeldBack == Spec => []HeldBackIfOn
<1>1. CallInv => HeldBackIfOn
  <2> SUFFICES ASSUME CallInv, Quiet, ~allow PROVE monitor
    BY DEF HeldBackIfOn
  <2>1. up /\ todo = <<>> /\ wire = <<>>
    BY DEF Quiet
  <2>2. todo # <<Monitor>>
    BY <2>1
  <2>3. HeldOn(wire, monitor)
    BY <2>1, <2>2 DEF CallInv, Flagged
  <2> QED BY <2>1, <2>3 DEF HeldOn
<1> QED BY <1>1, InitTypes, NextTypes, InitCalls, NextCalls, PTL DEF Spec

----------------------------------------------------------------------------
(* The versions.                                                           *)

Query(v) == IF v = "bp" THEN "bver" ELSE "cver"
Parts    == {"bp", "fpga"}

\* The last answer that TPX has, or that waits for it, is the service's of now.
LastAnswer(v) ==
    \/ reported[v] = versions[v] /\ \A j \in 1..Len(back) : back[j].report # v
    \/ \E i \in 1..Len(back) :
          /\ back[i].report = v /\ back[i].value = versions[v]
          /\ \A j \in (i + 1)..Len(back) : back[j].report # v

\* It is, or it is asked for, or yet to be asked for.
Answered(v) ==
    \/ LastAnswer(v)
    \/ \E i \in 1..Len(wire) : wire[i].line = Query(v)
    \/ \E i \in 1..Len(todo) : todo[i].do = "send" /\ todo[i].what = Query(v)

VersionInv ==
    /\ Complete(reported) => file = reported
    /\ up => \A v \in Parts : Answered(v)

LEMMA UnsetIsNone ==
    ASSUME TypeInv
    PROVE  \A v \in Parts : versions[v] # Unset
<1>1. versions \in [Parts -> Versions] /\ Versions \subseteq Nat
  BY CallsAssumption DEF CallsAssumption, TypeInv, TypeOK, Parts
<1>2. Unset \notin Nat
  BY DEF Unset
<1> QED BY <1>1, <1>2

\* What the thread had to ask it still has, unless that was its first thing.
LEMMA AskedLater ==
    ASSUME TypeInv, NEW do, First(do), NEW w,
           \E i \in 1..Len(todo) : todo[i].do = "send" /\ todo[i].what = w
    PROVE  \/ do = "send" /\ Head(todo).what = w
           \/ \E i \in 1..Len(Tail(todo)) :
                 Tail(todo)[i].do = "send" /\ Tail(todo)[i].what = w
<1>1. /\ Head(todo).do = do
      /\ Len(Tail(todo)) = Len(todo) - 1
      /\ Len(todo) \in Nat /\ Head(todo) = todo[1]
      /\ \A i \in 1..Len(Tail(todo)) : Tail(todo)[i] = todo[i + 1]
  BY FirstThing
<1>2. PICK i \in 1..Len(todo) : todo[i].do = "send" /\ todo[i].what = w
  OBVIOUS
<1>3. CASE i = 1
  BY <1>1, <1>2, <1>3
<1>4. CASE i # 1
  <2>1. i - 1 \in 1..Len(Tail(todo)) /\ (i - 1) + 1 = i
    BY <1>1, <1>4
  <2>2. Tail(todo)[i - 1].do = "send" /\ Tail(todo)[i - 1].what = w
    BY <1>1, <1>2, <2>1
  <2> QED BY <2>1, <2>2
<1> QED BY <1>3, <1>4

\* Steps of the thread that leave the port and its answers alone.
LEMMA ThreadVersions ==
    ASSUME TypeInv, VersionInv, up, UNCHANGED <<reported, file, versions, port>>,
           \A v \in Parts :
              (\E i \in 1..Len(todo) : todo[i].do = "send" /\ todo[i].what = Query(v))
              => (\E i \in 1..Len(todo') : todo'[i].do = "send" /\ todo'[i].what = Query(v))
    PROVE  VersionInv'
<1>1. \A v \in Parts : Answered(v) => Answered(v)'
  BY DEF Answered, LastAnswer, port
<1> QED BY <1>1 DEF VersionInv, port

LEMMA MessageVersions == TypeInv /\ VersionInv /\ Messages => VersionInv'
<1> SUFFICES ASSUME TypeInv, VersionInv, Messages PROVE VersionInv'
  OBVIOUS
<1>1. up /\ todo = <<>> /\ UNCHANGED <<reported, file, versions, port>>
  BY MessageKinds DEF disk, service
<1>2. \A v \in Parts : ~ \E i \in 1..Len(todo) :
         todo[i].do = "send" /\ todo[i].what = Query(v)
  BY <1>1
<1> QED BY <1>1, <1>2, ThreadVersions

LEMMA QuietVersions ==
    ASSUME TypeInv, CallInv, VersionInv,
           assoc_at \/ reset_allow \/ start_coredump \/ init_hw_values
    PROVE  VersionInv'
<1>1. up /\ UNCHANGED <<reported, file, versions, port>>
  BY DEF assoc_at, reset_allow, start_coredump, init_hw_values, First, disk, service
<1>2. CASE assoc_at \/ reset_allow
  <2>1. PICK do \in {"save", "allow"} : First(do)
    BY <1>2 DEF assoc_at, reset_allow
  <2>2. todo' = Tail(todo) /\ do # "send"
    BY <1>2, <2>1 DEF assoc_at, reset_allow
  <2>3. \A v \in Parts :
          (\E i \in 1..Len(todo) : todo[i].do = "send" /\ todo[i].what = Query(v))
          => (\E i \in 1..Len(todo') : todo'[i].do = "send" /\ todo'[i].what = Query(v))
    BY <2>1, <2>2, AskedLater
  <2> QED BY <1>1, <2>3, ThreadVersions
<1>3. CASE start_coredump
  <2>1. First("start") /\ Work
    BY <1>3 DEF start_coredump, CallInv
  <2>2. todo = <<StartCoredump>>
    BY <2>1, WorkHead
  <2>3. Len(<<StartCoredump>>) = 1 /\ <<StartCoredump>>[1] = StartCoredump
    OBVIOUS
  <2>4. \A i \in 1..Len(todo) : todo[i].do = "start"
    BY <2>2, <2>3, Kinds
  <2>5. \A v \in Parts : ~ \E i \in 1..Len(todo) :
           todo[i].do = "send" /\ todo[i].what = Query(v)
    BY <2>4
  <2> QED BY <1>1, <2>5, ThreadVersions
<1>4. CASE init_hw_values
  <2>1. First("restore") /\ Work
    BY <1>4 DEF init_hw_values, CallInv
  <2>2. Tame(todo)
    BY <2>1, WorkHead
  <2>3. /\ Head(todo).do = "restore" /\ Head(todo) = todo[1]
        /\ Len(todo) \in Nat /\ Len(todo) > 0
    BY <2>1, FirstThing
  <2>4. 1 = Len(todo)
    <3>1. 1 \in 1..Len(todo) /\ ~IsPlain(todo[1])
      BY <2>3 DEF IsPlain
    <3> QED BY <2>2, <3>1 DEF Tame
  <2>5. \A i \in 1..Len(todo) : todo[i].do = "restore"
    <3>1. todo[1].do = "restore"
      BY <2>3
    <3>2. \A i \in 1..1 : i = 1
      OBVIOUS
    <3> QED BY <2>4, <3>1, <3>2
  <2>6. \A v \in Parts : ~ \E i \in 1..Len(todo) :
           todo[i].do = "send" /\ todo[i].what = Query(v)
    BY <2>5
  <2> QED BY <1>1, <2>6, ThreadVersions
<1> QED BY <1>2, <1>3, <1>4

LEMMA StartVersions == TypeInv /\ VersionInv /\ Start => VersionInv'
<1> SUFFICES ASSUME TypeInv, VersionInv, Start PROVE VersionInv'
  OBVIOUS
<1> DEFINE a == Send("setlip", Own)
           b == Send("setpip", Own)
           c == Send("bver", Unset)
           d == Send("cver", Unset)
           e == Restore(1)
<1>1. todo' = <<a, b, c, d, e>> /\ UNCHANGED <<reported, file, versions, back>>
  BY DEF Start, disk, port, service
<1>2. /\ c.do = "send" /\ c.what = "bver" /\ d.do = "send" /\ d.what = "cver"
  BY Kinds
<1> HIDE DEF a, b, c, d, e
<1>3. /\ Len(<<a, b, c, d, e>>) = 5
      /\ <<a, b, c, d, e>>[3] = c /\ <<a, b, c, d, e>>[4] = d
  OBVIOUS
<1>4. ASSUME NEW v \in Parts PROVE Answered(v)'
  <2>1. Query(v) = "bver" \/ Query(v) = "cver"
    BY DEF Query
  <2>2. \E i \in 1..Len(todo') : todo'[i].do = "send" /\ todo'[i].what = Query(v)
    <3>1. 3 \in 1..5 /\ 4 \in 1..5
      OBVIOUS
    <3> QED BY <1>1, <1>2, <1>3, <2>1, <3>1
  <2> QED BY <2>2 DEF Answered
<1> QED BY <1>1, <1>4 DEF VersionInv

\* TPX takes a report that is not of this part, and one that is.
LEMMA AnswerWaits ==
    ASSUME NEW v, LastAnswer(v), back # <<>>, back \in Seq(Report),
           Head(back).report # v, back' = Tail(back),
           reported'[v] = reported[v], versions' = versions
    PROVE  LastAnswer(v)'
<1>1. /\ Len(back') = Len(back) - 1 /\ Len(back) \in Nat /\ Head(back) = back[1]
      /\ \A i \in 1..Len(back') : back'[i] = back[i + 1]
  BY FirstReport
<1>2. \A j \in 1..Len(back') : j + 1 \in 1..Len(back)
  BY <1>1
<1>3. CASE reported[v] = versions[v] /\ \A j \in 1..Len(back) : back[j].report # v
  BY <1>1, <1>2, <1>3 DEF LastAnswer
<1>4. ASSUME NEW i \in 1..Len(back), back[i].report = v, back[i].value = versions[v],
             \A j \in (i + 1)..Len(back) : back[j].report # v
      PROVE  LastAnswer(v)'
  <2>1. i # 1
    BY <1>1, <1>4
  <2>2. i - 1 \in 1..Len(back') /\ (i - 1) + 1 = i
    BY <1>1, <2>1
  <2>3. back'[i - 1].report = v /\ back'[i - 1].value = versions'[v]
    BY <1>1, <1>4, <2>2
  <2>4. \A j \in ((i - 1) + 1)..Len(back') :
           j \in 1..Len(back') /\ j + 1 \in (i + 1)..Len(back)
    BY <1>1, <2>2
  <2>5. \A j \in ((i - 1) + 1)..Len(back') : back'[j].report # v
    BY <1>1, <1>4, <2>4
  <2> QED BY <2>2, <2>3, <2>5 DEF LastAnswer
<1> QED BY <1>3, <1>4 DEF LastAnswer

LEMMA AnswerTaken ==
    ASSUME NEW v, LastAnswer(v), back # <<>>, back \in Seq(Report),
           Head(back).report = v, back' = Tail(back),
           reported'[v] = Head(back).value, versions' = versions
    PROVE  LastAnswer(v)'
<1>1. /\ Len(back') = Len(back) - 1 /\ Len(back) \in Nat /\ Len(back) > 0
      /\ Head(back) = back[1]
      /\ \A i \in 1..Len(back') : back'[i] = back[i + 1]
  BY FirstReport
<1>2. PICK i \in 1..Len(back) :
         /\ back[i].report = v /\ back[i].value = versions[v]
         /\ \A j \in (i + 1)..Len(back) : back[j].report # v
  <2>1. 1 \in 1..Len(back)
    BY <1>1
  <2> QED BY <1>1, <2>1 DEF LastAnswer
<1>3. CASE i = 1
  <2>1. \A j \in 1..Len(back') : j + 1 \in (i + 1)..Len(back)
    BY <1>1, <1>3
  <2>2. \A j \in 1..Len(back') : back'[j].report # v
    BY <1>1, <1>2, <2>1
  <2> QED BY <1>1, <1>2, <1>3, <2>2 DEF LastAnswer
<1>4. CASE i # 1
  <2>2. i - 1 \in 1..Len(back') /\ (i - 1) + 1 = i
    BY <1>1, <1>4
  <2>3. back'[i - 1].report = v /\ back'[i - 1].value = versions'[v]
    BY <1>1, <1>2, <2>2
  <2>4. \A j \in ((i - 1) + 1)..Len(back') :
           j \in 1..Len(back') /\ j + 1 \in (i + 1)..Len(back)
    BY <1>1, <2>2
  <2>5. \A j \in ((i - 1) + 1)..Len(back') : back'[j].report # v
    BY <1>1, <1>2, <2>4
  <2> QED BY <2>2, <2>3, <2>5 DEF LastAnswer
<1> QED BY <1>3, <1>4

\* The service sends a report that is not of this part, and one that is.
LEMMA AnswerStays ==
    ASSUME NEW v, LastAnswer(v), NEW x \in Report, x.report # v,
           back \in Seq(Report), back' = Append(back, x),
           reported' = reported, versions' = versions
    PROVE  LastAnswer(v)'
<1>1. /\ Len(back) \in Nat /\ Len(back') = Len(back) + 1
      /\ \A i \in 1..Len(back) : back'[i] = back[i]
      /\ back'[Len(back) + 1] = x
  <2>1. Len(back) \in Nat
    BY LenProperties
  <2> QED BY <2>1, AppendProperties
<1>2. \A j \in 1..Len(back') : j \in 1..Len(back) \/ j = Len(back) + 1
  BY <1>1
<1>3. CASE reported[v] = versions[v] /\ \A j \in 1..Len(back) : back[j].report # v
  BY <1>1, <1>2, <1>3 DEF LastAnswer
<1>4. ASSUME NEW i \in 1..Len(back), back[i].report = v, back[i].value = versions[v],
             \A j \in (i + 1)..Len(back) : back[j].report # v
      PROVE  LastAnswer(v)'
  <2>1. i \in 1..Len(back') /\ back'[i] = back[i]
    BY <1>1
  <2>2. \A j \in (i + 1)..Len(back') :
           (j \in 1..Len(back) /\ j \in (i + 1)..Len(back)) \/ j = Len(back) + 1
    BY <1>1
  <2>3. \A j \in (i + 1)..Len(back') : back'[j].report # v
    BY <1>1, <1>4, <2>2
  <2> QED BY <1>4, <2>1, <2>3 DEF LastAnswer
<1> QED BY <1>3, <1>4 DEF LastAnswer

LEMMA AnswerComes ==
    ASSUME NEW v, NEW x \in Report, x.report = v, x.value = versions[v],
           back \in Seq(Report), back' = Append(back, x), versions' = versions
    PROVE  LastAnswer(v)'
<1>1. Len(back) \in Nat /\ Len(back') = Len(back) + 1 /\ back'[Len(back) + 1] = x
  <2>1. Len(back) \in Nat
    BY LenProperties
  <2> QED BY <2>1, AppendProperties
<1>2. /\ Len(back) + 1 \in 1..Len(back')
      /\ \A j \in ((Len(back) + 1) + 1)..Len(back') : FALSE
  BY <1>1
<1> QED BY <1>1, <1>2 DEF LastAnswer

\* A line more on the wire, whoever wrote it.
LEMMA SendVersions == TypeInv /\ VersionInv /\ send_command => VersionInv'
<1> SUFFICES ASSUME TypeInv, VersionInv, send_command PROVE VersionInv'
  OBVIOUS
<1> DEFINE x == [line |-> Head(todo).what, value |-> Head(todo).value]
<1>1. /\ UNCHANGED <<up, reported, file, versions, back>>
      /\ wire' = Append(wire, x) /\ todo' = Tail(todo) /\ First("send")
  BY DEF send_command, disk, service
<1>2. x \in Line /\ wire \in Seq(Line)
  <2>1. Head(todo) \in Things /\ Head(todo).do = "send"
    BY FirstThing DEF send_command
  <2>2. Head(todo).what \in Words /\ Head(todo).value \in Numbers
    BY <2>1, ThingKinds
  <2> QED BY <2>2 DEF Line, TypeInv
<1>3. x.line = Head(todo).what
  OBVIOUS
<1> HIDE DEF x
<1>4. /\ Len(wire) \in Nat /\ Len(wire') = Len(wire) + 1
      /\ \A i \in 1..Len(wire) : wire'[i] = wire[i]
      /\ wire'[Len(wire) + 1] = x
  BY <1>1, <1>2, AppendFacts
<1>5. ASSUME NEW v \in Parts, Answered(v) PROVE Answered(v)'
  <2>1. CASE LastAnswer(v)
    BY <1>1, <2>1 DEF Answered, LastAnswer
  <2>2. ASSUME NEW i \in 1..Len(wire), wire[i].line = Query(v) PROVE Answered(v)'
    <3>1. i \in 1..Len(wire') /\ wire'[i].line = Query(v)
      BY <1>4, <2>2
    <3> QED BY <3>1 DEF Answered
  <2>3. CASE \E i \in 1..Len(todo) : todo[i].do = "send" /\ todo[i].what = Query(v)
    <3>1. \/ Head(todo).what = Query(v)
          \/ \E i \in 1..Len(Tail(todo)) :
                Tail(todo)[i].do = "send" /\ Tail(todo)[i].what = Query(v)
      BY <1>1, <2>3, AskedLater
    <3>2. CASE Head(todo).what = Query(v)
      <4>1. Len(wire) + 1 \in 1..Len(wire') /\ wire'[Len(wire) + 1].line = Query(v)
        BY <1>3, <1>4, <3>2
      <4> QED BY <4>1 DEF Answered
    <3>3. CASE \E i \in 1..Len(Tail(todo)) :
                  Tail(todo)[i].do = "send" /\ Tail(todo)[i].what = Query(v)
      BY <1>1, <3>3 DEF Answered
    <3> QED BY <3>1, <3>2, <3>3
  <2> QED BY <1>5, <2>1, <2>2, <2>3 DEF Answered
<1> QED BY <1>1, <1>5 DEF VersionInv

LEMMA HangupVersions == TypeInv /\ VersionInv /\ hangup_all => VersionInv'
<1> SUFFICES ASSUME TypeInv, VersionInv, hangup_all PROVE VersionInv'
  OBVIOUS
<1> DEFINE x == [line |-> "hangup", value |-> Unset]
<1>1. /\ UNCHANGED <<up, todo, reported, file, versions>>
      /\ wire' = Append(wire, x)
      /\ back # <<>> /\ Head(back).report = "sync/end" /\ back' = Tail(back)
  BY DEF hangup_all, Reads, process, disk, service
<1>2. x \in Line /\ wire \in Seq(Line)
  BY SomeNumbers, SomeWords DEF Line, TypeInv
<1> HIDE DEF x
<1>3. /\ Len(wire) \in Nat /\ Len(wire') = Len(wire) + 1
      /\ \A i \in 1..Len(wire) : wire'[i] = wire[i]
  BY <1>1, <1>2, AppendFacts
<1>4. ASSUME NEW v \in Parts, Answered(v) PROVE Answered(v)'
  <2>1. CASE \E i \in 1..Len(todo) : todo[i].do = "send" /\ todo[i].what = Query(v)
    BY <1>1, <2>1 DEF Answered
  <2>2. CASE LastAnswer(v)
    <3>1. Head(back).report # v
      BY <1>1 DEF Parts
    <3>2. LastAnswer(v)'
      BY <1>1, <2>2, <3>1, AnswerWaits DEF TypeInv
    <3> QED BY <3>2 DEF Answered
  <2>3. ASSUME NEW i \in 1..Len(wire), wire[i].line = Query(v) PROVE Answered(v)'
    <3>1. i \in 1..Len(wire') /\ wire'[i].line = Query(v)
      BY <1>3, <2>3
    <3> QED BY <3>1 DEF Answered
  <2> QED BY <1>4, <2>1, <2>2, <2>3 DEF Answered
<1> QED BY <1>1, <1>4 DEF VersionInv

\* The handler of an answer.
LEMMA HandleVersions ==
    ASSUME TypeInv, VersionInv, NEW v \in Parts, Version(v) PROVE VersionInv'
<1>1. /\ back # <<>> /\ Head(back).report = v /\ back' = Tail(back)
      /\ reported' = [reported EXCEPT ![v] = Head(back).value]
      /\ file' = IF Complete(reported') /\ Differs(reported') THEN reported' ELSE file
      /\ UNCHANGED <<up, todo, wire, versions>>
  BY DEF Version, Reads, service
<1>2. reported \in [Parts -> Versions \cup {Unset}]
  BY DEF TypeInv, TypeOK, Parts
<1>3. /\ reported'[v] = Head(back).value
      /\ \A w \in Parts : w # v => reported'[w] = reported[w]
  BY <1>1, <1>2
<1>4. Complete(reported') => file' = reported'
  <2>1. NoReport.bp = Unset
    BY DEF NoReport
  <2>2. Complete(reported') => Differs(reported')
    BY <2>1 DEF Complete, Differs
  <2> QED BY <1>1, <2>2
<1>5. ASSUME NEW w \in Parts, Answered(w) PROVE Answered(w)'
  <2>1. CASE LastAnswer(w)
    <3>1. CASE w = v
      <4>1. LastAnswer(v)'
        BY <1>1, <1>3, <2>1, <3>1, AnswerTaken DEF TypeInv
      <4> QED BY <3>1, <4>1 DEF Answered
    <3>2. CASE w # v
      <4>1. LastAnswer(w)'
        BY <1>1, <1>3, <2>1, <3>2, AnswerWaits DEF TypeInv
      <4> QED BY <4>1 DEF Answered
    <3> QED BY <3>1, <3>2
  <2>2. CASE \/ \E i \in 1..Len(wire) : wire[i].line = Query(w)
             \/ \E i \in 1..Len(todo) : todo[i].do = "send" /\ todo[i].what = Query(w)
    BY <1>1, <2>2 DEF Answered
  <2> QED BY <1>5, <2>1, <2>2 DEF Answered
<1> QED BY <1>1, <1>4, <1>5 DEF VersionInv

\* The service answers with its versions, and forgets no question.
LEMMA ObeyVersions == TypeInv /\ VersionInv /\ Obey => VersionInv'
<1> SUFFICES ASSUME TypeInv, VersionInv, Obey PROVE VersionInv'
  OBVIOUS
<1> DEFINE h == Head(wire).line
           ans(v) == [report |-> v, value |-> versions[v]]
<1>1. /\ UNCHANGED <<up, todo, reported, file, versions>>
      /\ wire' = Tail(wire) /\ wire # <<>>
      /\ back' = CASE h = "bver" -> Append(back, ans("bp"))
                   [] h = "cver" -> Append(back, ans("fpga"))
                   [] OTHER -> back
  BY DEF Obey, process, disk
<1>2. /\ Len(wire') = Len(wire) - 1 /\ Len(wire) \in Nat /\ Head(wire) = wire[1]
      /\ \A i \in 1..Len(wire') : wire'[i] = wire[i + 1]
  BY <1>1, FirstLine
<1>3. /\ \A v \in Parts : ans(v) \in Report /\ ans(v).report = v
                          /\ ans(v).value = versions[v]
      /\ back \in Seq(Report)
  <2>1. \A v \in Parts : versions[v] \in Versions
    BY DEF TypeInv, TypeOK, Parts
  <2> QED BY <2>1 DEF Report, TypeInv, Parts
<1>4. \/ back' = back /\ h \notin {"bver", "cver"}
      \/ \E v \in Parts : h = Query(v) /\ back' = Append(back, ans(v))
  BY <1>1 DEF Query, Parts
<1> HIDE DEF h, ans
<1>5. ASSUME NEW w \in Parts, Answered(w) PROVE Answered(w)'
  <2>1. CASE \E i \in 1..Len(todo) : todo[i].do = "send" /\ todo[i].what = Query(w)
    BY <1>1, <2>1 DEF Answered
  <2>2. CASE LastAnswer(w)
    <3>1. CASE back' = back
      BY <1>1, <2>2, <3>1 DEF Answered, LastAnswer
    <3>2. ASSUME NEW v \in Parts, back' = Append(back, ans(v)) PROVE LastAnswer(w)'
      <4>1. CASE v = w
        BY <1>1, <1>3, <3>2, <4>1, AnswerComes
      <4>2. CASE v # w
        BY <1>1, <1>3, <2>2, <3>2, <4>2, AnswerStays
      <4> QED BY <4>1, <4>2
    <3> QED BY <1>4, <3>1, <3>2 DEF Answered
  <2>3. ASSUME NEW i \in 1..Len(wire), wire[i].line = Query(w) PROVE Answered(w)'
    <3>1. CASE i = 1
      <4>1. h = Query(w)
        BY <1>2, <2>3, <3>1 DEF h
      <4>2. PICK v \in Parts : h = Query(v) /\ back' = Append(back, ans(v))
        BY <1>4, <4>1 DEF Query, Parts
      <4>3. v = w
        BY <4>1, <4>2 DEF Query, Parts
      <4>4. LastAnswer(w)'
        BY <1>1, <1>3, <4>2, <4>3, AnswerComes
      <4> QED BY <4>4 DEF Answered
    <3>2. CASE i # 1
      <4>1. i - 1 \in 1..Len(wire') /\ (i - 1) + 1 = i
        BY <1>2, <3>2
      <4>2. wire'[i - 1].line = Query(w)
        BY <1>2, <2>3, <4>1
      <4> QED BY <4>1, <4>2 DEF Answered
    <3> QED BY <3>1, <3>2
  <2> QED BY <1>5, <2>1, <2>2, <2>3 DEF Answered
<1> QED BY <1>1, <1>5 DEF VersionInv

LEMMA FailVersions == TypeInv /\ VersionInv /\ SyncFails => VersionInv'
<1> SUFFICES ASSUME TypeInv, VersionInv, SyncFails PROVE VersionInv'
  OBVIOUS
<1> DEFINE x == [report |-> "sync/end", value |-> Unset]
<1>1. /\ UNCHANGED <<up, todo, reported, file, wire, versions>>
      /\ back' = Append(back, x)
  BY DEF SyncFails, process, disk, service
<1>2. x \in Report /\ back \in Seq(Report) /\ x.report \notin Parts
  BY DEF Report, TypeInv, Parts
<1> HIDE DEF x
<1>3. ASSUME NEW w \in Parts, LastAnswer(w) PROVE LastAnswer(w)'
  BY <1>1, <1>2, <1>3, AnswerStays
<1>4. ASSUME NEW w \in Parts, Answered(w) PROVE Answered(w)'
  BY <1>1, <1>3, <1>4 DEF Answered
<1> QED BY <1>1, <1>4 DEF VersionInv

\* A service of new versions finds TPX asking.
LEMMA EndVersions ==
    ASSUME Crash \/ \E v \in [{"bp", "fpga"} -> Versions] : RestartService(v)
    PROVE  VersionInv'
<1>1. up' = FALSE /\ reported' = NoReport
  BY DEF Crash, RestartService, EndTpx
<1>2. ~Complete(reported')
  BY <1>1 DEF Complete, NoReport
<1> QED BY <1>1, <1>2 DEF VersionInv

LEMMA InitVersions == Init => VersionInv
<1> SUFFICES ASSUME Init PROVE VersionInv
  OBVIOUS
<1>1. up = FALSE /\ reported = NoReport
  BY DEF Init
<1>2. ~Complete(reported)
  BY <1>1 DEF Complete, NoReport
<1> QED BY <1>1, <1>2 DEF VersionInv

LEMMA NextVersions ==
    TypeInv /\ CallInv /\ VersionInv /\ [Next]_vars => VersionInv'
<1> SUFFICES ASSUME TypeInv, CallInv, VersionInv, [Next]_vars PROVE VersionInv'
  OBVIOUS
<1>1. CASE UNCHANGED vars
  <2>1. UNCHANGED <<up, todo, reported, file, wire, back, versions>>
    BY <1>1 DEF vars, process, disk, port, service
  <2> QED BY <2>1 DEF VersionInv, Answered, LastAnswer
<1>2. ASSUME NEW v \in {"bp", "fpga"}, Version(v) PROVE VersionInv'
  BY <1>2, HandleVersions DEF Parts
<1>3. CASE \/ assoc_at \/ reset_allow \/ start_coredump \/ init_hw_values
  BY <1>3, QuietVersions
<1>4. CASE Crash \/ \E v \in [{"bp", "fpga"} -> Versions] : RestartService(v)
  BY <1>4, EndVersions
<1> QED BY <1>1, <1>2, <1>3, <1>4, StartVersions, MessageVersions, SendVersions,
           HangupVersions, ObeyVersions, FailVersions DEF Next

\* When all is said and every answer handled, the file has the versions the
\* service has now (handler.clj:93), whatever was cut before.
THEOREM Versioned == Spec => []VersionsSaved
<1>1. TypeInv /\ VersionInv => VersionsSaved
  <2> SUFFICES ASSUME TypeInv, VersionInv, Quiet, back = <<>> PROVE file = versions
    BY DEF VersionsSaved
  <2>1. up /\ todo = <<>> /\ wire = <<>>
    BY DEF Quiet
  <2>2. \A v \in Parts : reported[v] = versions[v]
    BY <2>1 DEF VersionInv, Answered, LastAnswer
  <2>3. \A v \in Parts : versions[v] # Unset
    BY UnsetIsNone
  <2>4. file = reported
    <3>1. "bp" \in Parts /\ "fpga" \in Parts
      BY DEF Parts
    <3>2. reported.bp # Unset /\ reported.fpga # Unset
      BY <2>2, <2>3, <3>1
    <3> QED BY <3>2 DEF Complete, VersionInv
  <2>5. /\ reported \in [Parts -> Versions \cup {Unset}]
        /\ versions \in [Parts -> Versions]
    BY DEF TypeInv, TypeOK, Parts
  <2>6. reported = versions
    BY <2>2, <2>5
  <2> QED BY <2>4, <2>6
<1> QED BY <1>1, InitTypes, NextTypes, InitCalls, NextCalls, InitVersions,
           NextVersions, PTL DEF Spec

----------------------------------------------------------------------------
(* The settings.                                                           *)

SettingLines == {"vol", "vnl", "vnr", "vll", "vlr", "delay"}

\* The key a start takes the value of a line from, the other key it may have
\* been set by, and the key's place among those a start restores.
KeyOf(l)   == CASE l = "vol" -> "global"
                [] l \in {"vnl", "vnr"} -> "network"
                [] l \in {"vll", "vlr"} -> "local"
                [] OTHER -> "delay"
InputOf(l) == CASE l = "vlr" -> "input1"
                [] l = "vll" -> "input2"
                [] OTHER -> KeyOf(l)
Place(l)   == CASE l = "vol" -> 1
                [] l \in {"vnl", "vnr"} -> 2
                [] l \in {"vll", "vlr"} -> 3
                [] OTHER -> 4

KeysFor(l) == {KeyOf(l), InputOf(l)}
Target(l)  == {db[KeyOf(l)], hardware_value(KeyOf(l)), db[InputOf(l)]} \ {Unset}

IsSend(t, l) == t.do = "send" /\ t.what = l

\* A value on its way is the database's, or will be by a save before it.
SendsRight ==
    \A j \in 1..Len(todo), l \in SettingLines : IsSend(todo[j], l) =>
        \/ todo[j].value \in Target(l)
        \/ \E i \in 1..(j - 1) : todo[i].do = "save" /\ todo[i].what \in KeysFor(l)

\* What is saved and sent is one value.
Uniform ==
    \A i, j \in 1..Len(todo), l \in SettingLines :
        todo[i].do = "save" /\ IsSend(todo[j], l) => todo[j].value = todo[i].value

\* After a save its lines are sent.
SavesSent ==
    \A i \in 1..Len(todo), l \in SettingLines :
        todo[i].do = "save" /\ todo[i].what \in KeysFor(l) =>
            \E j \in (i + 1)..Len(todo) : IsSend(todo[j], l)

Settled(l) == hardware_value(KeyOf(l)) # Unset => \E q \in Target(l) : Said(l, q)
Owed(l) ==
    \/ \E j \in 1..Len(todo) : IsSend(todo[j], l)
    \/ \E j \in 1..Len(todo) : todo[j].do = "restore" /\ todo[j].what <= Place(l)

TodoInv    == SendsRight /\ Uniform /\ SavesSent
SettingInv == TodoInv /\ (up => \A l \in SettingLines : Settled(l) \/ Owed(l))

\* Nothing of it saves or sends a setting.
Clean(t) == \A i \in 1..Len(t) : /\ t[i].do # "save"
                                 /\ \A l \in SettingLines : ~IsSend(t[i], l)

LEMMA CleanTodo == Clean(todo') => TodoInv'
<1> SUFFICES ASSUME Clean(todo') PROVE TodoInv'
  OBVIOUS
<1>1. SendsRight'
  BY DEF SendsRight, Clean
<1>2. Uniform'
  BY DEF Uniform, Clean
<1>3. SavesSent'
  BY DEF SavesSent, Clean
<1> QED BY <1>1, <1>2, <1>3 DEF TodoInv

\* The thread goes on, without a save.
LEMMA TodoGoesOn ==
    ASSUME TypeInv, TodoInv, NEW do, First(do), do # "save",
           todo' = Tail(todo), db' = db
    PROVE  TodoInv'
<1>1. /\ Head(todo).do = do
      /\ Len(todo') = Len(todo) - 1
      /\ Len(todo) \in Nat /\ Head(todo) = todo[1]
      /\ \A i \in 1..Len(todo') : todo'[i] = todo[i + 1]
  BY FirstThing
<1>2. \A i \in 1..Len(todo') : i + 1 \in 1..Len(todo)
  BY <1>1
<1>3. SendsRight'
  <2> SUFFICES ASSUME NEW j \in 1..Len(todo'), NEW l \in SettingLines,
                      IsSend(todo'[j], l),
                      todo'[j].value \notin Target(l)'
               PROVE  \E i \in 1..(j - 1) :
                         todo'[i].do = "save" /\ todo'[i].what \in KeysFor(l)
    BY DEF SendsRight
  <2>1. todo'[j] = todo[j + 1] /\ j + 1 \in 1..Len(todo)
    BY <1>1, <1>2
  <2>2. Target(l)' = Target(l)
    BY DEF Target, hardware_value
  <2>3. IsSend(todo[j + 1], l) /\ todo[j + 1].value \notin Target(l)
    BY <2>1, <2>2 DEF IsSend
  <2>4. PICK i \in 1..((j + 1) - 1) : todo[i].do = "save" /\ todo[i].what \in KeysFor(l)
    BY <2>1, <2>3 DEF TodoInv, SendsRight
  <2>5. i # 1
    BY <1>1, <2>4
  <2>6. i - 1 \in 1..(j - 1) /\ i - 1 \in 1..Len(todo') /\ (i - 1) + 1 = i
    BY <1>1, <2>4, <2>5
  <2>7. todo'[i - 1] = todo[i]
    BY <1>1, <2>6
  <2> QED BY <2>4, <2>6, <2>7
<1>4. Uniform'
  BY <1>1, <1>2 DEF TodoInv, Uniform, IsSend
<1>5. SavesSent'
  <2> SUFFICES ASSUME NEW i \in 1..Len(todo'), NEW l \in SettingLines,
                      todo'[i].do = "save", todo'[i].what \in KeysFor(l)
               PROVE  \E j \in (i + 1)..Len(todo') : IsSend(todo'[j], l)
    BY DEF SavesSent, IsSend
  <2>1. todo'[i] = todo[i + 1] /\ i + 1 \in 1..Len(todo)
    BY <1>1, <1>2
  <2>2. PICK j \in ((i + 1) + 1)..Len(todo) : IsSend(todo[j], l)
    BY <2>1 DEF TodoInv, SavesSent
  <2>3. j - 1 \in (i + 1)..Len(todo') /\ j - 1 \in 1..Len(todo') /\ (j - 1) + 1 = j
    BY <1>1
  <2>4. todo'[j - 1] = todo[j]
    BY <1>1, <2>3
  <2> QED BY <2>2, <2>3, <2>4
<1> QED BY <1>3, <1>4, <1>5 DEF TodoInv

\* What is owed still is, unless it was the thread's first thing.
LEMMA OwedLater ==
    ASSUME TypeInv, NEW do, First(do), todo' = Tail(todo),
           NEW l \in SettingLines, Owed(l)
    PROVE  \/ do = "send" /\ Head(todo).what = l
           \/ do = "restore"
           \/ Owed(l)'
<1>1. /\ Head(todo).do = do
      /\ Len(todo') = Len(todo) - 1
      /\ Len(todo) \in Nat /\ Head(todo) = todo[1]
      /\ \A i \in 1..Len(todo') : todo'[i] = todo[i + 1]
  BY FirstThing
<1>2. ASSUME NEW j \in 1..Len(todo), j # 1
      PROVE  \E i \in 1..Len(todo') : todo'[i] = todo[j]
  <2>1. j - 1 \in 1..Len(todo') /\ (j - 1) + 1 = j
    BY <1>1, <1>2
  <2> QED BY <1>1, <2>1
<1>3. ASSUME NEW j \in 1..Len(todo), IsSend(todo[j], l)
      PROVE  (do = "send" /\ Head(todo).what = l) \/ Owed(l)'
  <2>1. CASE j = 1
    BY <1>1, <1>3, <2>1 DEF IsSend
  <2>2. CASE j # 1
    <3>1. PICK i \in 1..Len(todo') : todo'[i] = todo[j]
      BY <1>2, <2>2
    <3> QED BY <1>3, <3>1 DEF Owed, IsSend
  <2> QED BY <2>1, <2>2
<1>4. ASSUME NEW j \in 1..Len(todo), todo[j].do = "restore", todo[j].what <= Place(l)
      PROVE  do = "restore" \/ Owed(l)'
  <2>1. CASE j = 1
    BY <1>1, <1>4, <2>1
  <2>2. CASE j # 1
    <3>1. PICK i \in 1..Len(todo') : todo'[i] = todo[j]
      BY <1>2, <2>2
    <3> QED BY <1>4, <3>1 DEF Owed
  <2> QED BY <2>1, <2>2
<1> QED BY <1>3, <1>4 DEF Owed

\* Steps that leave what is said and the database alone.
LEMMA SettledStays ==
    ASSUME NEW l \in SettingLines, Settled(l), db' = db,
           \A q : Said(l, q) => Said(l, q)'
    PROVE  Settled(l)'
<1>1. Target(l)' = Target(l) /\ hardware_value(KeyOf(l))' = hardware_value(KeyOf(l))
  BY DEF Target, hardware_value
<1> QED BY <1>1 DEF Settled

\* The keys of a setting and its lines are one another's.
LEMMA KeysAndLines ==
    ASSUME NEW k \in Keys \cup {"inputs"}
    PROVE  /\ \A n \in 1..Len(KeysOf(k)), l \in SettingLines :
                KeysOf(k)[n] \in KeysFor(l) => \E m \in 1..Len(Lines[k]) : Lines[k][m] = l
           /\ \A m \in 1..Len(Lines[k]) : \E n \in 1..Len(KeysOf(k)) :
                KeysOf(k)[n] \in KeysFor(Lines[k][m])
<1>1. /\ KeysFor("vol") = {"global"}
      /\ KeysFor("vnl") = {"network"} /\ KeysFor("vnr") = {"network"}
      /\ KeysFor("vlr") = {"local", "input1"}
      /\ KeysFor("vll") = {"local", "input2"}
      /\ KeysFor("delay") = {"delay"}
  BY DEF KeysFor, KeyOf, InputOf
<1>2. /\ Lines["global"] = <<"vol">> /\ Lines["network"] = <<"vnl", "vnr">>
      /\ Lines["local"] = <<"vll", "vlr">> /\ Lines["input1"] = <<"vlr">>
      /\ Lines["input2"] = <<"vll">> /\ Lines["inputs"] = <<"vlr", "vll">>
      /\ Lines["delay"] = <<"delay">>
  BY DEF Lines
<1>3. ASSUME NEW a, NEW b
      PROVE  /\ Len(<<a>>) = 1 /\ <<a>>[1] = a
             /\ Len(<<a, b>>) = 2 /\ <<a, b>>[1] = a /\ <<a, b>>[2] = b
  OBVIOUS
<1>4. 1..1 = {1} /\ 1..2 = {1, 2}
  OBVIOUS
<1>5. KeysOf("inputs") = <<"input1", "input2">>
  BY DEF KeysOf
<1>6. k # "inputs" => KeysOf(k) = <<k>>
  BY DEF KeysOf
<1>7. CASE k = "inputs"
  <2>1. Len(KeysOf(k)) = 2 /\ KeysOf(k)[1] = "input1" /\ KeysOf(k)[2] = "input2"
    BY <1>3, <1>5, <1>7
  <2>2. Len(Lines[k]) = 2 /\ Lines[k][1] = "vlr" /\ Lines[k][2] = "vll"
    BY <1>2, <1>3, <1>7
  <2> QED BY <1>1, <1>4, <2>1, <2>2 DEF SettingLines
<1>8. CASE k # "inputs"
  <2>1. Len(KeysOf(k)) = 1 /\ KeysOf(k)[1] = k
    BY <1>3, <1>6, <1>8
  <2>2. CASE k = "global"
    <3>1. Len(Lines[k]) = 1 /\ Lines[k][1] = "vol"
      BY <1>2, <1>3, <2>2
    <3> QED BY <1>1, <1>4, <2>1, <2>2, <3>1 DEF SettingLines
  <2>3. CASE k = "network"
    <3>1. Len(Lines[k]) = 2 /\ Lines[k][1] = "vnl" /\ Lines[k][2] = "vnr"
      BY <1>2, <1>3, <2>3
    <3> QED BY <1>1, <1>4, <2>1, <2>3, <3>1 DEF SettingLines
  <2>4. CASE k = "local"
    <3>1. Len(Lines[k]) = 2 /\ Lines[k][1] = "vll" /\ Lines[k][2] = "vlr"
      BY <1>2, <1>3, <2>4
    <3> QED BY <1>1, <1>4, <2>1, <2>4, <3>1 DEF SettingLines
  <2>5. CASE k = "input1"
    <3>1. Len(Lines[k]) = 1 /\ Lines[k][1] = "vlr"
      BY <1>2, <1>3, <2>5
    <3> QED BY <1>1, <1>4, <2>1, <2>5, <3>1 DEF SettingLines
  <2>6. CASE k = "input2"
    <3>1. Len(Lines[k]) = 1 /\ Lines[k][1] = "vll"
      BY <1>2, <1>3, <2>6
    <3> QED BY <1>1, <1>4, <2>1, <2>6, <3>1 DEF SettingLines
  <2>7. CASE k = "delay"
    <3>1. Len(Lines[k]) = 1 /\ Lines[k][1] = "delay"
      BY <1>2, <1>3, <2>7
    <3> QED BY <1>1, <1>4, <2>1, <2>7, <3>1 DEF SettingLines
  <2> QED BY <1>8, <2>2, <2>3, <2>4, <2>5, <2>6, <2>7 DEF Keys
<1> QED BY <1>7, <1>8

LEMMA SameRange == ASSUME NEW a \in Nat, NEW b \in Nat, 1..a = 1..b PROVE a = b
<1>1. a \in 1..a \/ a = 0
  OBVIOUS
<1>2. b \in 1..b \/ b = 0
  OBVIOUS
<1> QED BY <1>1, <1>2

\* The parts of what sets a value.
LEMMA SendAllParts ==
    ASSUME NEW k \in Keys \cup {"inputs"}, NEW v \in Numbers
    PROVE  /\ Len(SendAll(k, v)) = Len(Lines[k]) /\ Len(Lines[k]) \in Nat
           /\ \A m \in 1..Len(Lines[k]) : /\ SendAll(k, v)[m] = Send(Lines[k][m], v)
                                          /\ Lines[k][m] \in SettingLines
<1>1. Len(Lines[k]) \in Nat /\ DOMAIN Lines[k] = 1..Len(Lines[k])
  BY LinesOfKey, LenProperties
<1>2. \A i \in 1..Len(Lines[k]) : Lines[k][i] \in SettingLines
  BY LinesOfKey, ElementOfSeq DEF SettingLines
<1>3. SendAll(k, v) \in Seq(Things)
  BY SendAllIsThings
<1>4. /\ DOMAIN SendAll(k, v) = 1..Len(SendAll(k, v)) /\ Len(SendAll(k, v)) \in Nat
  BY <1>3, LenProperties
<1>5. DOMAIN SendAll(k, v) = 1..Len(Lines[k])
  BY <1>1 DEF SendAll
<1>6. Len(SendAll(k, v)) = Len(Lines[k])
  <2>1. 1..Len(SendAll(k, v)) = 1..Len(Lines[k])
    BY <1>4, <1>5
  <2> QED BY <1>1, <1>4, <2>1, SameRange
<1>7. \A m \in 1..Len(Lines[k]) : SendAll(k, v)[m] = Send(Lines[k][m], v)
  BY <1>1 DEF SendAll
<1> QED BY <1>1, <1>2, <1>6, <1>7

LEMMA SaveAllParts ==
    ASSUME NEW k \in Keys \cup {"inputs"}, NEW v \in Values
    PROVE  /\ Len(SaveAll(k, v)) = Len(KeysOf(k)) /\ Len(KeysOf(k)) \in Nat
           /\ \A n \in 1..Len(KeysOf(k)) : SaveAll(k, v)[n] = Save(KeysOf(k)[n], v)
<1>1. Len(KeysOf(k)) \in Nat /\ DOMAIN KeysOf(k) = 1..Len(KeysOf(k))
  BY LinesOfKey, LenProperties
<1>3. SaveAll(k, v) \in Seq(Things)
  BY SaveAllIsThings
<1>4. /\ DOMAIN SaveAll(k, v) = 1..Len(SaveAll(k, v)) /\ Len(SaveAll(k, v)) \in Nat
  BY <1>3, LenProperties
<1>5. DOMAIN SaveAll(k, v) = 1..Len(KeysOf(k))
  BY <1>1 DEF SaveAll
<1>6. Len(SaveAll(k, v)) = Len(KeysOf(k))
  <2>1. 1..Len(SaveAll(k, v)) = 1..Len(KeysOf(k))
    BY <1>4, <1>5
  <2> QED BY <1>1, <1>4, <2>1, SameRange
<1>7. \A n \in 1..Len(KeysOf(k)) : SaveAll(k, v)[n] = Save(KeysOf(k)[n], v)
  BY <1>1 DEF SaveAll
<1> QED BY <1>1, <1>6, <1>7

LEMMA SaveKinds ==
    \A k, v : Save(k, v).do = "save" /\ Save(k, v).what = k /\ Save(k, v).value = v
BY DEF Save

LEMMA SetValueTodo ==
    ASSUME NEW k \in Settings, NEW v \in Values, SetValue(k, v) PROVE TodoInv'
<1> DEFINE a == SaveAll(k, v)
           b == SendAll(k, v)
           p == Len(KeysOf(k))
           r == Len(Lines[k])
<1>1. k \in Keys \cup {"inputs"} /\ v \in Numbers
  BY CallsAssumption, SomeNumbers DEF CallsAssumption
<1>2. /\ a \in Seq(Things) /\ b \in Seq(Things)
      /\ Len(a) = p /\ Len(b) = r /\ p \in Nat /\ r \in Nat
      /\ \A n \in 1..p : a[n] = Save(KeysOf(k)[n], v)
      /\ \A m \in 1..r : b[m] = Send(Lines[k][m], v) /\ Lines[k][m] \in SettingLines
  BY <1>1, SaveAllIsThings, SendAllIsThings, SaveAllParts, SendAllParts
<1>3. todo' = a \o b
  BY DEF SetValue, Message
<1> HIDE DEF a, b
<1>4. /\ Len(a \o b) = Len(a) + Len(b)
      /\ \A i \in 1..(Len(a) + Len(b)) :
            (a \o b)[i] = IF i <= Len(a) THEN a[i] ELSE b[i - Len(a)]
  <2>1. a \in Seq(Things) /\ b \in Seq(Things)
    BY <1>2
  <2> QED BY <2>1, ConcatProperties
<1>5. /\ Len(todo') = p + r
      /\ \A i \in 1..p : todo'[i] = a[i]
      /\ \A i \in 1..(p + r) : i > p => todo'[i] = b[i - p]
  <2>1. \A i \in 1..p : i \in 1..(p + r) /\ i <= p
    BY <1>2
  <2>2. \A i \in 1..(p + r) : i > p => ~(i <= p)
    BY <1>2
  <2> QED BY <1>2, <1>3, <1>4, <2>1, <2>2
<1>6. /\ \A n \in 1..p, l \in SettingLines :
            KeysOf(k)[n] \in KeysFor(l) => \E m \in 1..r : Lines[k][m] = l
      /\ \A m \in 1..r : \E n \in 1..p : KeysOf(k)[n] \in KeysFor(Lines[k][m])
  BY <1>1, KeysAndLines
<1> HIDE DEF p, r
<1>7. \A n \in 1..p : /\ todo'[n].do = "save" /\ todo'[n].what = KeysOf(k)[n]
                      /\ todo'[n].value = v
  BY <1>2, <1>5, SaveKinds
<1>8. \A i \in 1..(p + r) : i > p =>
         /\ i - p \in 1..r
         /\ todo'[i].do = "send" /\ todo'[i].what = Lines[k][i - p]
         /\ todo'[i].value = v
  <2>1. \A i \in 1..(p + r) : i > p => i - p \in 1..r
    BY <1>2
  <2> QED BY <1>2, <1>5, <2>1, Kinds
<1>9. \A i \in 1..(p + r) : i \in 1..p \/ i > p
  BY <1>2
<1>10. SendsRight'
  <2> SUFFICES ASSUME NEW j \in 1..(p + r), NEW l \in SettingLines, IsSend(todo'[j], l)
               PROVE  \E i \in 1..(j - 1) :
                         todo'[i].do = "save" /\ todo'[i].what \in KeysFor(l)
    BY <1>5 DEF SendsRight, IsSend
  <2>1. j > p
    BY <1>7, <1>9 DEF IsSend
  <2>2. j - p \in 1..r /\ Lines[k][j - p] = l
    BY <1>8, <2>1 DEF IsSend
  <2>3. PICK n \in 1..p : KeysOf(k)[n] \in KeysFor(l)
    BY <1>6, <2>2
  <2>4. n \in 1..(j - 1)
    BY <1>2, <2>1
  <2> QED BY <1>7, <2>3, <2>4
<1>11. Uniform'
  <2>1. \A i \in 1..(p + r) : todo'[i].value = v
    BY <1>7, <1>8, <1>9
  <2> QED BY <1>5, <2>1 DEF Uniform, IsSend
<1>12. SavesSent'
  <2> SUFFICES ASSUME NEW i \in 1..(p + r), NEW l \in SettingLines,
                      todo'[i].do = "save", todo'[i].what \in KeysFor(l)
               PROVE  \E j \in (i + 1)..(p + r) : IsSend(todo'[j], l)
    BY <1>5 DEF SavesSent, IsSend
  <2>1. i \in 1..p
    BY <1>8, <1>9
  <2>2. PICK m \in 1..r : Lines[k][m] = l
    BY <1>6, <1>7, <2>1
  <2>3. m + p \in (i + 1)..(p + r) /\ m + p \in 1..(p + r) /\ m + p > p /\ (m + p) - p = m
    BY <1>2, <2>1
  <2>4. IsSend(todo'[m + p], l)
    BY <1>8, <2>2, <2>3 DEF IsSend
  <2> QED BY <2>3, <2>4
<1> QED BY <1>10, <1>11, <1>12 DEF TodoInv

\* Other messages, and the rest of a start, have no setting in them.
LEMMA OthersClean ==
    /\ \A p \in Peers, d \in {"rcall", "icall"} : Clean(CallLines(p, d))
    /\ \A t : (t.do \in {"allow", "start", "restore"}
               \/ (t.do = "send" /\ t.what \notin SettingLines)) => Clean(<<t>>)
    /\ Clean(<<>>)
    /\ Clean(<<Allow(TRUE), Halt>>) /\ Clean(<<Allow(TRUE), Halt, Hangup>>)
    /\ Clean(<<Allow(FALSE), Monitor>>)
<1> DEFINE Bare(t) == t.do # "save" /\ \A l \in SettingLines : ~IsSend(t, l)
<1>1. ASSUME NEW a, NEW b, NEW c, NEW d, NEW e,
             Bare(a), Bare(b), Bare(c), Bare(d), Bare(e)
      PROVE  /\ Clean(<<a>>) /\ Clean(<<a, b>>) /\ Clean(<<a, b, c>>)
             /\ Clean(<<a, b, c, d, e>>)
  <2>1. ASSUME NEW n \in 1..1 PROVE n = 1 OBVIOUS
  <2>2. ASSUME NEW n \in 1..2 PROVE n = 1 \/ n = 2 OBVIOUS
  <2>3. ASSUME NEW n \in 1..3 PROVE n = 1 \/ n = 2 \/ n = 3 OBVIOUS
  <2>4. ASSUME NEW n \in 1..5 PROVE n = 1 \/ n = 2 \/ n = 3 \/ n = 4 \/ n = 5 OBVIOUS
  <2>5. Clean(<<a>>)
    <3>1. Len(<<a>>) = 1 /\ <<a>>[1] = a
      OBVIOUS
    <3> QED BY <1>1, <2>1, <3>1 DEF Clean
  <2>6. Clean(<<a, b>>)
    <3>1. Len(<<a, b>>) = 2 /\ <<a, b>>[1] = a /\ <<a, b>>[2] = b
      OBVIOUS
    <3> QED BY <1>1, <2>2, <3>1 DEF Clean
  <2>7. Clean(<<a, b, c>>)
    <3>1. /\ Len(<<a, b, c>>) = 3
          /\ <<a, b, c>>[1] = a /\ <<a, b, c>>[2] = b /\ <<a, b, c>>[3] = c
      OBVIOUS
    <3> QED BY <1>1, <2>3, <3>1 DEF Clean
  <2>8. Clean(<<a, b, c, d, e>>)
    <3>1. /\ Len(<<a, b, c, d, e>>) = 5
          /\ <<a, b, c, d, e>>[1] = a /\ <<a, b, c, d, e>>[2] = b
          /\ <<a, b, c, d, e>>[3] = c /\ <<a, b, c, d, e>>[4] = d
          /\ <<a, b, c, d, e>>[5] = e
      OBVIOUS
    <3> QED BY <1>1, <2>4, <3>1 DEF Clean
  <2> QED BY <2>5, <2>6, <2>7, <2>8
<1>2. /\ \A l, v : l \notin SettingLines => Bare(Send(l, v))
      /\ \A b \in BOOLEAN : Bare(Allow(b))
      /\ Bare(StartCoredump)
  BY Kinds DEF IsSend
<1>3. \A p \in Peers, d \in {"rcall", "icall"} : Clean(CallLines(p, d))
  <2> SUFFICES ASSUME NEW p \in Peers, NEW d \in {"rcall", "icall"}
               PROVE  Clean(CallLines(p, d))
    OBVIOUS
  <2>1. {"setport", "setrpip", "setrlip", d} \cap SettingLines = {}
    BY DEF SettingLines
  <2>2. /\ Bare(Send("setport", p)) /\ Bare(Send("setrpip", p))
        /\ Bare(Send("setrlip", p)) /\ Bare(Send(d, Unset))
    BY <1>2, <2>1
  <2> HIDE DEF Bare
  <2> QED BY <1>1, <1>2, <2>2 DEF CallLines
<1>4. \A t : (t.do \in {"allow", "start", "restore"}
              \/ (t.do = "send" /\ t.what \notin SettingLines)) => Clean(<<t>>)
  <2> SUFFICES ASSUME NEW t, t.do \in {"allow", "start", "restore"}
                             \/ (t.do = "send" /\ t.what \notin SettingLines)
               PROVE  Clean(<<t>>)
    OBVIOUS
  <2>1. Bare(t)
    BY DEF IsSend
  <2> HIDE DEF Bare
  <2> QED BY <1>1, <2>1
<1>5. Clean(<<>>)
  BY DEF Clean
<1>6. Bare(Halt) /\ Bare(Hangup) /\ Bare(Monitor) /\ Bare(Allow(TRUE)) /\ Bare(Allow(FALSE))
  <2>1. {"halt", "hangup", "monitor"} \cap SettingLines = {}
    BY DEF SettingLines
  <2> HIDE DEF Bare
  <2> QED BY <1>2, <2>1 DEF Halt, Hangup, Monitor
<1> HIDE DEF Bare
<1> QED BY <1>1, <1>3, <1>4, <1>5, <1>6

\* A thread's step that leaves the database and what was said alone.
LEMMA ThreadSettings ==
    ASSUME SettingInv, TodoInv', up, db' = db, UNCHANGED <<wire, reg>>,
           \A l \in SettingLines : Owed(l) => Settled(l) \/ Owed(l)'
    PROVE  SettingInv'
<1>1. ASSUME NEW l \in SettingLines, Settled(l) PROVE Settled(l)'
  <2>1. \A q : Said(l, q) => Said(l, q)'
    BY DEF Said
  <2> QED BY <1>1, <2>1, SettledStays
<1> QED BY <1>1 DEF SettingInv

LEMMA MessageSettings == TypeInv /\ SettingInv /\ Messages => SettingInv'
<1> SUFFICES ASSUME TypeInv, SettingInv, Messages PROVE SettingInv'
  OBVIOUS
<1>1. up /\ todo = <<>> /\ db' = db /\ UNCHANGED <<wire, reg>>
  BY MessageKinds DEF disk, port, service
<1>2. \A l \in SettingLines : ~Owed(l)
  BY <1>1 DEF Owed
<1>3. TodoInv'
  <2>1. ASSUME NEW k \in Settings, NEW v \in Values, SetValue(k, v) PROVE TodoInv'
    BY <2>1, SetValueTodo
  <2>2. ASSUME NEW p \in Peers, ReceiveCall(p) \/ InitiateCall(p) PROVE TodoInv'
    <3>1. \E d \in {"rcall", "icall"} : todo' = CallLines(p, d)
      BY <2>2 DEF ReceiveCall, InitiateCall, Message
    <3> QED BY <3>1, OthersClean, CleanTodo
  <2>3. CASE HangupAll \/ PathReset
    <3>1. \E w \in {"hangup", "pr"} : todo' = <<Send(w, Unset)>>
      BY <2>3 DEF HangupAll, PathReset, Message
    <3>2. PICK w \in {"hangup", "pr"} : todo' = <<Send(w, Unset)>>
      BY <3>1
    <3>3. /\ Send(w, Unset).do = "send" /\ Send(w, Unset).what = w
          /\ w \notin SettingLines
      BY Kinds DEF SettingLines
    <3> QED BY <3>2, <3>3, OthersClean, CleanTodo
  <2>4. CASE StopCoredump \/ StopCall
    <3>1. stop_coredump = <<Allow(TRUE), Halt>>
      BY DEF stop_coredump, Halt
    <3>2. <<Allow(TRUE), Halt>> \o <<Hangup>> = <<Allow(TRUE), Halt, Hangup>>
      <4>1. Allow(TRUE) \in Things /\ Halt \in Things /\ Hangup \in Things
        BY SendIsThing, SomeNumbers, SomeWords DEF Halt, Hangup
      <4> QED BY <4>1, TwoAndOne
    <3>3. CASE StopCoredump
      <4>1. todo' = <<Allow(TRUE), Halt>>
        BY <3>1, <3>3 DEF StopCoredump, Message
      <4> QED BY <4>1, OthersClean, CleanTodo
    <3>4. CASE StopCall
      <4>1. todo' = <<Allow(TRUE), Halt, Hangup>>
        BY <3>1, <3>2, <3>4 DEF StopCall, Message, Hangup
      <4> QED BY <4>1, OthersClean, CleanTodo
    <3> QED BY <2>4, <3>3, <3>4
  <2> QED BY <2>1, <2>2, <2>3, <2>4 DEF Messages
<1> QED BY <1>1, <1>2, <1>3, ThreadSettings

LEMMA StartSettings == TypeInv /\ SettingInv /\ Start => SettingInv'
<1> SUFFICES ASSUME TypeInv, SettingInv, Start PROVE SettingInv'
  OBVIOUS
<1> DEFINE a == Send("setlip", Own)
           b == Send("setpip", Own)
           c == Send("bver", Unset)
           d == Send("cver", Unset)
           e == Restore(1)
<1>1. todo' = <<a, b, c, d, e>>
  BY DEF Start
<1>2. /\ a.do = "send" /\ b.do = "send" /\ c.do = "send" /\ d.do = "send"
      /\ a.what = "setlip" /\ b.what = "setpip" /\ c.what = "bver" /\ d.what = "cver"
      /\ e.do = "restore" /\ e.what = 1
  BY DEF Send, Restore
<1> HIDE DEF a, b, c, d, e
<1>3. /\ Len(todo') = 5 /\ todo'[1] = a /\ todo'[2] = b /\ todo'[3] = c
      /\ todo'[4] = d /\ todo'[5] = e
  BY <1>1
<1>4. \A n \in 1..5 : n = 1 \/ n = 2 \/ n = 3 \/ n = 4 \/ n = 5
  OBVIOUS
<1>5. {"setlip", "setpip", "bver", "cver"} \cap SettingLines = {}
  BY DEF SettingLines
<1>6. Clean(todo')
  <2>1. \A t \in {a, b, c, d, e} : t.do # "save" /\ \A l \in SettingLines : ~IsSend(t, l)
    BY <1>2, <1>5 DEF IsSend
  <2> QED BY <1>3, <1>4, <2>1 DEF Clean
<1>7. \A l \in SettingLines : Owed(l)'
  <2>1. \A l \in SettingLines : 1 <= Place(l)
    BY DEF Place
  <2>2. 5 \in 1..5
    OBVIOUS
  <2> QED BY <1>2, <1>3, <2>1, <2>2 DEF Owed
<1> QED BY <1>6, <1>7, CleanTodo DEF SettingInv

\* The database takes a value: its lines are owed.
LEMMA SaveSettings == TypeInv /\ SettingInv /\ assoc_at => SettingInv'
<1> SUFFICES ASSUME TypeInv, SettingInv, assoc_at PROVE SettingInv'
  OBVIOUS
<1> DEFINE k == Head(todo).what
           v == Head(todo).value
<1>0. First("save") /\ todo' = Tail(todo)
  BY DEF assoc_at
<1>1. /\ Head(todo) \in Things /\ Head(todo).do = "save"
      /\ Len(todo') = Len(todo) - 1
      /\ Len(todo) \in Nat /\ Len(todo) > 0 /\ Head(todo) = todo[1]
      /\ \A i \in 1..Len(todo') : todo'[i] = todo[i + 1]
  BY <1>0, FirstThing
<1>2. k \in Keys /\ db \in [Keys -> Values \cup {Unset}]
  BY <1>1, ThingKinds DEF TypeInv, TypeOK
<1>3. /\ db' = [db EXCEPT ![k] = v] /\ up' = up /\ UNCHANGED <<wire, reg>>
  BY DEF assoc_at, port, service
<1> HIDE DEF k, v
<1>4. /\ db'[k] = v /\ \A x \in Keys : x # k => db'[x] = db[x]
  BY <1>2, <1>3
<1>5. \A l \in SettingLines : KeyOf(l) \in Keys /\ InputOf(l) \in Keys
  BY DEF KeyOf, InputOf, Keys, SettingLines
<1>6. ASSUME NEW l \in SettingLines, k \notin KeysFor(l)
      PROVE  /\ Target(l)' = Target(l)
             /\ hardware_value(KeyOf(l))' = hardware_value(KeyOf(l))
  <2>1. db'[KeyOf(l)] = db[KeyOf(l)] /\ db'[InputOf(l)] = db[InputOf(l)]
    BY <1>4, <1>5, <1>6 DEF KeysFor
  <2> QED BY <2>1 DEF Target, hardware_value
<1>7. ASSUME NEW l \in SettingLines, k \in KeysFor(l) PROVE v \in Target(l)'
  <2>1. v # Unset
    <3>1. v \in Values
      BY <1>1, ThingKinds DEF v
    <3> QED BY <3>1, CallsAssumption DEF CallsAssumption, Unset
  <2> QED BY <1>4, <1>7, <2>1 DEF Target, KeysFor
<1>8. \A i \in 1..Len(todo') : i + 1 \in 1..Len(todo)
  BY <1>1
<1>9. 1 \in 1..Len(todo) /\ todo[1].do = "save" /\ todo[1].what = k /\ todo[1].value = v
  BY <1>1 DEF k, v
<1>10. SendsRight'
  <2> SUFFICES ASSUME NEW j \in 1..Len(todo'), NEW l \in SettingLines,
                      IsSend(todo'[j], l),
                      todo'[j].value \notin Target(l)'
               PROVE  \E i \in 1..(j - 1) :
                         todo'[i].do = "save" /\ todo'[i].what \in KeysFor(l)
    BY DEF SendsRight
  <2>1. todo'[j] = todo[j + 1] /\ j + 1 \in 1..Len(todo)
    BY <1>1, <1>8
  <2>2. todo'[j].value = v
    BY <1>9, <2>1 DEF SettingInv, TodoInv, Uniform
  <2>3. k \notin KeysFor(l)
    BY <1>7, <2>2
  <2>4. IsSend(todo[j + 1], l) /\ todo[j + 1].value \notin Target(l)
    BY <1>6, <2>1, <2>3 DEF IsSend
  <2>5. PICK i \in 1..((j + 1) - 1) : todo[i].do = "save" /\ todo[i].what \in KeysFor(l)
    BY <2>1, <2>4 DEF SettingInv, TodoInv, SendsRight
  <2>6. i # 1
    BY <1>9, <2>3, <2>5
  <2>7. i - 1 \in 1..(j - 1) /\ i - 1 \in 1..Len(todo') /\ (i - 1) + 1 = i
    BY <1>1, <2>5, <2>6
  <2>8. todo'[i - 1] = todo[i]
    BY <1>1, <2>7
  <2> QED BY <2>5, <2>7, <2>8
<1>11. Uniform'
  <2> SUFFICES ASSUME NEW i \in 1..Len(todo'), NEW j \in 1..Len(todo'),
                      NEW l \in SettingLines,
                      todo'[i].do = "save", IsSend(todo'[j], l)
               PROVE  todo'[j].value = todo'[i].value
    BY DEF Uniform, IsSend
  <2>1. /\ todo'[i] = todo[i + 1] /\ i + 1 \in 1..Len(todo)
        /\ todo'[j] = todo[j + 1] /\ j + 1 \in 1..Len(todo)
    BY <1>1, <1>8
  <2>2. todo[i + 1].do = "save" /\ IsSend(todo[j + 1], l)
    BY <2>1 DEF IsSend
  <2>3. todo[j + 1].value = todo[i + 1].value
    BY <2>1, <2>2 DEF SettingInv, TodoInv, Uniform
  <2> QED BY <2>1, <2>3
<1>12. SavesSent'
  <2> SUFFICES ASSUME NEW i \in 1..Len(todo'), NEW l \in SettingLines,
                      todo'[i].do = "save", todo'[i].what \in KeysFor(l)
               PROVE  \E j \in (i + 1)..Len(todo') : IsSend(todo'[j], l)
    BY DEF SavesSent, IsSend
  <2>1. todo'[i] = todo[i + 1] /\ i + 1 \in 1..Len(todo)
    BY <1>1, <1>8
  <2>2. PICK j \in ((i + 1) + 1)..Len(todo) : IsSend(todo[j], l)
    BY <2>1 DEF SettingInv, TodoInv, SavesSent
  <2>3. j - 1 \in (i + 1)..Len(todo') /\ j - 1 \in 1..Len(todo') /\ (j - 1) + 1 = j
    BY <1>1
  <2>4. todo'[j - 1] = todo[j]
    BY <1>1, <2>3
  <2> QED BY <2>2, <2>3, <2>4
<1>13. ASSUME up, NEW l \in SettingLines PROVE Settled(l)' \/ Owed(l)'
  <2>1. CASE k \in KeysFor(l)
    <3>1. PICK j \in (1 + 1)..Len(todo) : IsSend(todo[j], l)
      BY <1>9, <2>1 DEF SettingInv, TodoInv, SavesSent
    <3>2. j - 1 \in 1..Len(todo') /\ (j - 1) + 1 = j
      BY <1>1
    <3>3. IsSend(todo'[j - 1], l)
      BY <1>1, <3>1, <3>2
    <3> QED BY <3>2, <3>3 DEF Owed, IsSend
  <2>2. CASE k \notin KeysFor(l) /\ Settled(l)
    <3>1. \A q : Said(l, q) => Said(l, q)'
      BY <1>3 DEF Said
    <3> QED BY <1>6, <2>2, <3>1 DEF Settled
  <2>3. CASE Owed(l)
    BY <1>0, <2>3, OwedLater
  <2> QED BY <1>13, <2>1, <2>2, <2>3 DEF SettingInv
<1> QED BY <1>3, <1>10, <1>11, <1>12, <1>13 DEF SettingInv, TodoInv

\* A line of this thread: what was owed is said, and is the database's.
LEMMA SendSettings == TypeInv /\ SettingInv /\ send_command => SettingInv'
<1> SUFFICES ASSUME TypeInv, SettingInv, send_command PROVE SettingInv'
  OBVIOUS
<1> DEFINE x == [line |-> Head(todo).what, value |-> Head(todo).value]
<1>1. /\ UNCHANGED <<up, db, reg>> /\ First("send") /\ todo' = Tail(todo)
      /\ wire' = Append(wire, x)
  BY DEF send_command, disk, service
<1>2. x \in Line /\ wire \in Seq(Line)
  <2>1. Head(todo) \in Things /\ Head(todo).do = "send"
    BY FirstThing DEF send_command
  <2>2. Head(todo).what \in Words /\ Head(todo).value \in Numbers
    BY <2>1, ThingKinds
  <2> QED BY <2>2 DEF Line, TypeInv
<1>3. x.line = Head(todo).what /\ x.value = Head(todo).value
  OBVIOUS
<1>4. /\ Head(todo).do = "send" /\ Head(todo) = todo[1]
      /\ Len(todo) \in Nat /\ Len(todo) > 0
  BY <1>1, FirstThing
<1> HIDE DEF x
<1>5. TodoInv'
  BY <1>1, TodoGoesOn DEF SettingInv
<1>6. ASSUME up, NEW l \in SettingLines PROVE Settled(l)' \/ Owed(l)'
  <2>1. CASE x.line = l
    <3>1. IsSend(todo[1], l) /\ 1 \in 1..Len(todo)
      BY <1>3, <1>4, <2>1 DEF IsSend
    <3>2. \A i \in 1..(1 - 1) : FALSE
      OBVIOUS
    <3>3. todo[1].value \in Target(l)
      BY <3>1, <3>2 DEF SettingInv, TodoInv, SendsRight
    <3>4. LastIs(wire', reg', Len(wire'), l, x.value)
      BY <1>1, <1>2, <2>1, LastSaid
    <3>5. Target(l)' = Target(l)
      BY <1>1 DEF Target, hardware_value
    <3>6. \E q \in Target(l)' : Said(l, q)'
      BY <1>3, <1>4, <3>3, <3>4, <3>5 DEF Said
    <3> QED BY <3>6 DEF Settled
  <2>2. CASE x.line # l /\ Settled(l)
    <3>1. \A q : Said(l, q) => Said(l, q)'
      BY <1>1, <1>2, <2>2, LastStays DEF Said
    <3> QED BY <1>1, <2>2, <3>1, SettledStays
  <2>3. CASE x.line # l /\ Owed(l)
    <3>1. \/ Head(todo).what = l
          \/ Owed(l)'
      BY <1>1, <2>3, OwedLater
    <3> QED BY <1>3, <2>3, <3>1
  <2> QED BY <1>6, <2>1, <2>2, <2>3 DEF SettingInv
<1> QED BY <1>1, <1>5, <1>6 DEF SettingInv

\* The flag's steps.
LEMMA FlagSettings ==
    TypeInv /\ CallInv /\ SettingInv /\ (reset_allow \/ start_coredump) => SettingInv'
<1> SUFFICES ASSUME TypeInv, CallInv, SettingInv, reset_allow \/ start_coredump
             PROVE  SettingInv'
  OBVIOUS
<1>1. up /\ db' = db /\ UNCHANGED <<wire, reg>>
  BY DEF reset_allow, start_coredump, First, disk, port, service
<1>2. CASE reset_allow
  <2>1. First("allow") /\ todo' = Tail(todo)
    BY <1>2 DEF reset_allow
  <2>2. TodoInv'
    BY <1>1, <2>1, TodoGoesOn DEF SettingInv
  <2>3. \A l \in SettingLines : Owed(l) => Owed(l)'
    BY <2>1, OwedLater
  <2> QED BY <1>1, <2>2, <2>3, ThreadSettings
<1>3. CASE start_coredump
  <2>1. First("start") /\ Work
    BY <1>3 DEF start_coredump, CallInv
  <2>2. todo = <<StartCoredump>>
    BY <2>1, WorkHead
  <2>3. Tail(todo) = <<>>
    BY <2>2, TuplesTaken
  <2>4. todo' = <<Allow(FALSE), Monitor>> \/ todo' = <<>>
    <3>1. <<Allow(FALSE), Monitor>> \o <<>> = <<Allow(FALSE), Monitor>>
      BY StopIsThings, ConcatEmptySeq
    <3> QED BY <1>3, <2>3, <3>1 DEF start_coredump, Monitor
  <2>5. TodoInv'
    BY <2>4, OthersClean, CleanTodo
  <2>6. Len(todo) = 1 /\ todo[1].do = "start"
    <3>1. Len(<<StartCoredump>>) = 1 /\ <<StartCoredump>>[1] = StartCoredump
      OBVIOUS
    <3> QED BY <2>2, <3>1, Kinds
  <2>7. \A i \in 1..1 : i = 1
    OBVIOUS
  <2>8. \A l \in SettingLines : ~Owed(l)
    BY <2>6, <2>7 DEF Owed, IsSend
  <2> QED BY <1>1, <2>5, <2>8, ThreadSettings
<1> QED BY <1>2, <1>3

LEMMA Places ==
    ASSUME NEW l \in SettingLines
    PROVE  Place(l) \in 1..4 /\ Restored[Place(l)] = KeyOf(l) /\ KeyOf(l) # "inputs"
BY DEF SettingLines, Place, Restored, KeyOf

\* The lines of a key that is restored take its value alone.
LEMMA RestoredLines ==
    ASSUME NEW i \in 1..4
    PROVE  /\ KeysOf(Restored[i]) = <<Restored[i]>>
           /\ Restored[i] \in Keys
           /\ \A m \in 1..Len(Lines[Restored[i]]) : KeyOf(Lines[Restored[i]][m]) = Restored[i]
<1>1. /\ Restored[1] = "global" /\ Restored[2] = "network"
      /\ Restored[3] = "local" /\ Restored[4] = "delay"
  BY DEF Restored
<1>2. /\ Lines["global"] = <<"vol">> /\ Lines["network"] = <<"vnl", "vnr">>
      /\ Lines["local"] = <<"vll", "vlr">> /\ Lines["delay"] = <<"delay">>
  BY DEF Lines
<1>3. ASSUME NEW a, NEW b
      PROVE  /\ Len(<<a>>) = 1 /\ <<a>>[1] = a
             /\ Len(<<a, b>>) = 2 /\ <<a, b>>[1] = a /\ <<a, b>>[2] = b
  OBVIOUS
<1>4. 1..1 = {1} /\ 1..2 = {1, 2}
  OBVIOUS
<1>5. /\ KeyOf("vol") = "global" /\ KeyOf("vnl") = "network" /\ KeyOf("vnr") = "network"
      /\ KeyOf("vll") = "local" /\ KeyOf("vlr") = "local" /\ KeyOf("delay") = "delay"
  BY DEF KeyOf
<1>6. Restored[i] \in Keys /\ KeysOf(Restored[i]) = <<Restored[i]>>
  BY <1>1 DEF Keys, KeysOf
<1>7. CASE i = 1
  <2>1. Len(Lines[Restored[i]]) = 1 /\ Lines[Restored[i]][1] = "vol"
    BY <1>1, <1>2, <1>3, <1>7
  <2> QED BY <1>1, <1>4, <1>5, <1>6, <1>7, <2>1
<1>8. CASE i = 2
  <2>1. /\ Len(Lines[Restored[i]]) = 2 /\ Lines[Restored[i]][1] = "vnl"
        /\ Lines[Restored[i]][2] = "vnr"
    BY <1>1, <1>2, <1>3, <1>8
  <2> QED BY <1>1, <1>4, <1>5, <1>6, <1>8, <2>1
<1>9. CASE i = 3
  <2>1. /\ Len(Lines[Restored[i]]) = 2 /\ Lines[Restored[i]][1] = "vll"
        /\ Lines[Restored[i]][2] = "vlr"
    BY <1>1, <1>2, <1>3, <1>9
  <2> QED BY <1>1, <1>4, <1>5, <1>6, <1>9, <2>1
<1>10. CASE i = 4
  <2>1. Len(Lines[Restored[i]]) = 1 /\ Lines[Restored[i]][1] = "delay"
    BY <1>1, <1>2, <1>3, <1>10
  <2> QED BY <1>1, <1>4, <1>5, <1>6, <1>10, <2>1
<1> QED BY <1>7, <1>8, <1>9, <1>10

\* A start takes a value from the database or its default, or passes over it.
LEMMA RestoreSettings ==
    TypeInv /\ CallInv /\ SettingInv /\ init_hw_values => SettingInv'
<1> SUFFICES ASSUME TypeInv, CallInv, SettingInv, init_hw_values PROVE SettingInv'
  OBVIOUS
<1> DEFINE i == Head(todo).what
           k == Restored[i]
           rest == IF i < Len(Restored) THEN <<Restore(i + 1)>> ELSE <<>>
           s == SendAll(k, hardware_value(k))
<1>1. /\ todo' = IF hardware_value(k) = Unset THEN rest ELSE s \o rest
      /\ First("restore") /\ up /\ UNCHANGED <<up, db, wire, reg>> /\ Work
  BY DEF init_hw_values, First, disk, port, service, CallInv
<1>2. /\ Head(todo) \in Things /\ Head(todo).do = "restore" /\ Head(todo) = todo[1]
      /\ Len(todo) \in Nat /\ Len(todo) > 0
  BY <1>1, FirstThing
<1>3. i \in 1..4
  BY <1>2, ThingKinds
<1>4. Len(todo) = 1
  <2>1. 1 \in 1..Len(todo) /\ ~IsPlain(todo[1])
    BY <1>2 DEF IsPlain
  <2>2. Tame(todo)
    BY <1>1, WorkHead
  <2> QED BY <2>1, <2>2 DEF Tame
<1>5. \A l \in SettingLines : Owed(l) => i <= Place(l)
  <2>1. \A j \in 1..1 : j = 1
    OBVIOUS
  <2>2. todo[1].do = "restore" /\ todo[1].what = i
    BY <1>2
  <2> HIDE DEF i
  <2> QED BY <1>4, <2>1, <2>2 DEF Owed, IsSend
<1> DEFINE n == Len(rest)
<1>6. /\ rest \in Seq(Things) /\ n \in {0, 1}
      /\ i < 4 => n = 1 /\ rest[1].do = "restore" /\ rest[1].what = i + 1
      /\ n = 1 => i < 4
  <2>1. Len(Restored) = 4
    BY DEF Restored
  <2>2. CASE i < 4
    <3>1. i + 1 \in 1..4
      BY <1>3, <2>2
    <3>2. Restore(i + 1) \in Things /\ Restore(i + 1).do = "restore"
          /\ Restore(i + 1).what = i + 1
      <4>1. Restore(i + 1).do = "restore" /\ Restore(i + 1).what = i + 1
        BY DEF Restore
      <4> QED BY <3>1, <4>1, SendIsThing
    <3>3. rest = <<Restore(i + 1)>>
      BY <2>1, <2>2
    <3> DEFINE t == Restore(i + 1)
    <3> HIDE DEF t, i
    <3>4. Len(<<t>>) = 1 /\ <<t>>[1] = t
      OBVIOUS
    <3>5. <<t>> \in Seq(Things)
      BY <3>2, Tuples DEF t
    <3> QED BY <2>2, <3>2, <3>3, <3>4, <3>5 DEF t
  <2>3. CASE ~(i < 4)
    <3>1. rest = <<>>
      BY <2>1, <2>3
    <3>2. Len(<<>>) = 0
      OBVIOUS
    <3> QED BY <2>3, <3>1, <3>2, EmptySeq
  <2> QED BY <2>2, <2>3
<1>7. k \in Keys /\ KeysOf(k) = <<k>>
      /\ \A m \in 1..Len(Lines[k]) : KeyOf(Lines[k][m]) = k
  BY <1>3, RestoredLines
<1>8. CASE hardware_value(k) = Unset
  <2>1. todo' = rest
    BY <1>1, <1>8
  <2> HIDE DEF rest
  <2>2. Clean(todo')
    <3>1. \A j \in 1..n : j = 1 /\ n = 1
      <4>1. n \in {0, 1}
        BY <1>6
      <4> HIDE DEF n
      <4> QED BY <4>1
    <3> QED BY <1>6, <2>1, <3>1 DEF Clean, IsSend
  <2>3. TodoInv'
    BY <2>2, CleanTodo
  <2>4. ASSUME NEW l \in SettingLines, Owed(l) PROVE Settled(l) \/ Owed(l)'
    <3>1. i <= Place(l) /\ Place(l) \in 1..4
      BY <1>5, <2>4, Places
    <3>2. CASE i = Place(l)
      <4>1. KeyOf(l) = k
        BY <3>2, Places
      <4> QED BY <1>8, <4>1 DEF Settled
    <3>3. CASE i # Place(l)
      <4>1. i < 4 /\ i + 1 <= Place(l)
        BY <1>3, <3>1, <3>3
      <4>2. 1 \in 1..n
        BY <1>6, <4>1
      <4> QED BY <1>6, <2>1, <4>1, <4>2 DEF Owed
    <3> QED BY <3>2, <3>3
  <2> QED BY <1>1, <2>3, <2>4, ThreadSettings
<1>9. CASE hardware_value(k) # Unset
  <2>1. hardware_value(k) \in Numbers
    BY <1>3, RestoredValue DEF TypeInv
  <2> DEFINE r == Len(Lines[k])
  <2>2. /\ s \in Seq(Things) /\ Len(s) = r /\ r \in Nat
        /\ \A m \in 1..r : /\ s[m] = Send(Lines[k][m], hardware_value(k))
                           /\ Lines[k][m] \in SettingLines
    BY <1>7, <2>1, SendAllIsThings, SendAllParts
  <2>3. todo' = s \o rest
    BY <1>1, <1>9
  <2>4. \A m \in 1..r : /\ s[m].do = "send" /\ s[m].what = Lines[k][m]
                        /\ s[m].value = hardware_value(k)
    BY <2>2, Kinds
  <2>5. \A l \in SettingLines : KeyOf(l) = k => \E m \in 1..r : Lines[k][m] = l
    <3>1. Len(<<k>>) = 1 /\ <<k>>[1] = k /\ 1 \in 1..1
      OBVIOUS
    <3>2. \A l \in SettingLines : KeyOf(l) = k => KeysOf(k)[1] \in KeysFor(l)
      BY <1>7, <3>1 DEF KeysFor
    <3>3. \A p \in 1..Len(KeysOf(k)), l \in SettingLines :
             KeysOf(k)[p] \in KeysFor(l) => \E m \in 1..Len(Lines[k]) : Lines[k][m] = l
      BY <1>7, KeysAndLines
    <3> HIDE DEF k
    <3> QED BY <1>7, <3>1, <3>2, <3>3
  <2> HIDE DEF s, rest, n, r, k, i
  <2>6. rest \in Seq(Things) /\ Len(rest) = n
    BY <1>6 DEF n
  <2>7. /\ Len(todo') = r + n
        /\ \A j \in 1..(r + n) : todo'[j] = IF j <= r THEN s[j] ELSE rest[j - r]
    <3>1. s \in Seq(Things)
      BY <2>2
    <3>2. /\ Len(s \o rest) = Len(s) + Len(rest)
          /\ \A j \in 1..(Len(s) + Len(rest)) :
                (s \o rest)[j] = IF j <= Len(s) THEN s[j] ELSE rest[j - Len(s)]
      BY <2>6, <3>1, ConcatProperties
    <3> QED BY <2>2, <2>3, <2>6, <3>2
  <2>8. ASSUME NEW j \in 1..(r + n)
        PROVE  \/ j \in 1..r /\ todo'[j] = s[j]
               \/ j = r + 1 /\ n = 1 /\ todo'[j] = rest[1]
    <3>1. CASE j <= r
      BY <2>2, <2>7, <3>1
    <3>2. CASE ~(j <= r)
      <4>1. n = 1 /\ j = r + 1 /\ j - r = 1
        BY <1>6, <2>2, <3>2
      <4> QED BY <2>7, <3>2, <4>1
    <3> QED BY <3>1, <3>2
  <2>9. \A j \in 1..(r + n) : todo'[j].do \in {"send", "restore"}
    BY <1>6, <2>4, <2>8
  <2>10. SendsRight'
    <3> SUFFICES ASSUME NEW j \in 1..(r + n), NEW l \in SettingLines, IsSend(todo'[j], l)
                 PROVE  todo'[j].value \in Target(l)'
      BY <2>7 DEF SendsRight, IsSend
    <3>1. j \in 1..r /\ todo'[j] = s[j]
      BY <1>6, <2>8 DEF IsSend
    <3>2. Lines[k][j] = l /\ todo'[j].value = hardware_value(k)
      BY <2>4, <3>1 DEF IsSend
    <3>3. KeyOf(l) = k
      BY <1>7, <3>1, <3>2 DEF r
    <3>4. Target(l)' = Target(l)
      BY <1>1 DEF Target, hardware_value
    <3>5. hardware_value(k) \in Target(l)
      BY <1>9, <3>3 DEF Target
    <3> QED BY <3>2, <3>4, <3>5
  <2>11. Uniform' /\ SavesSent'
    BY <2>7, <2>9 DEF Uniform, SavesSent
  <2>12. ASSUME NEW l \in SettingLines, Owed(l) PROVE Owed(l)'
    <3>1. i <= Place(l) /\ Place(l) \in 1..4
      BY <1>5, <2>12, Places
    <3>2. CASE i = Place(l)
      <4>1. KeyOf(l) = k
        BY <3>2, Places DEF k
      <4>2. PICK m \in 1..r : Lines[k][m] = l
        BY <2>5, <4>1
      <4>3. m \in 1..(r + n) /\ m <= r
        BY <1>6, <2>2
      <4>4. IsSend(todo'[m], l)
        BY <2>4, <2>7, <4>2, <4>3 DEF IsSend
      <4> QED BY <2>7, <4>3, <4>4 DEF Owed, IsSend
    <3>3. CASE i # Place(l)
      <4>1. i < 4 /\ i + 1 <= Place(l)
        BY <1>3, <3>1, <3>3
      <4>2. n = 1 /\ r + 1 \in 1..(r + n) /\ ~(r + 1 <= r) /\ (r + 1) - r = 1
        BY <1>6, <2>2, <4>1
      <4>3. todo'[r + 1] = rest[1]
        BY <2>7, <4>2
      <4> QED BY <1>6, <2>7, <4>1, <4>2, <4>3 DEF Owed
    <3> QED BY <3>2, <3>3
  <2>13. TodoInv'
    BY <2>10, <2>11 DEF TodoInv
  <2> QED BY <1>1, <2>12, <2>13, ThreadSettings
<1> QED BY <1>8, <1>9

\* The hangup of the reader's thread, and the service's steps.
LEMMA LineSettings ==
    ASSUME SettingInv, UNCHANGED <<up, todo, db>>,
           \A l \in SettingLines : \A q : Said(l, q) => Said(l, q)'
    PROVE  SettingInv'
<1>1. TodoInv'
  BY DEF SettingInv, TodoInv, SendsRight, Uniform, SavesSent, Target, hardware_value,
         IsSend
<1>2. \A l \in SettingLines : Settled(l) => Settled(l)'
  BY SettledStays
<1>3. \A l \in SettingLines : Owed(l) => Owed(l)'
  BY DEF Owed, IsSend
<1> QED BY <1>1, <1>2, <1>3 DEF SettingInv

LEMMA HangupSettings == TypeInv /\ SettingInv /\ hangup_all => SettingInv'
<1> SUFFICES ASSUME TypeInv, SettingInv, hangup_all PROVE SettingInv'
  OBVIOUS
<1> DEFINE x == [line |-> "hangup", value |-> Unset]
<1>1. UNCHANGED <<up, todo, db, reg>> /\ wire' = Append(wire, x)
  BY DEF hangup_all, process, disk, service
<1>2. x \in Line /\ wire \in Seq(Line)
  BY SomeNumbers, SomeWords DEF Line, TypeInv
<1>3. \A l \in SettingLines : x.line # l
  BY DEF SettingLines
<1> HIDE DEF x
<1>4. \A l \in SettingLines : \A q : Said(l, q) => Said(l, q)'
  BY <1>1, <1>2, <1>3, LastStays DEF Said
<1> QED BY <1>1, <1>4, LineSettings

LEMMA ObeySettings == TypeInv /\ SettingInv /\ Obey => SettingInv'
<1> SUFFICES ASSUME TypeInv, SettingInv, Obey PROVE SettingInv'
  OBVIOUS
<1> DEFINE h == Head(wire)
<1>1. UNCHANGED <<up, todo, db>> /\ wire' = Tail(wire) /\ wire # <<>>
  BY DEF Obey, process, disk
<1>2. /\ wire \in Seq(Line) /\ Len(wire') = Len(wire) - 1
      /\ Len(wire) \in Nat /\ Len(wire) > 0
  BY <1>1, FirstLine DEF TypeInv
<1>3. \A l \in SettingLines : reg'[l] = IF h.line = l THEN h.value ELSE reg[l]
  <2>1. reg \in [ValueLines -> Numbers]
    BY DEF TypeInv, TypeOK
  <2>2. reg' = IF h.line \in ValueLines THEN [reg EXCEPT ![h.line] = h.value] ELSE reg
    BY DEF Obey
  <2>3. SettingLines \subseteq ValueLines
    BY DEF SettingLines, ValueLines
  <2> QED BY <2>1, <2>2, <2>3
<1> HIDE DEF h
<1>4. \A l \in SettingLines : \A q : Said(l, q) => Said(l, q)'
  <2>1. Len(wire) \in 1..Len(wire) /\ Len(wire) - 1 = Len(wire')
    BY <1>2
  <2> SUFFICES ASSUME NEW l \in SettingLines, NEW q, Said(l, q)
               PROVE  LastIs(wire', reg', Len(wire'), l, q)
    BY DEF Said
  <2>2. LastIs(wire, reg, Len(wire), l, q)
    BY DEF Said
  <2>3. LastIs(Tail(wire), reg', Len(wire) - 1, l, q)
    BY <1>1, <1>2, <1>3, <2>1, <2>2, LastTaken DEF h
  <2> QED BY <1>1, <2>1, <2>3
<1> QED BY <1>1, <1>4, LineSettings

LEMMA EndSettings == EndTpx => SettingInv'
<1> SUFFICES ASSUME EndTpx PROVE SettingInv'
  OBVIOUS
<1>1. up' = FALSE /\ todo' = <<>>
  BY DEF EndTpx
<1>2. TodoInv'
  BY <1>1, OthersClean, CleanTodo
<1> QED BY <1>1, <1>2 DEF SettingInv

LEMMA InitSettings == Init => SettingInv
<1> SUFFICES ASSUME Init PROVE SettingInv
  OBVIOUS
<1>1. up = FALSE /\ todo = <<>>
  BY DEF Init
<1>2. SendsRight /\ Uniform /\ SavesSent
  BY <1>1 DEF SendsRight, Uniform, SavesSent
<1> QED BY <1>1, <1>2 DEF SettingInv, TodoInv

LEMMA NextSettings ==
    TypeInv /\ CallInv /\ SettingInv /\ [Next]_vars => SettingInv'
<1> SUFFICES ASSUME TypeInv, CallInv, SettingInv, [Next]_vars PROVE SettingInv'
  OBVIOUS
<1>1. CASE UNCHANGED vars \/ SyncFails
  <2>1. UNCHANGED <<up, todo, db, wire, reg>>
    BY <1>1 DEF vars, SyncFails, process, disk, port, service
  <2>2. \A l \in SettingLines : \A q : Said(l, q) => Said(l, q)'
    BY <2>1 DEF Said
  <2> QED BY <2>1, <2>2, LineSettings
<1>2. ASSUME NEW v \in {"bp", "fpga"}, Version(v) PROVE SettingInv'
  <2>1. UNCHANGED <<up, todo, db, wire, reg>>
    BY <1>2 DEF Version, service
  <2>2. \A l \in SettingLines : \A q : Said(l, q) => Said(l, q)'
    BY <2>1 DEF Said
  <2> QED BY <2>1, <2>2, LineSettings
<1>3. CASE Crash
  BY <1>3, EndSettings DEF Crash
<1>4. ASSUME NEW v \in [{"bp", "fpga"} -> Versions], RestartService(v)
      PROVE  SettingInv'
  BY <1>4, EndSettings DEF RestartService
<1>5. CASE reset_allow \/ start_coredump
  BY <1>5, FlagSettings
<1> QED BY <1>1, <1>2, <1>3, <1>4, <1>5, StartSettings, MessageSettings,
           SendSettings, SaveSettings, RestoreSettings, HangupSettings,
           ObeySettings DEF Next

\* When all is said, the service has the values of the database, or the
\* defaults for want of one, wherever TPX or the service was cut before; a fader
\* of an input has the input's volume or the local one's (ipc.clj:27, 72).
THEOREM SettingsKept == Spec => []ServiceHasSettings
<1>1. SettingInv => ServiceHasSettings
  <2> SUFFICES ASSUME SettingInv, Quiet
               PROVE  ServiceHasSettings
    BY DEF ServiceHasSettings
  <2>1. up /\ todo = <<>> /\ wire = <<>>
    BY DEF Quiet
  <2>2. \A l \in SettingLines : Settled(l)
    BY <2>1 DEF SettingInv, Owed
  <2>3. \A l \in SettingLines :
           hardware_value(KeyOf(l)) # Unset => reg[l] \in Target(l)
    BY <2>1, <2>2 DEF Settled, Said, LastIs
  <2>4. ASSUME NEW k \in {"global", "network", "delay"},
               hardware_value(k) # Unset, NEW i \in DOMAIN Lines[k]
        PROVE  reg[Lines[k][i]] \in {db[k], hardware_value(k)} \ {Unset}
    <3>1. k \in Keys \cup {"inputs"}
      BY DEF Keys
    <3>2. Lines[k][i] \in SettingLines /\ i \in 1..Len(Lines[k])
      BY <3>1, LinesOfKey, LenProperties, ElementOfSeq DEF SettingLines
    <3>3. \E p \in 1..4 : k = Restored[p]
      <4>1. Restored[1] = "global" /\ Restored[2] = "network" /\ Restored[4] = "delay"
        BY DEF Restored
      <4> QED BY <4>1
    <3>4. KeyOf(Lines[k][i]) = k
      BY <3>2, <3>3, RestoredLines
    <3>5. InputOf(Lines[k][i]) = k
      BY <3>2, <3>4 DEF InputOf, KeyOf
    <3> QED BY <2>3, <2>4, <3>2, <3>4, <3>5 DEF Target
  <2>5. ASSUME hardware_value("local") # Unset
        PROVE  /\ reg["vlr"] \in {hardware_value("local"), db["input1"]} \ {Unset}
               /\ reg["vll"] \in {hardware_value("local"), db["input2"]} \ {Unset}
    <3>1. /\ KeyOf("vlr") = "local" /\ InputOf("vlr") = "input1"
          /\ KeyOf("vll") = "local" /\ InputOf("vll") = "input2"
      BY DEF KeyOf, InputOf
    <3>2. db["local"] \in {hardware_value("local"), Unset}
      BY DEF hardware_value
    <3>3. "vlr" \in SettingLines /\ "vll" \in SettingLines
      BY DEF SettingLines
    <3> QED BY <2>3, <2>5, <3>1, <3>2, <3>3 DEF Target
  <2> QED BY <2>4, <2>5 DEF ServiceHasSettings
<1> QED BY <1>1, InitTypes, NextTypes, InitCalls, NextCalls, InitSettings,
           NextSettings, PTL DEF Spec

=============================================================================
