------------------------- MODULE PreswapPoolProofs --------------------------
(***************************************************************************)
(* The inductive invariant of the responder pool, for every set of pairs,  *)
(* number of workers, queue bound, retry bound and mode.  The channels are *)
(* sequences: what the steps need of them is stated once, as lemmas about  *)
(* the frames of a channel and about their order.                          *)
(***************************************************************************)
EXTENDS PreswapPool, FiniteSetTheorems, SequenceTheorems, WellFoundedInduction, TLAPS

Channel == Seq(Frame)

Terminal == {"ABORT", "BADSTATUS", "DONE"}

(* No two frames of a worker's channel are assignments. *)
OneAssign(ch) ==
    \A i, j \in DOMAIN ch : ch[i].type = "ASSIGN" /\ ch[j].type = "ASSIGN" => i = j

(* The terminal frame of a session is the last one a worker sent. *)
EndLast(ch) == \A i \in DOMAIN ch : ch[i].type \in Terminal => i = Len(ch)

(* After its FINAL an initiator sends nothing but queries. *)
FinalThenQueries(ch) ==
    \A i, j \in DOMAIN ch : i < j /\ ch[i].type = "FINAL" => ch[j].type = "QUERY"

NoAssign(ch) == \A f \in Range(ch) : f.type # "ASSIGN"
NoEnd(ch) == \A f \in Range(ch) : f.type \notin Terminal

-----------------------------------------------------------------------------
(* Channels *)

(* The frames the processes build are frames. *)
LEMMA FrameFacts ==
    /\ \A p \in Pairs : /\ F("ASSIGN", p) \in Frame /\ F("INIT", p) \in Frame
                        /\ F("ACK", p) \in Frame /\ F("DONE", p) \in Frame
                        /\ F("ABORT", p) \in Frame /\ F("BADSTATUS", p) \in Frame
                        /\ F("STATUS", p) \in Frame /\ F("NONCE", p) \in Frame
                        /\ F("FINAL", p) \in Frame /\ F("QUERY", p) \in Frame
                        /\ F("COMMIT", p) \in Frame /\ F("OPEN", p) \in Frame
    /\ F("SHUTDOWN", NoPair) \in Frame /\ F("REGISTER", NoPair) \in Frame
    /\ \A type, p : F(type, p).type = type /\ F(type, p).pair = p
  BY DEF F, Frame, ClientFrame, ReplyFrame, GatewayFrame

(* A channel of no, one or two frames holds just them. *)
LEMMA ShortChannels ==
    /\ << >> \in Channel /\ Range(<< >>) = {}
    /\ \A f \in Frame : <<f>> \in Channel /\ Range(<<f>>) = {f} /\ Len(<<f>>) = 1
    /\ \A f, g \in Frame : <<f, g>> \in Channel /\ Range(<<f, g>>) = {f, g}
<1>1. ASSUME NEW f \in Frame
      PROVE  <<f>> \in Channel /\ Range(<<f>>) = {f} /\ Len(<<f>>) = 1
  BY DEF Channel, Range
<1>2. ASSUME NEW f \in Frame, NEW g \in Frame
      PROVE  <<f, g>> \in Channel /\ Range(<<f, g>>) = {f, g}
  BY DEF Channel, Range
<1>3. << >> \in Channel /\ Range(<< >>) = {}
  BY DEF Channel, Range
<1> QED
  BY <1>1, <1>2, <1>3

(* The index of a frame in its channel. *)
LEMMA FrameIndex ==
    ASSUME NEW ch \in Channel
    PROVE  /\ DOMAIN ch = 1 .. Len(ch) /\ Len(ch) \in Nat
           /\ \A i \in DOMAIN ch : ch[i] \in Frame /\ ch[i] \in Range(ch)
           /\ \A f \in Range(ch) : \E i \in DOMAIN ch : f = ch[i]
           /\ Range(ch) \subseteq Frame
<1>1. DOMAIN ch = 1 .. Len(ch) /\ Len(ch) \in Nat /\ ch \in [1 .. Len(ch) -> Frame]
  BY LenProperties DEF Channel
<1> QED
  BY <1>1 DEF Range

(* Reading the head of a channel. *)
LEMMA ReadHead ==
    ASSUME NEW ch \in Channel, ch # << >>
    PROVE  /\ Head(ch) \in Frame /\ Head(ch) \in Range(ch) /\ Head(ch) = ch[1]
           /\ Tail(ch) \in Channel /\ Range(Tail(ch)) \subseteq Range(ch)
           /\ Len(Tail(ch)) = Len(ch) - 1 /\ Len(ch) \in Nat \ {0}
           /\ DOMAIN Tail(ch) = 1 .. Len(ch) - 1
           /\ \A i \in DOMAIN Tail(ch) : i + 1 \in DOMAIN ch /\ Tail(ch)[i] = ch[i + 1]
<1>1. /\ DOMAIN ch = 1 .. Len(ch) /\ Len(ch) \in Nat \ {0}
  BY FrameIndex, EmptySeq DEF Channel
<1>2. /\ Head(ch) \in Frame /\ Tail(ch) \in Channel
      /\ Len(Tail(ch)) = Len(ch) - 1
      /\ \A i \in 1 .. Len(Tail(ch)) : Tail(ch)[i] = ch[i + 1]
  BY HeadTailProperties DEF Channel
<1>3. Head(ch) = ch[1]
  <2>1. 1 \in 1 .. Len(ch) /\ Len(ch) \in 1 .. Len(ch)
    BY <1>1
  <2>2. SubSeq(ch, 1, Len(ch)) = ch
    BY SubSeqFull DEF Channel
  <2>3. Head(SubSeq(ch, 1, Len(ch))) = ch[1]
    BY <2>1, HeadTailOfSubSeq DEF Channel
  <2> QED
    BY <2>2, <2>3
<1>4. DOMAIN Tail(ch) = 1 .. Len(ch) - 1
  BY <1>2, FrameIndex
<1>5. \A i \in DOMAIN Tail(ch) : i + 1 \in DOMAIN ch /\ Tail(ch)[i] = ch[i + 1]
  BY <1>1, <1>2, <1>4
<1>6. Range(Tail(ch)) \subseteq Range(ch)
  BY <1>5 DEF Range
<1>7. Head(ch) \in Range(ch)
  BY <1>1, <1>3, FrameIndex
<1> QED
  BY <1>1, <1>2, <1>3, <1>4, <1>5, <1>6, <1>7

(* Sending frames. *)
LEMMA SendFrames ==
    ASSUME NEW ch \in Channel, NEW new \in Channel
    PROVE  /\ ch \o new \in Channel
           /\ Range(ch \o new) = Range(ch) \cup Range(new)
           /\ Len(ch \o new) = Len(ch) + Len(new)
           /\ DOMAIN (ch \o new) = 1 .. Len(ch) + Len(new)
           /\ \A i \in 1 .. Len(ch) : i \in DOMAIN ch /\ (ch \o new)[i] = ch[i]
           /\ \A i \in DOMAIN (ch \o new) :
                i > Len(ch) => i - Len(ch) \in DOMAIN new /\ (ch \o new)[i] = new[i - Len(ch)]
<1> DEFINE all == ch \o new
<1>1. /\ DOMAIN ch = 1 .. Len(ch) /\ Len(ch) \in Nat
      /\ DOMAIN new = 1 .. Len(new) /\ Len(new) \in Nat
  BY FrameIndex
<1>2. /\ all \in Channel /\ Len(all) = Len(ch) + Len(new)
      /\ \A i \in 1 .. Len(ch) + Len(new) :
           all[i] = IF i <= Len(ch) THEN ch[i] ELSE new[i - Len(ch)]
  BY ConcatProperties DEF Channel
<1>3. DOMAIN all = 1 .. Len(ch) + Len(new)
  BY <1>2, FrameIndex
<1> HIDE DEF all
<1>4. \A i \in 1 .. Len(ch) : i \in DOMAIN ch /\ i \in DOMAIN all /\ all[i] = ch[i]
  BY <1>1, <1>2, <1>3
<1>5. \A i \in DOMAIN all :
        i > Len(ch) => i - Len(ch) \in DOMAIN new /\ all[i] = new[i - Len(ch)]
  BY <1>1, <1>2, <1>3
<1>6. \A i \in DOMAIN new : i + Len(ch) \in DOMAIN all /\ all[i + Len(ch)] = new[i]
  BY <1>1, <1>2, <1>3
<1>7. Range(all) \subseteq Range(ch) \cup Range(new)
  <2> SUFFICES ASSUME NEW i \in DOMAIN all
               PROVE  all[i] \in Range(ch) \cup Range(new)
    BY <1>2, FrameIndex
  <2>1. CASE i <= Len(ch)
    BY <2>1, <1>3, <1>4, <1>1, FrameIndex
  <2>2. CASE i > Len(ch)
    BY <2>2, <1>5, FrameIndex
  <2> QED
    BY <2>1, <2>2, <1>1, <1>3
<1>8. Range(ch) \subseteq Range(all)
  BY <1>1, <1>2, <1>4, FrameIndex
<1>9. Range(new) \subseteq Range(all)
  BY <1>2, <1>6, FrameIndex
<1> QED
  BY <1>2, <1>3, <1>4, <1>5, <1>7, <1>8, <1>9 DEF all

(* What reading and sending do to the order of a worker's assignments. *)
LEMMA AssignOrder ==
    ASSUME NEW ch \in Channel, OneAssign(ch)
    PROVE  /\ ch # << >> => OneAssign(Tail(ch))
           /\ ch # << >> /\ Head(ch).type = "ASSIGN" => NoAssign(Tail(ch))
           /\ \A new \in Channel : NoAssign(new) => OneAssign(ch \o new)
           /\ \A new \in Channel : NoAssign(ch) /\ OneAssign(new) => OneAssign(ch \o new)
<1>1. ASSUME ch # << >>
      PROVE  OneAssign(Tail(ch))
  <2> SUFFICES ASSUME NEW i \in DOMAIN Tail(ch), NEW j \in DOMAIN Tail(ch),
                      Tail(ch)[i].type = "ASSIGN", Tail(ch)[j].type = "ASSIGN"
               PROVE  i = j
    BY DEF OneAssign
  <2>1. /\ i + 1 \in DOMAIN ch /\ j + 1 \in DOMAIN ch
        /\ ch[i + 1].type = "ASSIGN" /\ ch[j + 1].type = "ASSIGN"
        /\ i \in Int /\ j \in Int
    BY <1>1, ReadHead
  <2>2. i + 1 = j + 1
    BY <2>1 DEF OneAssign
  <2> QED
    BY <2>1, <2>2
<1>2. ASSUME ch # << >>, Head(ch).type = "ASSIGN"
      PROVE  NoAssign(Tail(ch))
  <2> SUFFICES ASSUME NEW i \in DOMAIN Tail(ch), Tail(ch)[i].type = "ASSIGN"
               PROVE  FALSE
    BY DEF NoAssign, Range
  <2>1. /\ i + 1 \in DOMAIN ch /\ ch[i + 1].type = "ASSIGN" /\ i \in 1 .. Len(ch) - 1
        /\ Len(ch) \in Nat /\ Head(ch) = ch[1] /\ 1 \in DOMAIN ch
    BY <1>2, ReadHead, FrameIndex
  <2>2. i + 1 = 1
    BY <1>2, <2>1 DEF OneAssign
  <2> QED
    BY <2>1, <2>2
<1>3. ASSUME NEW new \in Channel
      PROVE  /\ NoAssign(new) => OneAssign(ch \o new)
             /\ NoAssign(ch) /\ OneAssign(new) => OneAssign(ch \o new)
  <2> DEFINE all == ch \o new
  <2> SUFFICES ASSUME NEW i \in DOMAIN all, NEW j \in DOMAIN all,
                      all[i].type = "ASSIGN", all[j].type = "ASSIGN"
               PROVE  (NoAssign(new) => i = j) /\ (NoAssign(ch) /\ OneAssign(new) => i = j)
    BY DEF OneAssign
  <2>0. Len(ch) \in Nat /\ i \in Nat /\ j \in Nat /\ i >= 1 /\ j >= 1
    <3>1. DOMAIN all = 1 .. Len(ch) + Len(new)
      BY SendFrames
    <3>2. Len(ch) \in Nat /\ Len(new) \in Nat
      BY FrameIndex
    <3> HIDE DEF all
    <3> QED
      BY <3>1, <3>2
  <2> DEFINE Old(k) == k \in DOMAIN ch /\ all[k] = ch[k] /\ all[k] \in Range(ch)
             New(k) == k - Len(ch) \in DOMAIN new /\ all[k] = new[k - Len(ch)] /\ all[k] \in Range(new)
  <2>1. (i <= Len(ch) => Old(i)) /\ (j <= Len(ch) => Old(j))
    <3>1. \A k \in 1 .. Len(ch) : k \in DOMAIN ch /\ all[k] = ch[k]
      BY SendFrames
    <3> QED
      BY <2>0, <3>1, FrameIndex
  <2>2. (i > Len(ch) => New(i)) /\ (j > Len(ch) => New(j))
    <3>1. \A k \in DOMAIN all :
            k > Len(ch) => k - Len(ch) \in DOMAIN new /\ all[k] = new[k - Len(ch)]
      BY SendFrames
    <3> QED
      BY <2>0, <3>1, FrameIndex
  <2> HIDE DEF all
  <2>3. ASSUME NoAssign(new)
        PROVE  i = j
    <3>1. i <= Len(ch) /\ j <= Len(ch)
      BY <2>0, <2>2, <2>3 DEF NoAssign
    <3> QED
      BY <2>1, <3>1 DEF OneAssign
  <2>4. ASSUME NoAssign(ch), OneAssign(new)
        PROVE  i = j
    <3>1. i > Len(ch) /\ j > Len(ch)
      BY <2>0, <2>1, <2>4 DEF NoAssign
    <3>2. i - Len(ch) = j - Len(ch)
      BY <2>2, <2>4, <3>1 DEF OneAssign
    <3> QED
      BY <2>0, <3>2
  <2> QED
    BY <2>3, <2>4
<1> QED
  BY <1>1, <1>2, <1>3

(* The terminal frame stays the last one, and nothing is left behind it. *)
LEMMA EndOrder ==
    ASSUME NEW ch \in Channel, EndLast(ch)
    PROVE  /\ ch # << >> => EndLast(Tail(ch))
           /\ ch # << >> /\ Head(ch).type \in Terminal => Range(Tail(ch)) = {}
           /\ \A new \in Channel : NoEnd(ch) /\ EndLast(new) => EndLast(ch \o new)
<1>1. ASSUME ch # << >>
      PROVE  EndLast(Tail(ch))
  <2> SUFFICES ASSUME NEW i \in DOMAIN Tail(ch), Tail(ch)[i].type \in Terminal
               PROVE  i = Len(Tail(ch))
    BY DEF EndLast
  <2>1. i + 1 \in DOMAIN ch /\ ch[i + 1].type \in Terminal /\ i \in Int
    BY <1>1, ReadHead
  <2>2. i + 1 = Len(ch)
    BY <2>1 DEF EndLast
  <2> QED
    BY <1>1, <2>1, <2>2, ReadHead
<1>2. ASSUME ch # << >>, Head(ch).type \in Terminal
      PROVE  Range(Tail(ch)) = {}
  <2>1. Head(ch) = ch[1] /\ 1 \in DOMAIN ch /\ Len(ch) \in Nat
        /\ DOMAIN Tail(ch) = 1 .. Len(ch) - 1
    BY <1>2, ReadHead, FrameIndex
  <2>2. Len(ch) = 1
    BY <1>2, <2>1 DEF EndLast
  <2> QED
    BY <2>1, <2>2 DEF Range
<1>3. ASSUME NEW new \in Channel, NoEnd(ch), EndLast(new)
      PROVE  EndLast(ch \o new)
  <2> DEFINE all == ch \o new
  <2> SUFFICES ASSUME NEW i \in DOMAIN all, all[i].type \in Terminal
               PROVE  i = Len(all)
    BY DEF EndLast
  <2>0. /\ Len(ch) \in Nat /\ Len(new) \in Nat /\ i \in Nat /\ i >= 1
        /\ Len(all) = Len(ch) + Len(new)
    BY SendFrames, FrameIndex
  <2>1. i > Len(ch)
    <3>1. \A k \in 1 .. Len(ch) : k \in DOMAIN ch /\ all[k] = ch[k]
      BY SendFrames
    <3> QED
      BY <1>3, <2>0, <3>1, FrameIndex DEF NoEnd
  <2>2. i - Len(ch) \in DOMAIN new /\ all[i] = new[i - Len(ch)]
    BY <2>1, SendFrames
  <2>3. i - Len(ch) = Len(new)
    BY <1>3, <2>2 DEF EndLast
  <2> QED
    BY <2>0, <2>3
<1> QED
  BY <1>1, <1>2, <1>3

(* Behind a FINAL there is room for queries only. *)
LEMMA FinalOrder ==
    ASSUME NEW ch \in Channel, FinalThenQueries(ch)
    PROVE  /\ ch # << >> => FinalThenQueries(Tail(ch))
           /\ ch # << >> /\ Head(ch).type = "FINAL" =>
                 \A f \in Range(Tail(ch)) : f.type = "QUERY"
           /\ \A f \in Frame :
                 (f.type = "QUERY" \/ \A g \in Range(ch) : g.type # "FINAL") =>
                    FinalThenQueries(ch \o <<f>>)
<1>1. ASSUME ch # << >>
      PROVE  FinalThenQueries(Tail(ch))
  <2> SUFFICES ASSUME NEW i \in DOMAIN Tail(ch), NEW j \in DOMAIN Tail(ch),
                      i < j, Tail(ch)[i].type = "FINAL"
               PROVE  Tail(ch)[j].type = "QUERY"
    BY DEF FinalThenQueries
  <2>1. /\ i + 1 \in DOMAIN ch /\ j + 1 \in DOMAIN ch /\ i \in Int /\ j \in Int
        /\ ch[i + 1].type = "FINAL" /\ Tail(ch)[j] = ch[j + 1]
    BY <1>1, ReadHead
  <2>2. i + 1 < j + 1
    BY <2>1
  <2> QED
    BY <2>1, <2>2 DEF FinalThenQueries
<1>2. ASSUME ch # << >>, Head(ch).type = "FINAL"
      PROVE  \A f \in Range(Tail(ch)) : f.type = "QUERY"
  <2> SUFFICES ASSUME NEW i \in DOMAIN Tail(ch)
               PROVE  Tail(ch)[i].type = "QUERY"
    BY DEF Range
  <2>1. /\ i + 1 \in DOMAIN ch /\ Tail(ch)[i] = ch[i + 1] /\ i \in 1 .. Len(ch) - 1
        /\ Len(ch) \in Nat /\ Head(ch) = ch[1] /\ 1 \in DOMAIN ch
    BY <1>2, ReadHead, FrameIndex
  <2>2. 1 < i + 1
    BY <2>1
  <2> QED
    BY <1>2, <2>1, <2>2 DEF FinalThenQueries
<1>3. ASSUME NEW f \in Frame, f.type = "QUERY" \/ \A g \in Range(ch) : g.type # "FINAL"
      PROVE  FinalThenQueries(ch \o <<f>>)
  <2> DEFINE new == <<f>>
             all == ch \o new
  <2>0. new \in Channel /\ Len(new) = 1 /\ new[1] = f
    BY ShortChannels
  <2> HIDE DEF new
  <2> SUFFICES ASSUME NEW i \in DOMAIN all, NEW j \in DOMAIN all,
                      i < j, all[i].type = "FINAL"
               PROVE  all[j].type = "QUERY"
    BY DEF FinalThenQueries, new
  <2>1. Len(ch) \in Nat /\ DOMAIN all = 1 .. Len(ch) + 1 /\ DOMAIN ch = 1 .. Len(ch)
    <3>1. DOMAIN all = 1 .. Len(ch) + Len(new)
      BY <2>0, SendFrames
    <3> QED
      BY <2>0, <3>1, FrameIndex
  <2>2. /\ i \in DOMAIN ch /\ all[i] = ch[i] /\ all[i] \in Range(ch)
        /\ j <= Len(ch) => j \in DOMAIN ch /\ all[j] = ch[j]
    <3>1. \A k \in 1 .. Len(ch) : k \in DOMAIN ch /\ all[k] = ch[k]
      BY <2>0, SendFrames
    <3>2. i \in 1 .. Len(ch)
      BY <2>1
    <3>3. all[i] \in Range(ch)
      BY <3>1, <3>2, FrameIndex
    <3> HIDE DEF all
    <3> QED
      BY <2>1, <3>1, <3>2, <3>3
  <2>3. CASE j <= Len(ch)
    BY <2>2, <2>3 DEF FinalThenQueries
  <2>4. CASE j > Len(ch)
    <3>1. j - Len(ch) = 1 /\ all[j] = new[j - Len(ch)]
      BY <2>0, <2>1, <2>4, SendFrames
    <3> QED
      BY <1>3, <2>0, <2>2, <3>1
  <2> QED
    BY <2>1, <2>3, <2>4
<1> QED
  BY <1>1, <1>2, <1>3

-----------------------------------------------------------------------------
(* One worker's session *)

(* A worker inside a session reports to its initiator. *)
Session == {"init", "nonce", "final"}

(* A worker in state pc for a pair, the pair its slot serves, the frames it
   sent and the frames on their way to it: an assignment under way, a session
   and a terminal frame under way exclude each other, and each belongs to the
   pair the slot serves. *)
SessionOk(pc, pair, serves, out, in) ==
    /\ pc \in Session \cup {"ack"} => pair \in Pairs
    /\ pc \in Session => serves = pair /\ NoEnd(out) /\ NoAssign(in)
    /\ \A f \in Range(in) :
         f.type = "ASSIGN" => serves # NoPair /\ f.pair = serves /\ NoEnd(out)
    /\ OneAssign(in)
    /\ EndLast(out)
    /\ \A f \in Range(out) : f.type # "REGISTER" => serves # NoPair /\ f.pair = serves

(* Frames of a session are read, frames that assign nothing are added, and a
   worker may leave a session only towards a state outside it. *)
LEMMA SessionReads ==
    ASSUME NEW pc, NEW pair, NEW serves, NEW out \in Channel, NEW in \in Channel,
           SessionOk(pc, pair, serves, out, in)
    PROVE  /\ out # << >> => SessionOk(pc, pair, serves, Tail(out), in)
           /\ in # << >> => SessionOk(pc, pair, serves, out, Tail(in))
           /\ \A new \in Channel :
                NoAssign(new) => SessionOk(pc, pair, serves, out, in \o new)
           /\ \A other : other \notin Session \cup {"ack"} =>
                SessionOk(other, pair, serves, out, in)
<1>1. ASSUME out # << >>
      PROVE  SessionOk(pc, pair, serves, Tail(out), in)
  <2>1. Range(Tail(out)) \subseteq Range(out)
    BY <1>1, ReadHead
  <2>2. EndLast(Tail(out))
    BY <1>1, EndOrder DEF SessionOk
  <2>3. NoEnd(out) => NoEnd(Tail(out))
    BY <2>1 DEF NoEnd
  <2> QED
    BY <2>1, <2>2, <2>3 DEF SessionOk
<1>2. ASSUME in # << >>
      PROVE  SessionOk(pc, pair, serves, out, Tail(in))
  <2>1. Range(Tail(in)) \subseteq Range(in)
    BY <1>2, ReadHead
  <2>2. OneAssign(Tail(in))
    BY <1>2, AssignOrder DEF SessionOk
  <2> QED
    BY <2>1, <2>2 DEF SessionOk, NoAssign
<1>3. ASSUME NEW new \in Channel, NoAssign(new)
      PROVE  SessionOk(pc, pair, serves, out, in \o new)
  <2>1. Range(in \o new) = Range(in) \cup Range(new)
    BY SendFrames
  <2>2. OneAssign(in \o new)
    <3>1. OneAssign(in)
      BY DEF SessionOk
    <3> QED
      BY <1>3, <3>1, AssignOrder
  <2> QED
    BY <1>3, <2>1, <2>2 DEF SessionOk, NoAssign
<1>4. ASSUME NEW other, other \notin Session \cup {"ack"}
      PROVE  SessionOk(other, pair, serves, out, in)
  BY <1>4 DEF SessionOk
<1> QED
  BY <1>1, <1>2, <1>3, <1>4

(* The gateway relays a terminal frame: the slot is free, with nothing left of
   the session. *)
LEMMA SessionEnds ==
    ASSUME NEW pc, NEW pair, NEW serves, NEW out \in Channel, NEW in \in Channel,
           SessionOk(pc, pair, serves, out, in), out # << >>, Head(out).type \in Terminal
    PROVE  SessionOk(pc, pair, NoPair, Tail(out), in)
<1>1. Range(Tail(out)) = {} /\ EndLast(Tail(out))
  BY EndOrder DEF SessionOk
<1>2. ~ NoEnd(out)
  BY ReadHead DEF NoEnd
<1>3. pc \notin Session /\ NoAssign(in)
  BY <1>2 DEF SessionOk, NoAssign
<1> QED
  BY <1>1, <1>3 DEF SessionOk, NoAssign

(* A free slot takes a new pair, with or without its assignment under way: a
   send to a stopped worker may be lost. *)
LEMMA SessionBegins ==
    ASSUME NEW pc, NEW pair, NEW out \in Channel, NEW in \in Channel,
           SessionOk(pc, pair, NoPair, out, in), NEW q \in Pairs
    PROVE  /\ SessionOk(pc, pair, q, out, in)
           /\ SessionOk(pc, pair, q, out, in \o Assignment(q))
<1>0. q # NoPair
  BY PoolAssumption
<1>1. pc \notin Session /\ NoAssign(in)
  BY PoolAssumption DEF SessionOk, NoAssign
<1>2. \A f \in Range(out) : f.type = "REGISTER"
  BY DEF SessionOk
<1>3. NoEnd(out)
  BY <1>2 DEF NoEnd, Terminal
<1>4. /\ Assignment(q) \in Channel
      /\ Range(Assignment(q)) = {F("ASSIGN", q), F("INIT", q)}
      /\ F("ASSIGN", q).pair = q /\ F("INIT", q).type = "INIT"
  BY ShortChannels, FrameFacts DEF Assignment
<1>5. OneAssign(Assignment(q))
  BY DEF OneAssign, Assignment, F
<1>6. Range(in \o Assignment(q)) = Range(in) \cup {F("ASSIGN", q), F("INIT", q)}
  BY <1>4, SendFrames
<1>7. OneAssign(in \o Assignment(q))
  BY <1>1, <1>4, <1>5, AssignOrder DEF SessionOk
<1> QED
  BY <1>0, <1>1, <1>2, <1>3, <1>4, <1>6, <1>7 DEF SessionOk, NoAssign

(* A worker takes its assignment. *)
LEMMA SessionTaken ==
    ASSUME NEW pc, NEW pair, NEW serves \in Pairs \cup {NoPair},
           NEW out \in Channel, NEW in \in Channel,
           SessionOk(pc, pair, serves, out, in), in # << >>, Head(in).type = "ASSIGN"
    PROVE  SessionOk("init", Head(in).pair, serves, out, Tail(in))
<1>1. NoAssign(Tail(in)) /\ OneAssign(Tail(in))
  BY AssignOrder DEF SessionOk
<1>2. Head(in).pair = serves /\ serves # NoPair /\ NoEnd(out)
  BY ReadHead DEF SessionOk
<1> QED
  BY <1>1, <1>2 DEF SessionOk, NoAssign, Session

(* A worker in a session sends frames of its pair, and leaves the session when
   a terminal frame is the last of them. *)
LEMMA SessionReports ==
    ASSUME NEW pc \in Session, NEW pair, NEW serves, NEW out \in Channel, NEW in \in Channel,
           SessionOk(pc, pair, serves, out, in),
           NEW new \in Channel, \A f \in Range(new) : f.pair = pair,
           EndLast(new), NEW next, next \in Session => NoEnd(new)
    PROVE  SessionOk(next, pair, serves, out \o new, in)
<1>0. \A f \in Range(in) : f.type # "ASSIGN"
  BY DEF SessionOk, NoAssign
<1>1. pair \in Pairs /\ pair # NoPair /\ serves = pair /\ NoEnd(out) /\ NoAssign(in)
  BY PoolAssumption DEF SessionOk
<1>2. Range(out \o new) = Range(out) \cup Range(new)
  BY SendFrames
<1>3. EndLast(out \o new)
  <2>1. EndLast(out)
    BY DEF SessionOk
  <2> QED
    BY <1>1, <2>1, EndOrder
<1>4. NoEnd(new) => NoEnd(out \o new)
  BY <1>1, <1>2 DEF NoEnd
<1>5. \A f \in Range(out \o new) : f.type # "REGISTER" => serves # NoPair /\ f.pair = serves
  BY <1>1, <1>2 DEF SessionOk
<1>6. OneAssign(in)
  BY DEF SessionOk
<1> QED
  BY <1>0, <1>1, <1>3, <1>4, <1>5, <1>6 DEF SessionOk

-----------------------------------------------------------------------------
(* The gateway's tables *)

(* What TypeOK says of the channels, and the constants. *)
LEMMA ChannelTypes ==
    ASSUME TypeOK
    PROVE  /\ fromClient \in [Pairs -> Channel] /\ toClient \in [Pairs -> Channel]
           /\ fromWorker \in [Worker -> Channel] /\ toWorker \in [Worker -> Channel]
  BY DEF TypeOK, Channel

(* What the assumption says of the constants. *)
LEMMA WorkerFacts ==
    /\ W \in Nat \ {0} /\ W \notin Worker /\ Worker \subseteq Nat
    /\ MaxQueue \in Nat /\ Retries \in Nat /\ MaxFaults \in Nat /\ MaxRestarts \in Nat
    /\ NoPair \notin Pairs /\ IsFiniteSet(Pairs)
  BY PoolAssumption DEF Worker

(* find_idle_worker returns a registered worker without a session, the one
   with the smallest index. *)
LEMMA IdleWorkerFound ==
    ASSUME Idle # {}
    PROVE  FindIdleWorker \in Idle
<1>1. Idle \subseteq Nat
  BY WorkerFacts DEF Idle
<1>2. \E w \in Idle : \A v \in Idle : ~ (<<v, w>> \in OpToRel(<, Nat))
  BY <1>1, NatLessThanWellFounded, WFMin
<1>3. \A v, w \in Nat : v < w => <<v, w>> \in OpToRel(<, Nat)
  BY DEF OpToRel
<1>4. PICK w \in Idle : \A v \in Idle : ~ (<<v, w>> \in OpToRel(<, Nat))
  BY <1>2
<1>5. ASSUME NEW v \in Idle
      PROVE  w <= v
  <2>1. v \in Nat /\ w \in Nat /\ ~ (v < w)
    BY <1>1, <1>3, <1>4
  <2> QED
    BY <2>1
<1> QED
  BY <1>5 DEF FindIdleWorker

(* The tables of a running or a failed gateway: the two sides of an assignment
   agree, an unseen route is untouched, the queue lists the waiting routes,
   and nothing waits beside an idle worker. *)
Ended == {p \in Pairs : routes[p].terminal}
Waiting == {p \in Pairs : routes[p].queued /\ ~ routes[p].terminal}

(* The routes and the slots describe the same assignments. *)
AssignmentInv ==
    /\ \A w \in Worker : Busy(w) => Serves(w, slots[w].serves)
    /\ \A p \in Pairs :
         (routes[p].worker # W /\ ~ routes[p].terminal) => slots[routes[p].worker].serves = p
    /\ \A p \in Pairs : routes[p].queued => routes[p].seen /\ routes[p].worker = W
    /\ \A p \in Pairs :
         ~ routes[p].seen => ~ routes[p].terminal /\ routes[p].worker = W

(* The queue holds every waiting route once, within its bound, and only while
   all workers are busy. *)
QueueInv ==
    /\ \A i, j \in DOMAIN queue : queue[i] = queue[j] => i = j
    /\ Range(queue) = Waiting
    /\ queue # << >> => Len(queue) <= MaxQueue /\ \A w \in Worker : Busy(w)

TablesInv == AssignmentInv /\ QueueInv /\ completed = Cardinality(Ended)

(* One more ended route. *)
LEMMA EndedGrows ==
    ASSUME NEW S \in SUBSET Pairs, NEW p \in Pairs \ S
    PROVE  Cardinality(S \cup {p}) = Cardinality(S) + 1
<1>1. IsFiniteSet(S)
  BY FS_Subset, WorkerFacts
<1> QED
  BY <1>1, FS_AddElement

(* The queue is read at its head. *)
LEMMA QueueReads ==
    ASSUME NEW q \in Seq(Pairs), q # << >>,
           \A i, j \in DOMAIN q : q[i] = q[j] => i = j
    PROVE  /\ Head(q) \in Range(q) /\ Head(q) \in Pairs
           /\ Tail(q) \in Seq(Pairs)
           /\ Range(Tail(q)) = Range(q) \ {Head(q)}
           /\ Len(Tail(q)) = Len(q) - 1 /\ Len(q) \in Nat
           /\ \A i, j \in DOMAIN Tail(q) : Tail(q)[i] = Tail(q)[j] => i = j
<1> DEFINE t == Tail(q)
<1>1. DOMAIN q = 1 .. Len(q) /\ Len(q) \in Nat \ {0}
  BY LenProperties, EmptySeq
<1>2. /\ Head(q) \in Pairs /\ t \in Seq(Pairs) /\ Len(t) = Len(q) - 1
      /\ \A i \in 1 .. Len(t) : t[i] = q[i + 1]
  BY HeadTailProperties
<1>3. DOMAIN t = 1 .. Len(q) - 1
  BY <1>2, LenProperties
<1>4. Head(q) = q[1]
  <2>1. 1 \in 1 .. Len(q) /\ Len(q) \in 1 .. Len(q)
    BY <1>1
  <2>2. SubSeq(q, 1, Len(q)) = q
    BY SubSeqFull
  <2>3. Head(SubSeq(q, 1, Len(q))) = q[1]
    BY <2>1, HeadTailOfSubSeq
  <2> QED
    BY <2>2, <2>3
<1> HIDE DEF t
<1>5. \A i \in DOMAIN t : i + 1 \in DOMAIN q /\ t[i] = q[i + 1] /\ i \in Nat /\ i + 1 # 1
  BY <1>1, <1>2, <1>3
<1>6. \A j \in DOMAIN q : j # 1 => j - 1 \in DOMAIN t /\ t[j - 1] = q[j]
  BY <1>1, <1>2, <1>3
<1>7. 1 \in DOMAIN q
  BY <1>1
<1>8. Range(t) = Range(q) \ {q[1]}
  <2>1. ASSUME NEW i \in DOMAIN t
        PROVE  t[i] \in Range(q) /\ t[i] # q[1]
    BY <1>5, <1>7 DEF Range
  <2>2. ASSUME NEW j \in DOMAIN q, q[j] # q[1]
        PROVE  q[j] \in Range(t)
    BY <1>6, <2>2 DEF Range
  <2> QED
    BY <2>1, <2>2 DEF Range
<1>9. \A i, j \in DOMAIN t : t[i] = t[j] => i = j
  <2> SUFFICES ASSUME NEW i \in DOMAIN t, NEW j \in DOMAIN t, t[i] = t[j]
               PROVE  i = j
    OBVIOUS
  <2>1. i + 1 = j + 1
    BY <1>5
  <2> QED
    BY <1>5, <2>1
<1>10. Head(q) \in Range(q)
  BY <1>4, <1>7 DEF Range
<1> QED
  BY <1>1, <1>2, <1>4, <1>8, <1>9, <1>10 DEF t

(* A route enters the queue at its end, once. *)
LEMMA QueueWrites ==
    ASSUME NEW q \in Seq(Pairs), NEW p \in Pairs \ Range(q),
           \A i, j \in DOMAIN q : q[i] = q[j] => i = j
    PROVE  /\ Append(q, p) \in Seq(Pairs)
           /\ Range(Append(q, p)) = Range(q) \cup {p}
           /\ Len(Append(q, p)) = Len(q) + 1 /\ Len(q) \in Nat
           /\ \A i, j \in DOMAIN Append(q, p) : Append(q, p)[i] = Append(q, p)[j] => i = j
<1> DEFINE a == Append(q, p)
<1>1. DOMAIN q = 1 .. Len(q) /\ Len(q) \in Nat
  BY LenProperties
<1>2. /\ a \in Seq(Pairs) /\ Len(a) = Len(q) + 1
      /\ \A i \in 1 .. Len(q) : a[i] = q[i]
      /\ a[Len(q) + 1] = p
  BY AppendProperties
<1>3. DOMAIN a = 1 .. Len(q) + 1
  BY <1>2, LenProperties
<1> HIDE DEF a
<1>4. \A i \in DOMAIN a : \/ i \in DOMAIN q /\ a[i] = q[i]
                          \/ i = Len(q) + 1 /\ a[i] = p
  BY <1>1, <1>2, <1>3
<1>5. \A i \in DOMAIN q : i \in DOMAIN a /\ a[i] = q[i] /\ q[i] # p
  BY <1>1, <1>2, <1>3 DEF Range
<1>6. Len(q) + 1 \in DOMAIN a
  BY <1>1, <1>3
<1>7. Range(a) = Range(q) \cup {p}
  <2>1. \A i \in DOMAIN a : a[i] \in Range(q) \cup {p}
    BY <1>4 DEF Range
  <2>2. \A i \in DOMAIN q : q[i] \in Range(a)
    BY <1>5 DEF Range
  <2>3. p \in Range(a)
    BY <1>2, <1>6 DEF Range
  <2> QED
    BY <2>1, <2>2, <2>3 DEF Range
<1>8. \A i, j \in DOMAIN a : a[i] = a[j] => i = j
  BY <1>4, <1>5
<1> QED
  BY <1>1, <1>2, <1>7, <1>8 DEF a

(* A new gateway starts with consistent tables. *)
LEMMA TablesInitially ==
    ASSUME routes = NewRoutes, slots = NewSlots, queue = << >>, completed = 0
    PROVE  TablesInv
<1>1. AssignmentInv
  BY DEF AssignmentInv, NewRoutes, NewSlots, Busy
<1>2. Waiting = {} /\ Ended = {}
  BY DEF Waiting, Ended, NewRoutes
<1>3. Range(queue) = {}
  BY DEF Range
<1>4. QueueInv
  BY <1>2, <1>3 DEF QueueInv
<1>5. completed = Cardinality(Ended)
  BY <1>2, FS_EmptySet
<1> QED
  BY <1>1, <1>4, <1>5 DEF TablesInv

(* The tables of a replacement are those of a new gateway. *)
LEMMA TablesRestarted ==
    ASSUME routes' = NewRoutes, slots' = NewSlots, queue' = << >>, completed' = 0
    PROVE  TablesInv'
<1>1. AssignmentInv'
  BY DEF AssignmentInv, NewRoutes, NewSlots, Busy
<1>2. Waiting' = {} /\ Ended' = {}
  BY DEF Waiting, Ended, NewRoutes
<1>3. Range(queue') = {}
  BY DEF Range
<1>4. QueueInv'
  BY <1>2, <1>3 DEF QueueInv
<1>5. completed' = Cardinality(Ended')
  BY <1>2, FS_EmptySet
<1> QED
  BY <1>1, <1>4, <1>5 DEF TablesInv

(* Nothing is said of the variables the tables do not hold. *)
LEMMA TablesStutter ==
    ASSUME TablesInv, UNCHANGED tables
    PROVE  TablesInv'
  BY DEF TablesInv, AssignmentInv, QueueInv, Waiting, Ended, tables, Busy, Serves

(* A registration touches no assignment. *)
LEMMA TablesRegister ==
    ASSUME TypeOK, TablesInv, NEW w \in Worker, Register(w)
    PROVE  TablesInv'
<1>1. /\ \A v \in Worker : slots'[v].serves = slots[v].serves
      /\ routes' = routes /\ queue' = queue /\ completed' = completed
  BY DEF Register, TypeOK
<1>2. \A p \in Pairs : routes[p].worker # W => routes[p].worker \in Worker
  BY DEF TypeOK
<1> QED
  BY <1>1, <1>2 DEF TablesInv, AssignmentInv, QueueInv, Waiting, Ended, Busy, Serves

(* The end of a session, and the assignment of the longest waiting route to
   the worker it frees. *)
LEMMA TablesRelease ==
    ASSUME TypeOK, TablesInv, NEW w \in Worker, NEW p, Serves(w, p),
           NEW toW, Release(w, p, toW)
    PROVE  TablesInv'
<1>0. /\ p \in Pairs /\ routes[p].worker = w /\ ~ routes[p].terminal
      /\ slots[w].serves = p /\ w # W /\ p # NoPair
      /\ ~ routes[p].queued /\ routes[p].seen
  BY WorkerFacts DEF Serves, TablesInv, AssignmentInv
<1>1. /\ routes \in [Pairs -> [seen : BOOLEAN, queued : BOOLEAN, terminal : BOOLEAN,
                               worker : Worker \cup {W}]]
      /\ slots \in [Worker -> [registered : BOOLEAN, serves : Pairs \cup {NoPair}]]
      /\ queue \in Seq(Pairs)
  BY DEF TypeOK
<1>2. completed' = Cardinality(Ended) + 1
  BY DEF Release, TablesInv
<1>3. Cardinality(Ended \cup {p}) = Cardinality(Ended) + 1
  BY <1>0, EndedGrows DEF Ended
<1>4. CASE queue = << >>
  <2>1. /\ routes' = [routes EXCEPT ![p].terminal = TRUE]
        /\ slots' = [slots EXCEPT ![w].serves = NoPair] /\ queue' = << >>
    BY <1>4 DEF Release
  <2>2. AssignmentInv'
    <3>1. \A v \in Worker : Busy(v)' => Serves(v, slots[v].serves)' /\ slots'[v].serves = slots[v].serves
      BY <1>0, <1>1, <2>1 DEF TablesInv, AssignmentInv, Busy, Serves
    <3>2. \A r \in Pairs :
            (routes'[r].worker # W /\ ~ routes'[r].terminal) => slots'[routes'[r].worker].serves = r
      BY <1>0, <1>1, <2>1 DEF TablesInv, AssignmentInv
    <3>3. \A r \in Pairs : /\ routes'[r].queued => routes'[r].seen /\ routes'[r].worker = W
                           /\ ~ routes'[r].seen => ~ routes'[r].terminal /\ routes'[r].worker = W
      BY <1>0, <1>1, <2>1 DEF TablesInv, AssignmentInv
    <3> QED
      BY <3>1, <3>2, <3>3 DEF AssignmentInv
  <2>3. Waiting' = Waiting /\ Ended' = Ended \cup {p}
    BY <1>0, <1>1, <2>1 DEF Waiting, Ended
  <2>4. QueueInv'
    BY <1>4, <2>1, <2>3 DEF QueueInv, TablesInv
  <2> QED
    BY <1>2, <1>3, <2>2, <2>3, <2>4 DEF TablesInv
<1>5. CASE queue # << >>
  <2> DEFINE q == Head(queue)
  <2>1. /\ q \in Range(queue) /\ q \in Pairs
        /\ Range(Tail(queue)) = Range(queue) \ {q}
        /\ Len(Tail(queue)) = Len(queue) - 1 /\ Len(queue) \in Nat
        /\ \A i, j \in DOMAIN Tail(queue) : Tail(queue)[i] = Tail(queue)[j] => i = j
    BY <1>1, <1>5, QueueReads DEF TablesInv, QueueInv
  <2> HIDE DEF q
  <2>2. /\ routes[q].queued /\ ~ routes[q].terminal /\ routes[q].worker = W /\ routes[q].seen
        /\ q # p /\ q # NoPair
    BY <1>0, <2>1, WorkerFacts DEF TablesInv, QueueInv, AssignmentInv, Waiting
  <2>3. /\ routes' = AssignRoute([routes EXCEPT ![p].terminal = TRUE], q, w)
        /\ slots' = [slots EXCEPT ![w].serves = q] /\ queue' = Tail(queue)
    BY <1>5 DEF Release, q
  <2>4. /\ \A r \in Pairs \ {p, q} : routes'[r] = routes[r]
        /\ routes'[p].terminal /\ ~ routes'[p].queued /\ routes'[p].seen /\ routes'[p].worker = w
        /\ ~ routes'[q].terminal /\ ~ routes'[q].queued /\ routes'[q].seen /\ routes'[q].worker = w
        /\ \A v \in Worker \ {w} : slots'[v] = slots[v]
        /\ slots'[w].serves = q
    BY <1>0, <1>1, <2>1, <2>2, <2>3 DEF AssignRoute
  <2>5. AssignmentInv'
    <3>1. ASSUME NEW v \in Worker \ {w}, Busy(v)'
          PROVE  Serves(v, slots[v].serves)'
      <4>1. Busy(v) /\ slots'[v].serves = slots[v].serves
        BY <2>4, <3>1 DEF Busy
      <4>2. Serves(v, slots[v].serves)
        BY <4>1 DEF TablesInv, AssignmentInv
      <4>3. slots[v].serves \notin {p, q}
        BY <1>0, <2>2, <4>2, WorkerFacts DEF Serves
      <4> QED
        BY <2>4, <4>1, <4>2, <4>3 DEF Serves
    <3>2. Serves(w, slots[w].serves)'
      BY <2>1, <2>4 DEF Serves
    <3>3. ASSUME NEW r \in Pairs, routes'[r].worker # W, ~ routes'[r].terminal
          PROVE  slots'[routes'[r].worker].serves = r
      <4>1. CASE r = q
        BY <2>4, <4>1
      <4>2. CASE r # q
        BY <1>0, <1>1, <2>4, <3>3, <4>2 DEF TablesInv, AssignmentInv
      <4> QED
        BY <4>1, <4>2
    <3>4. \A r \in Pairs : /\ routes'[r].queued => routes'[r].seen /\ routes'[r].worker = W
                           /\ ~ routes'[r].seen => ~ routes'[r].terminal /\ routes'[r].worker = W
      BY <2>4 DEF TablesInv, AssignmentInv
    <3> QED
      BY <3>1, <3>2, <3>3, <3>4 DEF AssignmentInv
  <2>6. Waiting' = Waiting \ {q} /\ Ended' = Ended \cup {p}
    BY <1>0, <2>1, <2>2, <2>4 DEF Waiting, Ended
  <2>7. QueueInv'
    <3>1. \A i, j \in DOMAIN queue' : queue'[i] = queue'[j] => i = j
      BY <2>1, <2>3
    <3>2. Range(queue') = Waiting'
      BY <2>1, <2>3, <2>6 DEF TablesInv, QueueInv
    <3>3. Len(queue') <= MaxQueue
      BY <1>5, <2>1, <2>3, WorkerFacts DEF TablesInv, QueueInv
    <3>4. \A v \in Worker : Busy(v)'
      BY <1>5, <2>2, <2>4 DEF TablesInv, QueueInv, Busy
    <3> QED
      BY <3>1, <3>2, <3>3, <3>4 DEF QueueInv
  <2> QED
    BY <1>2, <1>3, <2>5, <2>6, <2>7 DEF TablesInv
<1> QED
  BY <1>4, <1>5

(* The first INIT of a route: assigned, queued or rejected. *)
LEMMA TablesAdmit ==
    ASSUME TypeOK, TablesInv, NEW p \in Pairs, Admit(p)
    PROVE  TablesInv'
<1>0. /\ ~ routes[p].seen /\ ~ routes[p].terminal /\ routes[p].worker = W
      /\ ~ routes[p].queued /\ p # NoPair
  BY WorkerFacts DEF Admit, TablesInv, AssignmentInv
<1>1. /\ routes \in [Pairs -> [seen : BOOLEAN, queued : BOOLEAN, terminal : BOOLEAN,
                               worker : Worker \cup {W}]]
      /\ slots \in [Worker -> [registered : BOOLEAN, serves : Pairs \cup {NoPair}]]
      /\ queue \in Seq(Pairs)
  BY DEF TypeOK
<1>2. p \notin Range(queue)
  BY <1>0 DEF TablesInv, QueueInv, Waiting
<1>3. CASE /\ Idle # {}
           /\ routes' = AssignRoute([routes EXCEPT ![p].seen = TRUE], p, FindIdleWorker)
           /\ slots' = [slots EXCEPT ![FindIdleWorker].serves = p]
           /\ UNCHANGED <<queue, completed>>
  <2>0. PICK w \in Worker : w = FindIdleWorker /\ ~ Busy(w)
    BY <1>3, IdleWorkerFound DEF Idle
  <2>1. w \in Worker /\ ~ Busy(w) /\ w # W
    BY <2>0, WorkerFacts
  <2>2. /\ \A r \in Pairs \ {p} : routes'[r] = routes[r]
        /\ ~ routes'[p].terminal /\ ~ routes'[p].queued /\ routes'[p].seen /\ routes'[p].worker = w
        /\ \A v \in Worker \ {w} : slots'[v] = slots[v]
        /\ slots'[w].serves = p
    BY <1>0, <1>1, <1>3, <2>0 DEF AssignRoute
  <2>3. queue = << >>
    BY <2>1 DEF TablesInv, QueueInv
  <2>4. AssignmentInv'
    <3>1. ASSUME NEW v \in Worker \ {w}, Busy(v)'
          PROVE  Serves(v, slots[v].serves)'
      <4>1. Busy(v) /\ slots'[v].serves = slots[v].serves
        BY <2>2, <3>1 DEF Busy
      <4>2. Serves(v, slots[v].serves)
        BY <4>1 DEF TablesInv, AssignmentInv
      <4>3. slots[v].serves # p
        BY <1>0, <4>2, WorkerFacts DEF Serves
      <4> QED
        BY <2>2, <4>1, <4>2, <4>3 DEF Serves
    <3>2. Serves(w, slots[w].serves)'
      BY <2>2 DEF Serves
    <3>3. ASSUME NEW r \in Pairs, routes'[r].worker # W, ~ routes'[r].terminal
          PROVE  slots'[routes'[r].worker].serves = r
      <4>1. CASE r = p
        BY <2>2, <4>1
      <4>2. CASE r # p
        <5>1. slots[routes[r].worker].serves = r /\ routes[r].worker \in Worker
          BY <1>1, <2>2, <3>3, <4>2 DEF TablesInv, AssignmentInv
        <5>2. routes[r].worker # w
          BY <2>1, <5>1, WorkerFacts DEF Busy
        <5> QED
          BY <2>2, <4>2, <5>1, <5>2
      <4> QED
        BY <4>1, <4>2
    <3>4. \A r \in Pairs : /\ routes'[r].queued => routes'[r].seen /\ routes'[r].worker = W
                           /\ ~ routes'[r].seen => ~ routes'[r].terminal /\ routes'[r].worker = W
      BY <2>2 DEF TablesInv, AssignmentInv
    <3> QED
      BY <3>1, <3>2, <3>3, <3>4 DEF AssignmentInv
  <2>5. Waiting' = Waiting /\ Ended' = Ended
    BY <1>0, <2>2 DEF Waiting, Ended
  <2> QED
    BY <1>3, <2>3, <2>4, <2>5 DEF TablesInv, QueueInv
<1>4. CASE /\ Idle = {} /\ Len(queue) < MaxQueue
           /\ routes' = [[routes EXCEPT ![p].seen = TRUE] EXCEPT ![p].queued = TRUE]
           /\ queue' = Append(queue, p)
           /\ UNCHANGED <<slots, completed>>
  <2>1. /\ \A r \in Pairs \ {p} : routes'[r] = routes[r]
        /\ ~ routes'[p].terminal /\ routes'[p].queued /\ routes'[p].seen /\ routes'[p].worker = W
    BY <1>0, <1>1, <1>4
  <2>0. slots' = slots
    BY <1>4
  <2>2. AssignmentInv'
    <3>1. \A v \in Worker : Busy(v) => Serves(v, slots[v].serves) /\ slots[v].serves # p
      BY <1>0, WorkerFacts DEF TablesInv, AssignmentInv, Serves
    <3>2. \A v \in Worker : Busy(v)' => Serves(v, slots[v].serves)'
      BY <2>0, <2>1, <3>1 DEF Busy, Serves
    <3>3. \A r \in Pairs :
            (routes'[r].worker # W /\ ~ routes'[r].terminal) => slots'[routes'[r].worker].serves = r
      BY <2>0, <2>1 DEF TablesInv, AssignmentInv
    <3>4. \A r \in Pairs : /\ routes'[r].queued => routes'[r].seen /\ routes'[r].worker = W
                           /\ ~ routes'[r].seen => ~ routes'[r].terminal /\ routes'[r].worker = W
      BY <2>1 DEF TablesInv, AssignmentInv
    <3> QED
      BY <3>2, <3>3, <3>4 DEF AssignmentInv
  <2>3. Waiting' = Waiting \cup {p} /\ Ended' = Ended
    BY <1>0, <2>1 DEF Waiting, Ended
  <2>4. /\ Range(queue') = Range(queue) \cup {p}
        /\ Len(queue') = Len(queue) + 1 /\ Len(queue) \in Nat
        /\ \A i, j \in DOMAIN queue' : queue'[i] = queue'[j] => i = j
    BY <1>1, <1>2, <1>4, QueueWrites DEF TablesInv, QueueInv
  <2>5. \A v \in Worker : Busy(v)
    <3>1. \A v \in Worker : slots[v].registered
      BY DEF Admit, FrontendReady, AllRegistered
    <3> QED
      BY <1>4, <3>1 DEF Idle
  <2>6. QueueInv'
    <3>1. Len(queue') <= MaxQueue
      BY <1>4, <2>4, WorkerFacts
    <3>2. \A v \in Worker : Busy(v)'
      BY <1>4, <2>5 DEF Busy
    <3>3. Range(queue') = Waiting'
      BY <2>3, <2>4 DEF TablesInv, QueueInv
    <3> QED
      BY <2>4, <3>1, <3>2, <3>3 DEF QueueInv
  <2> QED
    BY <1>4, <2>2, <2>3, <2>6 DEF TablesInv
<1>5. CASE /\ routes' = [[routes EXCEPT ![p].seen = TRUE] EXCEPT ![p].terminal = TRUE]
           /\ completed' = completed + 1
           /\ UNCHANGED <<slots, queue>>
  <2>1. /\ \A r \in Pairs \ {p} : routes'[r] = routes[r]
        /\ routes'[p].terminal /\ ~ routes'[p].queued /\ routes'[p].seen /\ routes'[p].worker = W
    BY <1>0, <1>1, <1>5
  <2>0. slots' = slots
    BY <1>5
  <2>2. AssignmentInv'
    <3>1. \A v \in Worker : Busy(v) => Serves(v, slots[v].serves) /\ slots[v].serves # p
      BY <1>0, WorkerFacts DEF TablesInv, AssignmentInv, Serves
    <3>2. \A v \in Worker : Busy(v)' => Serves(v, slots[v].serves)'
      BY <2>0, <2>1, <3>1 DEF Busy, Serves
    <3>3. \A r \in Pairs :
            (routes'[r].worker # W /\ ~ routes'[r].terminal) => slots'[routes'[r].worker].serves = r
      BY <2>0, <2>1 DEF TablesInv, AssignmentInv
    <3>4. \A r \in Pairs : /\ routes'[r].queued => routes'[r].seen /\ routes'[r].worker = W
                           /\ ~ routes'[r].seen => ~ routes'[r].terminal /\ routes'[r].worker = W
      BY <2>1 DEF TablesInv, AssignmentInv
    <3> QED
      BY <3>2, <3>3, <3>4 DEF AssignmentInv
  <2>3. Waiting' = Waiting /\ Ended' = Ended \cup {p}
    BY <1>0, <2>1 DEF Waiting, Ended
  <2>4. Cardinality(Ended \cup {p}) = Cardinality(Ended) + 1
    BY <1>0, EndedGrows DEF Ended
  <2>5. QueueInv'
    BY <1>5, <2>3 DEF QueueInv, TablesInv, Busy
  <2> QED
    BY <1>5, <2>2, <2>3, <2>4, <2>5 DEF TablesInv
<1> QED
  BY <1>3, <1>4, <1>5 DEF Admit

(* A completion replayed for a route that is ended, or neither queued nor
   assigned: it is counted once. *)
LEMMA TablesReplay ==
    ASSUME TypeOK, TablesInv, NEW p \in Pairs, Replay(p),
           journal[p] # "none" =>
              routes[p].terminal \/ (~ routes[p].queued /\ routes[p].worker = W)
    PROVE  TablesInv'
<1>1. /\ routes \in [Pairs -> [seen : BOOLEAN, queued : BOOLEAN, terminal : BOOLEAN,
                               worker : Worker \cup {W}]]
      /\ slots' = slots /\ queue' = queue
  BY DEF TypeOK, Replay
<1>2. CASE UNCHANGED <<routes, completed>>
  BY <1>1, <1>2, TablesStutter DEF tables
<1>3. CASE /\ journal[p] # "none"
           /\ routes' = [routes EXCEPT ![p].seen = TRUE] /\ completed' = completed
  <2>1. /\ \A r \in Pairs \ {p} : routes'[r] = routes[r]
        /\ routes'[p].terminal = routes[p].terminal /\ routes'[p].queued = routes[p].queued
        /\ routes'[p].seen /\ routes'[p].worker = routes[p].worker
    BY <1>1, <1>3
  <2>2. Waiting' = Waiting /\ Ended' = Ended
    BY <2>1 DEF Waiting, Ended
  <2>3. AssignmentInv'
    BY <1>1, <2>1 DEF TablesInv, AssignmentInv, Busy, Serves
  <2>4. QueueInv'
    BY <1>1, <2>2 DEF QueueInv, TablesInv, Busy
  <2> QED
    BY <1>3, <2>2, <2>3, <2>4 DEF TablesInv
<1>4. CASE /\ journal[p] # "none"
           /\ routes' = [routes EXCEPT ![p].seen = TRUE, ![p].terminal = TRUE]
           /\ completed' = completed + IF routes[p].terminal THEN 0 ELSE 1
  <2>1. /\ \A r \in Pairs \ {p} : routes'[r] = routes[r]
        /\ routes'[p].terminal /\ routes'[p].queued = routes[p].queued
        /\ routes'[p].seen /\ routes'[p].worker = routes[p].worker
    BY <1>1, <1>4
  <2>2. routes[p].terminal \/ (~ routes[p].queued /\ routes[p].worker = W)
    BY <1>4
  <2>3. AssignmentInv'
    <3>1. \A v \in Worker : Busy(v) => Serves(v, slots[v].serves) /\ slots[v].serves # p
      BY <2>2, WorkerFacts DEF TablesInv, AssignmentInv, Serves
    <3>2. \A v \in Worker : Busy(v)' => Serves(v, slots[v].serves)'
      BY <1>1, <2>1, <3>1 DEF Busy, Serves
    <3>3. \A r \in Pairs :
            (routes'[r].worker # W /\ ~ routes'[r].terminal) => slots'[routes'[r].worker].serves = r
      BY <1>1, <2>1 DEF TablesInv, AssignmentInv
    <3>4. \A r \in Pairs : /\ routes'[r].queued => routes'[r].seen /\ routes'[r].worker = W
                           /\ ~ routes'[r].seen => ~ routes'[r].terminal /\ routes'[r].worker = W
      BY <2>1 DEF TablesInv, AssignmentInv
    <3> QED
      BY <3>2, <3>3, <3>4 DEF AssignmentInv
  <2>4. Waiting' = Waiting
    BY <2>1, <2>2 DEF Waiting
  <2>5. Ended' = Ended \cup {p}
    BY <2>1 DEF Ended
  <2>6. QueueInv'
    BY <1>1, <2>4 DEF QueueInv, TablesInv, Busy
  <2>7. completed' = Cardinality(Ended \cup {p})
    <3>1. Ended \in SUBSET Pairs /\ (p \in Ended <=> routes[p].terminal)
      BY DEF Ended
    <3>2. CASE routes[p].terminal
      <4>1. Ended \cup {p} = Ended
        BY <3>1, <3>2
      <4>2. completed' = completed
        BY <1>4, <3>2 DEF TypeOK
      <4> QED
        BY <4>1, <4>2 DEF TablesInv
    <3>3. CASE ~ routes[p].terminal
      BY <1>4, <3>1, <3>3, EndedGrows DEF TablesInv
    <3> QED
      BY <3>2, <3>3
  <2> QED
    BY <2>3, <2>5, <2>6, <2>7 DEF TablesInv
<1> QED
  BY <1>2, <1>3, <1>4 DEF Replay

-----------------------------------------------------------------------------
(* The invariant *)

(* The session of one worker, across its process, its slot and its channels. *)
SessionAt(w) ==
    SessionOk(worker[w].pc, worker[w].pair, slots[w].serves, fromWorker[w], toWorker[w])

SessionInv == \A w \in Worker : SessionAt(w)

(* The states an initiator can be in after its FINAL. *)
PastFinal == {"status", "done", "ok", "failed"}

(* The initiator has sent its FINAL: it is past the state in which it can
   still abort, and only queries of it are on their way. *)
OnlyQueries(p) ==
    /\ client[p].pc \in PastFinal
    /\ \A f \in Range(fromClient[p]) : f.type = "QUERY"

(* An initiator and its two channels: frames of its pair, a FINAL only from one
   that is past it, and nothing but queries behind the FINAL. *)
InitiatorInv ==
    \A p \in Pairs :
        /\ \A f \in Range(fromClient[p]) : f.pair = p /\ f.type \in ClientFrame
        /\ \A f \in Range(toClient[p]) : f.pair = p
        /\ FinalThenQueries(fromClient[p])
        /\ (\E f \in Range(fromClient[p]) : f.type = "FINAL") =>
              client[p].pc \in PastFinal

(* A route that a replay made known without ending it. *)
Limbo(p) ==
    /\ routes[p].seen /\ ~ routes[p].terminal
    /\ ~ routes[p].queued /\ routes[p].worker = W

(* What shows that a FINAL was sent: the frame on its way to the worker, the
   worker's DONE, a record in the journal, and a route in limbo. *)
EvidenceInv ==
    \A p \in Pairs :
        (\/ \E w \in Worker : \/ F("FINAL", p) \in Range(toWorker[w])
                              \/ F("DONE", p) \in Range(fromWorker[w])
         \/ journal[p] # "none"
         \/ Limbo(p))
            => OnlyQueries(p)

(* A running gateway holds no record of a session that is waiting or assigned. *)
RecordInv ==
    gateway = "up" =>
        \A p \in Pairs : journal[p] # "none" =>
            routes[p].terminal \/ (~ routes[p].queued /\ routes[p].worker = W)

(* The inductive invariant. *)
IInv ==
    /\ TypeOK /\ TablesInv /\ SessionInv /\ InitiatorInv /\ EvidenceInv /\ RecordInv
    /\ DurableBeforeKnown /\ ShutdownCutsNoSession

-----------------------------------------------------------------------------
(* The frames a worker sends belong to the route its slot serves: the gateway
   never meets a frame its tables do not admit. *)
LEMMA HeadServed ==
    ASSUME TypeOK, TablesInv, SessionInv, NEW w \in Worker,
           fromWorker[w] # << >>, Head(fromWorker[w]).type # "REGISTER"
    PROVE  /\ Serves(w, Head(fromWorker[w]).pair) /\ Head(fromWorker[w]).pair \in Pairs
           /\ Head(fromWorker[w]) \in Frame /\ Head(fromWorker[w]) \in Range(fromWorker[w])
<1>1. fromWorker[w] \in Channel
  BY ChannelTypes
<1>2. Head(fromWorker[w]) \in Frame /\ Head(fromWorker[w]) \in Range(fromWorker[w])
  BY <1>1, ReadHead
<1>3. slots[w].serves # NoPair /\ Head(fromWorker[w]).pair = slots[w].serves
  BY <1>2 DEF SessionInv, SessionAt, SessionOk
<1>4. Serves(w, slots[w].serves)
  BY <1>3 DEF TablesInv, AssignmentInv, Busy
<1> QED
  BY <1>2, <1>3, <1>4 DEF Serves

Acked(w, p) == Deliver(toWorker, w, Stopped(w), <<F("ACK", p)>>)

(* What relaying a frame of a worker does to the tables and the channels. *)
LEMMA RelayEffect ==
    ASSUME TypeOK, TablesInv, SessionInv, NEW w \in Worker, Relay(w) \/ RelayDone(w),
           NEW p, p = Head(fromWorker[w]).pair
    PROVE  /\ gateway = "up" /\ fromWorker[w] # << >> /\ Head(fromWorker[w]).type # "REGISTER"
           /\ p \in Pairs /\ Serves(w, p)
           /\ fromWorker' = Consume(fromWorker, w)
           /\ UNCHANGED <<worker, client, fromClient, restarts>>
           /\ \/ UNCHANGED <<tables, toWorker>> /\ gateway' \in {"up", "failed"}
              \/ /\ Head(fromWorker[w]).type \in Terminal
                 /\ \/ Release(w, p, toWorker)
                    \/ Release(w, p, Acked(w, p))
<1>1. fromWorker[w] # << >> /\ Head(fromWorker[w]).type # "REGISTER" /\ gateway = "up"
  BY DEF Relay, RelayDone
<1>2. p \in Pairs /\ Serves(w, p)
  BY <1>1, HeadServed
<1>3. CASE Relay(w)
  BY <1>1, <1>2, <1>3 DEF Relay, Die, Terminal, gwVars, tables, budget
<1>4. CASE RelayDone(w)
  BY <1>1, <1>2, <1>4 DEF RelayDone, Die, Terminal, tables, Acked
<1> QED
  BY <1>3, <1>4

(* The initiators leave the gateway and the workers alone. *)
LEMMA InitiatorFrame ==
    ASSUME NEW p \in Pairs, ClientStep(p) \/ ClientTimeout(p)
    PROVE  UNCHANGED <<gateway, tables, dropped, journal, worker, fromWorker, toWorker, restarts>>
  BY DEF ClientStep, ClientTimeout, ClientStart, ClientReceive, ReceiveDone, DoneTimeout,
         gwVars, tables, budget

(* The workers leave the gateway and the initiators alone. *)
LEMMA WorkerFrame ==
    ASSUME NEW w \in Worker, WorkerStep(w) \/ WorkerTimeout(w)
    PROVE  UNCHANGED <<gateway, tables, dropped, journal, client, fromClient, toClient, restarts>>
  BY DEF WorkerStep, WorkerTimeout, WorkerAssigned, WorkerReceive, WorkerAcknowledged,
         gwVars, tables, budget

(* Every step keeps the tables consistent. *)
LEMMA TablesStep ==
    ASSUME IInv, Next
    PROVE  TablesInv'
<1> USE DEF IInv
<1>1. ASSUME NEW w \in Worker, Register(w)
      PROVE  TablesInv'
  BY <1>1, TablesRegister
<1>2. ASSUME NEW w \in Worker, Relay(w) \/ RelayDone(w)
      PROVE  TablesInv'
  <2> DEFINE p == Head(fromWorker[w]).pair
  <2>1. \/ UNCHANGED tables
        \/ Serves(w, p) /\ (Release(w, p, toWorker) \/ Release(w, p, Acked(w, p)))
    BY <1>2, RelayEffect
  <2> QED
    BY <2>1, TablesStutter, TablesRelease
<1>3. ASSUME NEW p \in Pairs, Admit(p)
      PROVE  TablesInv'
  BY <1>3, TablesAdmit
<1>4. ASSUME NEW p \in Pairs, Replay(p)
      PROVE  TablesInv'
  BY <1>4, TablesReplay DEF RecordInv, Replay, FrontendReady
<1>5. ASSUME NEW p \in Pairs, Drop(p) \/ Forward(p)
      PROVE  TablesInv'
  BY <1>5, TablesStutter DEF Drop, Forward, Die, gwVars, tables
<1>6. CASE Exit \/ Inactive
  BY <1>6, TablesStutter DEF Exit, Inactive, Die
<1>7. CASE Restart
  <2>1. routes' = NewRoutes /\ slots' = NewSlots /\ queue' = << >> /\ completed' = 0
    BY <1>7 DEF Restart
  <2> QED
    BY <2>1, TablesRestarted
<1>8. ASSUME NEW p \in Pairs, ClientStep(p) \/ ClientTimeout(p)
      PROVE  TablesInv'
  BY <1>8, TablesStutter, InitiatorFrame
<1>9. ASSUME NEW w \in Worker, WorkerStep(w) \/ WorkerTimeout(w)
      PROVE  TablesInv'
  BY <1>9, TablesStutter, WorkerFrame
<1> QED
  BY <1>1, <1>2, <1>3, <1>4, <1>5, <1>6, <1>7, <1>8, <1>9 DEF Next, GatewayStep

-----------------------------------------------------------------------------
(* The sessions *)

(* What a worker reports: frames of its pair, a terminal one last. *)
LEMMA ReportFacts ==
    ASSUME NEW p \in Pairs
    PROVE  /\ \A type \in ReplyFrame :
                /\ Send(type, p) \in Channel /\ EndLast(Send(type, p))
                /\ Range(Send(type, p)) = {F(type, p)}
                /\ type \notin Terminal => NoEnd(Send(type, p))
           /\ Verdict(p) \in Channel /\ EndLast(Verdict(p))
           /\ Range(Verdict(p)) \subseteq {F("STATUS", p), F("DONE", p)}
           /\ BadVerdict(p) \in Channel /\ EndLast(BadVerdict(p))
           /\ Range(BadVerdict(p)) \subseteq {F("BADSTATUS", p), F("ABORT", p)}
<1>1. ASSUME NEW type \in ReplyFrame
      PROVE  /\ Send(type, p) \in Channel /\ EndLast(Send(type, p))
             /\ Range(Send(type, p)) = {F(type, p)}
             /\ type \notin Terminal => NoEnd(Send(type, p))
  <2>1. F(type, p) \in Frame
    BY DEF F, Frame
  <2>2. Send(type, p) \in Channel /\ Range(Send(type, p)) = {F(type, p)}
    BY <2>1, ShortChannels DEF Send
  <2>3. EndLast(Send(type, p))
    BY DEF EndLast, Send
  <2> QED
    BY <2>2, <2>3, FrameFacts DEF NoEnd
<1>2. "STATUS" \notin Terminal /\ {"STATUS", "DONE", "BADSTATUS", "ABORT"} \subseteq ReplyFrame
  BY DEF Terminal, ReplyFrame
<1>3. /\ <<F("STATUS", p), F("DONE", p)>> \in Channel
      /\ Range(<<F("STATUS", p), F("DONE", p)>>) = {F("STATUS", p), F("DONE", p)}
  BY FrameFacts, ShortChannels
<1>4. EndLast(<<F("STATUS", p), F("DONE", p)>>)
  BY <1>2, FrameFacts DEF EndLast
<1>5. Verdict(p) \in Channel /\ EndLast(Verdict(p))
      /\ Range(Verdict(p)) \subseteq {F("STATUS", p), F("DONE", p)}
  BY <1>1, <1>2, <1>3, <1>4 DEF Verdict, Send
<1>6. BadVerdict(p) \in Channel /\ EndLast(BadVerdict(p))
      /\ Range(BadVerdict(p)) \subseteq {F("BADSTATUS", p), F("ABORT", p)}
  BY <1>1, <1>2 DEF BadVerdict, Send
<1> QED
  BY <1>1, <1>5, <1>6

(* A release, seen from the slots and the channels to the workers. *)
LEMMA ReleaseEffect ==
    ASSUME TypeOK, TablesInv, NEW w \in Worker, NEW p, Serves(w, p),
           NEW toW \in [Worker -> Channel], Release(w, p, toW)
    PROVE  /\ gateway' \in {"up", "failed"} \/ gateway' = gateway
           /\ \A v \in Worker \ {w} : slots'[v] = slots[v] /\ toWorker'[v] = toW[v]
           /\ \/ slots'[w].serves = NoPair /\ toWorker'[w] = toW[w]
              \/ \E q \in Pairs : /\ slots'[w].serves = q
                                  /\ toWorker'[w] \in {toW[w], toW[w] \o Assignment(q)}
<1>1. slots \in [Worker -> [registered : BOOLEAN, serves : Pairs \cup {NoPair}]]
  BY DEF TypeOK
<1>2. CASE queue = << >>
  BY <1>1, <1>2 DEF Release
<1>3. CASE queue # << >>
  <2>1. Head(queue) \in Pairs
    BY <1>3, QueueReads DEF TypeOK, TablesInv, QueueInv
  <2>2. Assignment(Head(queue)) \in Channel
    BY <2>1, FrameFacts, ShortChannels DEF Assignment
  <2>3. /\ slots' = [slots EXCEPT ![w].serves = Head(queue)]
        /\ toWorker' = Deliver(toW, w, Stopped(w), Assignment(Head(queue)))
        /\ gateway' \in {"up", "failed"}
    BY <1>3 DEF Release
  <2>4. /\ \A v \in Worker \ {w} : toWorker'[v] = toW[v]
        /\ toWorker'[w] \in {toW[w], toW[w] \o Assignment(Head(queue))}
    BY <2>3 DEF Deliver
  <2> QED
    BY <1>1, <2>1, <2>3, <2>4
<1> QED
  BY <1>2, <1>3

(* What no step of this worker's touches stays. *)
LEMMA SessionSame ==
    ASSUME NEW w, SessionAt(w),
           UNCHANGED <<worker[w], slots[w], fromWorker[w], toWorker[w]>>
    PROVE  SessionAt(w)'
  BY DEF SessionAt

(* The gateway reads a worker's frame: the session of its slot ends with a
   terminal one, and the next may begin. *)
LEMMA SessionRelay ==
    ASSUME TypeOK, TablesInv, SessionInv, NEW w \in Worker, Relay(w) \/ RelayDone(w)
    PROVE  SessionInv'
<1> DEFINE p == Head(fromWorker[w]).pair
<1>1. /\ fromWorker \in [Worker -> Channel] /\ toWorker \in [Worker -> Channel]
  BY ChannelTypes
<1>2. /\ fromWorker[w] # << >> /\ Head(fromWorker[w]).type # "REGISTER"
      /\ p \in Pairs /\ Serves(w, p)
      /\ fromWorker' = Consume(fromWorker, w) /\ worker' = worker
      /\ \/ UNCHANGED <<tables, toWorker>>
         \/ /\ Head(fromWorker[w]).type \in Terminal
            /\ Release(w, p, toWorker) \/ Release(w, p, Acked(w, p))
  BY RelayEffect
<1> HIDE DEF p
<1>3. /\ \A v \in Worker \ {w} : fromWorker'[v] = fromWorker[v]
      /\ fromWorker'[w] = Tail(fromWorker[w])
  <2>1. fromWorker[w] # << >> /\ fromWorker' = Consume(fromWorker, w)
    BY <1>2
  <2> QED
    BY <1>1, <2>1 DEF Consume
<1>4. CASE UNCHANGED <<tables, toWorker>>
  <2>1. ASSUME NEW v \in Worker \ {w}
        PROVE  SessionAt(v)'
    BY <1>2, <1>3, <1>4, SessionSame DEF SessionInv, tables
  <2>2. SessionAt(w)'
    <3>1. fromWorker[w] \in Channel /\ toWorker[w] \in Channel /\ fromWorker[w] # << >>
      BY <1>1, <1>2
    <3>2. SessionOk(worker[w].pc, worker[w].pair, slots[w].serves, Tail(fromWorker[w]), toWorker[w])
      BY <3>1, SessionReads DEF SessionInv, SessionAt
    <3>3. worker' = worker /\ slots' = slots /\ toWorker' = toWorker
      BY <1>2, <1>4 DEF tables
    <3> QED
      BY <1>3, <3>2, <3>3 DEF SessionAt
  <2> QED
    BY <2>1, <2>2 DEF SessionInv
<1>5. ASSUME Head(fromWorker[w]).type \in Terminal,
             NEW toW \in [Worker -> Channel], Release(w, p, toW),
             \A v \in Worker \ {w} : toW[v] = toWorker[v],
             SessionOk(worker[w].pc, worker[w].pair, slots[w].serves, fromWorker[w], toW[w])
      PROVE  SessionInv'
  <2>1. /\ \A v \in Worker \ {w} : slots'[v] = slots[v] /\ toWorker'[v] = toW[v]
        /\ \/ slots'[w].serves = NoPair /\ toWorker'[w] = toW[w]
           \/ \E q \in Pairs : /\ slots'[w].serves = q
                               /\ toWorker'[w] \in {toW[w], toW[w] \o Assignment(q)}
    BY <1>2, <1>5, ReleaseEffect
  <2>2. ASSUME NEW v \in Worker \ {w}
        PROVE  SessionAt(v)'
    BY <1>2, <1>3, <1>5, <2>1, SessionSame DEF SessionInv
  <2>3. SessionOk(worker[w].pc, worker[w].pair, NoPair, Tail(fromWorker[w]), toW[w])
    BY <1>1, <1>2, <1>5, SessionEnds
  <2>4. Tail(fromWorker[w]) \in Channel /\ toW[w] \in Channel
    BY <1>1, <1>2, <1>5, ReadHead
  <2>5. SessionAt(w)'
    <3>1. CASE slots'[w].serves = NoPair /\ toWorker'[w] = toW[w]
      BY <1>2, <1>3, <2>3, <3>1 DEF SessionAt
    <3>2. CASE \E q \in Pairs : /\ slots'[w].serves = q
                                /\ toWorker'[w] \in {toW[w], toW[w] \o Assignment(q)}
      BY <1>2, <1>3, <2>3, <2>4, <3>2, SessionBegins DEF SessionAt
    <3> QED
      BY <2>1, <3>1, <3>2
  <2> QED
    BY <2>2, <2>5 DEF SessionInv
<1>6. ASSUME Head(fromWorker[w]).type \in Terminal, Release(w, p, toWorker)
      PROVE  SessionInv'
  BY <1>1, <1>5, <1>6 DEF SessionInv, SessionAt
<1>7. ASSUME Head(fromWorker[w]).type \in Terminal, Release(w, p, Acked(w, p))
      PROVE  SessionInv'
  <2>1. <<F("ACK", p)>> \in Channel /\ NoAssign(<<F("ACK", p)>>)
    <3>1. F("ACK", p) \in Frame /\ F("ACK", p).type = "ACK"
      BY <1>2, FrameFacts
    <3>2. <<F("ACK", p)>> \in Channel /\ Range(<<F("ACK", p)>>) = {F("ACK", p)}
      BY <3>1, ShortChannels
    <3> QED
      BY <3>1, <3>2 DEF NoAssign
  <2>2. /\ Acked(w, p) \in [Worker -> Channel]
        /\ \A v \in Worker \ {w} : Acked(w, p)[v] = toWorker[v]
        /\ Acked(w, p)[w] \in {toWorker[w], toWorker[w] \o <<F("ACK", p)>>}
    <3>1. toWorker[w] \o <<F("ACK", p)>> \in Channel
      BY <1>1, <2>1, SendFrames
    <3> QED
      BY <1>1, <3>1 DEF Acked, Deliver
  <2>3. SessionOk(worker[w].pc, worker[w].pair, slots[w].serves, fromWorker[w], Acked(w, p)[w])
    <3>1. fromWorker[w] \in Channel /\ toWorker[w] \in Channel
      BY <1>1
    <3>2. SessionOk(worker[w].pc, worker[w].pair, slots[w].serves, fromWorker[w], toWorker[w])
      BY DEF SessionInv, SessionAt
    <3>3. SessionOk(worker[w].pc, worker[w].pair, slots[w].serves, fromWorker[w],
                    toWorker[w] \o <<F("ACK", p)>>)
      BY <2>1, <3>1, <3>2, SessionReads
    <3> QED
      BY <2>2, <3>2, <3>3
  <2> QED
    BY <1>5, <1>7, <2>2, <2>3
<1> QED
  BY <1>2, <1>4, <1>6, <1>7

(* A worker's own step: it takes an assignment, answers a frame, counts the
   session or times out. *)
LEMMA SessionWorker ==
    ASSUME TypeOK, SessionInv, NEW w \in Worker, WorkerStep(w) \/ WorkerTimeout(w)
    PROVE  SessionInv'
<1>1. /\ fromWorker \in [Worker -> Channel] /\ toWorker \in [Worker -> Channel]
      /\ worker \in [Worker -> [pc : {"idle", "init", "nonce", "final", "ack",
                                      "refused", "expired", "exited"},
                                pair : Pairs \cup {NoPair}, sessions : SUBSET Pairs]]
      /\ slots[w].serves \in Pairs \cup {NoPair}
  BY ChannelTypes DEF TypeOK
<1> DEFINE pc == worker[w].pc
           p == worker[w].pair
           out == fromWorker[w]
           in == toWorker[w]
           sv == slots[w].serves
<1>2. /\ SessionOk(pc, p, sv, out, in) /\ out \in Channel /\ in \in Channel
  BY <1>1 DEF SessionInv, SessionAt
<1>3. slots' = slots
  BY WorkerFrame DEF tables
<1>4. /\ \A v \in Worker \ {w} : worker'[v] = worker[v] /\ fromWorker'[v] = fromWorker[v]
                                /\ toWorker'[v] = toWorker[v]
  BY <1>1 DEF WorkerStep, WorkerTimeout, WorkerAssigned, WorkerReceive, WorkerAcknowledged,
              WorkerMoves, Consume
<1>5. ASSUME SessionOk(worker'[w].pc, worker'[w].pair, sv, fromWorker'[w], toWorker'[w])
      PROVE  SessionInv'
  <2>1. ASSUME NEW v \in Worker \ {w}
        PROVE  SessionAt(v)'
    BY <1>3, <1>4, SessionSame DEF SessionInv
  <2>2. SessionAt(w)'
    BY <1>3, <1>5 DEF SessionAt
  <2> QED
    BY <2>1, <2>2 DEF SessionInv
<1>6. in # << >> => SessionOk(pc, p, sv, out, Tail(in)) /\ Tail(in) \in Channel
  BY <1>2, SessionReads, ReadHead
<1>7. CASE WorkerAssigned(w)
  <2>1. /\ in # << >> /\ toWorker'[w] = Tail(in) /\ fromWorker'[w] = out
        /\ \/ /\ Head(in).type = "ASSIGN"
              /\ worker'[w].pc = "init" /\ worker'[w].pair = Head(in).pair
           \/ worker'[w].pc \in {"exited", "refused"} /\ worker'[w].pair = p
    BY <1>1, <1>7 DEF WorkerAssigned, Consume
  <2>2. CASE Head(in).type = "ASSIGN" /\ worker'[w].pc = "init" /\ worker'[w].pair = Head(in).pair
    BY <1>1, <1>2, <1>5, <2>1, <2>2, SessionTaken
  <2>3. CASE worker'[w].pc \in {"exited", "refused"} /\ worker'[w].pair = p
    <3>1. worker'[w].pc \notin Session \cup {"ack"}
      BY <2>3 DEF Session
    <3>2. SessionOk(worker'[w].pc, p, sv, out, Tail(in))
      BY <1>6, <2>1, <3>1 DEF SessionOk
    <3> QED
      BY <1>5, <2>1, <2>3, <3>2
  <2> QED
    BY <2>1, <2>2, <2>3
<1>8. ASSUME pc \in Session, NEW new \in Channel, \A f \in Range(new) : f.pair = p, EndLast(new),
             NEW q \in {"init", "nonce", "final", "idle", "ack"}, q \in Session => NoEnd(new),
             NEW rest \in {in, Tail(in)}, rest # in => in # << >>,
             worker'[w].pc = q, worker'[w].pair = p,
             fromWorker'[w] = out \o new, toWorker'[w] = rest
      PROVE  SessionInv'
  <2>1. SessionOk(pc, p, sv, out, rest) /\ rest \in Channel
    BY <1>2, <1>6, <1>8
  <2>2. SessionOk(q, p, sv, out \o new, rest)
    BY <1>2, <1>8, <2>1, SessionReports
  <2> QED
    BY <1>5, <1>8, <2>2
<1>9. CASE WorkerReceive(w)
  <2>1. pc \in Session /\ in # << >> /\ p \in Pairs
    BY <1>2, <1>9 DEF WorkerReceive, Session, SessionOk
  <2>2. toWorker'[w] = Tail(in)
    BY <1>1, <1>9 DEF WorkerReceive, Consume
  <2>3. \/ WorkerMoves(w, "nonce", Send("COMMIT", p))
        \/ WorkerMoves(w, "final", Send("OPEN", p))
        \/ WorkerMoves(w, "ack", Verdict(p))
        \/ WorkerMoves(w, "idle", BadVerdict(p))
        \/ WorkerMoves(w, "idle", Send("ABORT", p))
    BY <1>9 DEF WorkerReceive
  <2>4. \A q, new : WorkerMoves(w, q, new) =>
          worker'[w].pc = q /\ worker'[w].pair = p /\ fromWorker'[w] = out \o new
    BY <1>1 DEF WorkerMoves
  <2>5. /\ {"COMMIT", "OPEN", "ABORT"} \subseteq ReplyFrame
        /\ "COMMIT" \notin Terminal /\ "OPEN" \notin Terminal
        /\ "ack" \notin Session /\ "idle" \notin Session
    BY DEF ReplyFrame, Terminal, Session
  <2>6. \A type : F(type, p).pair = p
    BY FrameFacts
  <2>7. CASE WorkerMoves(w, "nonce", Send("COMMIT", p))
    <3>1. /\ Send("COMMIT", p) \in Channel /\ EndLast(Send("COMMIT", p))
          /\ Range(Send("COMMIT", p)) = {F("COMMIT", p)}
          /\ "nonce" \in Session => NoEnd(Send("COMMIT", p))
      BY <2>1, <2>5, ReportFacts
    <3>2. worker'[w].pc = "nonce" /\ worker'[w].pair = p /\ fromWorker'[w] = out \o Send("COMMIT", p)
      BY <2>4, <2>7
    <3> QED
      BY <1>8, <2>1, <2>2, <2>6, <3>1, <3>2
  <2>8. CASE WorkerMoves(w, "final", Send("OPEN", p))
    <3>1. /\ Send("OPEN", p) \in Channel /\ EndLast(Send("OPEN", p))
          /\ Range(Send("OPEN", p)) = {F("OPEN", p)}
          /\ "final" \in Session => NoEnd(Send("OPEN", p))
      BY <2>1, <2>5, ReportFacts
    <3>2. worker'[w].pc = "final" /\ worker'[w].pair = p /\ fromWorker'[w] = out \o Send("OPEN", p)
      BY <2>4, <2>8
    <3> QED
      BY <1>8, <2>1, <2>2, <2>6, <3>1, <3>2
  <2>9. CASE WorkerMoves(w, "ack", Verdict(p))
    <3>1. \A f \in Range(Verdict(p)) : f.pair = p
      BY <2>1, <2>6, ReportFacts
    <3> QED
      BY <1>8, <2>1, <2>2, <2>4, <2>5, <2>9, <3>1, ReportFacts
  <2>10. CASE WorkerMoves(w, "idle", BadVerdict(p))
    <3>1. \A f \in Range(BadVerdict(p)) : f.pair = p
      BY <2>1, <2>6, ReportFacts
    <3> QED
      BY <1>8, <2>1, <2>2, <2>4, <2>5, <2>10, <3>1, ReportFacts
  <2>11. CASE WorkerMoves(w, "idle", Send("ABORT", p))
    <3>1. /\ Send("ABORT", p) \in Channel /\ EndLast(Send("ABORT", p))
          /\ Range(Send("ABORT", p)) = {F("ABORT", p)}
          /\ "idle" \in Session => NoEnd(Send("ABORT", p))
      BY <2>1, <2>5, ReportFacts
    <3>2. worker'[w].pc = "idle" /\ worker'[w].pair = p /\ fromWorker'[w] = out \o Send("ABORT", p)
      BY <2>4, <2>11
    <3> QED
      BY <1>8, <2>1, <2>2, <2>6, <3>1, <3>2
  <2> QED
    BY <2>3, <2>7, <2>8, <2>9, <2>10, <2>11
<1>10. CASE WorkerAcknowledged(w)
  <2>1. /\ in # << >> /\ toWorker'[w] = Tail(in) /\ fromWorker'[w] = out
        /\ worker'[w].pc = "idle" /\ worker'[w].pair = p
    BY <1>1, <1>10 DEF WorkerAcknowledged, Consume
  <2>2. SessionOk("idle", p, sv, out, Tail(in))
    BY <1>6, <2>1 DEF SessionOk, Session
  <2> QED
    BY <1>5, <2>1, <2>2
<1>11. CASE WorkerTimeout(w)
  <2>1. toWorker'[w] = in
    BY <1>11 DEF WorkerTimeout
  <2>2. CASE pc \in Session
    <3>1. WorkerMoves(w, "idle", Send("ABORT", p))
      BY <1>11, <2>2 DEF WorkerTimeout, Session
    <3>2. worker'[w].pc = "idle" /\ worker'[w].pair = p /\ fromWorker'[w] = out \o Send("ABORT", p)
      BY <1>1, <3>1 DEF WorkerMoves
    <3>3. p \in Pairs /\ "ABORT" \in ReplyFrame /\ "idle" \notin Session
      BY <1>2, <2>2 DEF SessionOk, ReplyFrame, Session
    <3>4. F("ABORT", p).pair = p
      BY FrameFacts
    <3> QED
      BY <1>8, <2>1, <2>2, <3>2, <3>3, <3>4, ReportFacts
  <2>3. CASE pc \notin Session
    <3>1. \E q \in {"idle", "expired"} : WorkerMoves(w, q, << >>)
      BY <1>11, <2>3 DEF WorkerTimeout, Session
    <3>2. /\ worker'[w].pc \in {"idle", "expired"} /\ worker'[w].pair = p
          /\ fromWorker'[w] = out \o << >>
      BY <1>1, <3>1 DEF WorkerMoves
    <3>3. out \o << >> = out
      BY <1>2, ConcatEmptySeq DEF Channel
    <3>4. SessionOk(worker'[w].pc, p, sv, out, in)
      BY <1>2, <3>2, SessionReads DEF Session
    <3> QED
      BY <1>5, <2>1, <3>2, <3>3, <3>4
  <2> QED
    BY <2>2, <2>3
<1> QED
  BY <1>7, <1>9, <1>10, <1>11 DEF WorkerStep

(* An admitted route goes to an idle worker, of which no frame is left. *)
LEMMA SessionAdmit ==
    ASSUME TypeOK, SessionInv, NEW p \in Pairs, Admit(p)
    PROVE  SessionInv'
<1>1. /\ fromWorker \in [Worker -> Channel] /\ toWorker \in [Worker -> Channel]
      /\ slots \in [Worker -> [registered : BOOLEAN, serves : Pairs \cup {NoPair}]]
      /\ worker' = worker /\ fromWorker' = fromWorker
  BY ChannelTypes DEF TypeOK, Admit
<1>2. CASE UNCHANGED <<slots, toWorker>>
  BY <1>1, <1>2, SessionSame DEF SessionInv
<1>3. CASE /\ Idle # {}
           /\ slots' = [slots EXCEPT ![FindIdleWorker].serves = p]
           /\ toWorker' = Deliver(toWorker, FindIdleWorker, Stopped(FindIdleWorker), Assignment(p))
  <2>1. PICK w \in Worker : w = FindIdleWorker /\ ~ Busy(w)
    BY <1>3, IdleWorkerFound DEF Idle
  <2>2. slots[w].serves = NoPair
    BY <2>1 DEF Busy
  <2>3. /\ \A v \in Worker \ {w} : slots'[v] = slots[v] /\ toWorker'[v] = toWorker[v]
        /\ slots'[w].serves = p
        /\ toWorker'[w] \in {toWorker[w], toWorker[w] \o Assignment(p)}
    BY <1>1, <1>3, <2>1 DEF Deliver
  <2>4. ASSUME NEW v \in Worker \ {w}
        PROVE  SessionAt(v)'
    BY <1>1, <2>3, SessionSame DEF SessionInv
  <2>5. SessionOk(worker[w].pc, worker[w].pair, NoPair, fromWorker[w], toWorker[w])
    BY <2>2 DEF SessionInv, SessionAt
  <2>6. fromWorker[w] \in Channel /\ toWorker[w] \in Channel
    BY <1>1
  <2>7. /\ SessionOk(worker[w].pc, worker[w].pair, p, fromWorker[w], toWorker[w])
        /\ SessionOk(worker[w].pc, worker[w].pair, p, fromWorker[w], toWorker[w] \o Assignment(p))
    BY <2>5, <2>6, SessionBegins
  <2>8. SessionAt(w)'
    BY <1>1, <2>3, <2>7 DEF SessionAt
  <2> QED
    BY <2>4, <2>8 DEF SessionInv
<1> QED
  BY <1>2, <1>3 DEF Admit

(* Frames that assign nothing reach a worker. *)
LEMMA SessionHears ==
    ASSUME TypeOK, SessionInv, UNCHANGED <<slots, worker, fromWorker>>,
           \A w \in Worker : \/ toWorker'[w] = toWorker[w]
                             \/ \E f \in Frame : f.type # "ASSIGN" /\ toWorker'[w] = toWorker[w] \o <<f>>
    PROVE  SessionInv'
<1> SUFFICES ASSUME NEW w \in Worker
             PROVE  SessionAt(w)'
  BY DEF SessionInv
<1>1. fromWorker[w] \in Channel /\ toWorker[w] \in Channel
  BY ChannelTypes
<1>2. CASE toWorker'[w] = toWorker[w]
  BY <1>2, SessionSame DEF SessionInv
<1>3. ASSUME NEW f \in Frame, f.type # "ASSIGN", toWorker'[w] = toWorker[w] \o <<f>>
      PROVE  SessionAt(w)'
  <2>1. <<f>> \in Channel /\ Range(<<f>>) = {f}
    BY ShortChannels
  <2>2. NoAssign(<<f>>)
    BY <1>3, <2>1 DEF NoAssign
  <2>3. SessionOk(worker[w].pc, worker[w].pair, slots[w].serves, fromWorker[w], toWorker[w])
    BY DEF SessionInv, SessionAt
  <2>4. SessionOk(worker[w].pc, worker[w].pair, slots[w].serves, fromWorker[w], toWorker[w] \o <<f>>)
    BY <1>1, <2>1, <2>2, <2>3, SessionReads
  <2> QED
    BY <1>3, <2>4 DEF SessionAt
<1> QED
  BY <1>2, <1>3

(* Of new processes none has a session. *)
LEMMA SessionInitially ==
    ASSUME NEW w \in Worker, NEW out, NEW in, out = <<F("REGISTER", NoPair)>>, in = << >>
    PROVE  SessionOk("idle", NoPair, NoPair, out, in)
<1>1. Range(out) = {F("REGISTER", NoPair)} /\ Range(in) = {} /\ F("REGISTER", NoPair).type = "REGISTER"
  BY FrameFacts, ShortChannels
<1>2. OneAssign(in)
  BY DEF OneAssign
<1>3. EndLast(out)
  BY DEF EndLast
<1> QED
  BY <1>1, <1>2, <1>3 DEF SessionOk, Session

(* Every step keeps the sessions and their channels in order. *)
LEMMA SessionStep ==
    ASSUME IInv, Next
    PROVE  SessionInv'
<1> USE DEF IInv
<1>1. ASSUME NEW w \in Worker, Register(w)
      PROVE  SessionInv'
  <2>1. /\ fromWorker \in [Worker -> Channel] /\ toWorker \in [Worker -> Channel]
        /\ slots \in [Worker -> [registered : BOOLEAN, serves : Pairs \cup {NoPair}]]
    BY ChannelTypes DEF TypeOK
  <2>2. /\ \A v \in Worker : slots'[v].serves = slots[v].serves
        /\ \A v \in Worker \ {w} : fromWorker'[v] = fromWorker[v]
        /\ fromWorker[w] # << >> /\ fromWorker'[w] = Tail(fromWorker[w])
        /\ worker' = worker /\ toWorker' = toWorker
    BY <1>1, <2>1 DEF Register, Consume
  <2>3. ASSUME NEW v \in Worker \ {w}
        PROVE  SessionAt(v)'
    BY <2>2 DEF SessionInv, SessionAt
  <2>4. SessionOk(worker[w].pc, worker[w].pair, slots[w].serves, fromWorker[w], toWorker[w])
    BY DEF SessionInv, SessionAt
  <2>5. fromWorker[w] \in Channel /\ toWorker[w] \in Channel
    BY <2>1
  <2>6. SessionOk(worker[w].pc, worker[w].pair, slots[w].serves, Tail(fromWorker[w]), toWorker[w])
    BY <2>2, <2>4, <2>5, SessionReads
  <2>7. SessionAt(w)'
    BY <2>2, <2>6 DEF SessionAt
  <2> QED
    BY <2>3, <2>7 DEF SessionInv
<1>2. ASSUME NEW w \in Worker, Relay(w) \/ RelayDone(w)
      PROVE  SessionInv'
  BY <1>2, SessionRelay
<1>3. ASSUME NEW p \in Pairs, Admit(p)
      PROVE  SessionInv'
  BY <1>3, SessionAdmit
<1>4. ASSUME NEW p \in Pairs, Forward(p)
      PROVE  SessionInv'
  <2> DEFINE f == Head(fromClient[p])
             w == routes[p].worker
  <2>1. fromClient[p] # << >> /\ fromClient[p] \in Channel
    BY <1>4, ChannelTypes DEF Forward, FrontendReady
  <2>2. f \in Frame /\ f \in Range(fromClient[p])
    BY <2>1, ReadHead
  <2>3. f.type # "ASSIGN"
    BY <2>2 DEF InitiatorInv, ClientFrame
  <2>4. UNCHANGED <<slots, worker, fromWorker>>
    BY <1>4 DEF Forward, Die, tables, gwVars
  <2>5. \/ toWorker' = toWorker
        \/ w # W /\ toWorker' = Deliver(toWorker, w, Stopped(w), <<f>>)
    BY <1>4 DEF Forward
  <2>6. w # W => w \in Worker
    BY DEF TypeOK
  <2>7. \A v \in Worker : toWorker'[v] \in {toWorker[v], toWorker[v] \o <<f>>}
    BY <2>5, <2>6, ChannelTypes DEF Deliver
  <2> HIDE DEF f
  <2> QED
    BY <2>2, <2>3, <2>4, <2>7, SessionHears
<1>5. CASE Exit
  <2>1. UNCHANGED <<slots, worker, fromWorker>>
    BY <1>5 DEF Exit, tables
  <2>2. \A w \in Worker :
          toWorker'[w] = toWorker[w] \/ toWorker'[w] = Append(toWorker[w], F("SHUTDOWN", NoPair))
    BY <1>5 DEF Exit
  <2>3. F("SHUTDOWN", NoPair) \in Frame /\ F("SHUTDOWN", NoPair).type # "ASSIGN"
    BY FrameFacts
  <2>4. ASSUME NEW w \in Worker
        PROVE  Append(toWorker[w], F("SHUTDOWN", NoPair)) = toWorker[w] \o <<F("SHUTDOWN", NoPair)>>
    BY <2>3, ChannelTypes, AppendIsConcat DEF Channel
  <2> QED
    BY <2>1, <2>2, <2>3, <2>4, SessionHears
<1>6. ASSUME UNCHANGED <<slots, worker, fromWorker, toWorker>>
      PROVE  SessionInv'
  BY <1>6, SessionSame DEF SessionInv
<1>7. ASSUME NEW p \in Pairs, Drop(p) \/ Replay(p)
      PROVE  SessionInv'
  BY <1>6, <1>7 DEF Drop, Replay, gwVars, tables
<1>8. CASE Inactive
  BY <1>6, <1>8 DEF Inactive, Die, tables
<1>9. CASE Restart
  <2>1. ASSUME NEW w \in Worker
        PROVE  SessionAt(w)'
    <3>1. /\ worker'[w].pc = "idle" /\ worker'[w].pair = NoPair /\ slots'[w].serves = NoPair
          /\ fromWorker'[w] = <<F("REGISTER", NoPair)>> /\ toWorker'[w] = << >>
      BY <1>9 DEF Restart, NewWorker, NewSlots, Empty
    <3> QED
      BY <3>1, SessionInitially DEF SessionAt
  <2> QED
    BY <2>1 DEF SessionInv
<1>10. ASSUME NEW p \in Pairs, ClientStep(p) \/ ClientTimeout(p)
       PROVE  SessionInv'
  BY <1>6, <1>10, InitiatorFrame DEF tables
<1>11. ASSUME NEW w \in Worker, WorkerStep(w) \/ WorkerTimeout(w)
       PROVE  SessionInv'
  BY <1>11, SessionWorker
<1> QED
  BY <1>1, <1>2, <1>3, <1>4, <1>5, <1>7, <1>8, <1>9, <1>10, <1>11 DEF Next, GatewayStep

-----------------------------------------------------------------------------
(* Where frames and records come from *)

(* A frame is its type and its pair. *)
LEMMA FrameEqual ==
    ASSUME NEW f \in Frame
    PROVE  f = F(f.type, f.pair) /\ f.pair \in Pairs \cup {NoPair}
  BY DEF Frame, F

(* A frame that is new on its way to a worker is an assignment or a shutdown,
   an acknowledgement of a durable record, or forwarded from an initiator. *)
LEMMA ToWorkerGains ==
    ASSUME IInv, Next, NEW w \in Worker, NEW f \in Range(toWorker'[w])
    PROVE  \/ f \in Range(toWorker[w])
           \/ f.type \in {"ASSIGN", "INIT", "SHUTDOWN"}
           \/ f.type = "ACK" /\ f.pair \in Pairs /\ journal'[f.pair] = "durable"
           \/ \E p \in Pairs : Forward(p) /\ f = Head(fromClient[p])
<1> USE DEF IInv
<1>1. /\ toWorker \in [Worker -> Channel] /\ toWorker[w] \in Channel
  BY ChannelTypes
<1>2. ASSUME toWorker'[w] = toWorker[w]
      PROVE  f \in Range(toWorker[w])
  BY <1>2
<1>3. ASSUME NEW new \in Channel, toWorker'[w] \in {toWorker[w], toWorker[w] \o new}
      PROVE  f \in Range(toWorker[w]) \/ f \in Range(new)
  BY <1>1, <1>3, SendFrames
<1>4. ASSUME NEW q \in Pairs
      PROVE  /\ Assignment(q) \in Channel
             /\ \A g \in Range(Assignment(q)) : g.type \in {"ASSIGN", "INIT"}
  BY FrameFacts, ShortChannels DEF Assignment
<1>5. ASSUME NEW v \in Worker, NEW p, Serves(v, p), NEW toW \in [Worker -> Channel],
             Release(v, p, toW)
      PROVE  f \in Range(toW[w]) \/ f.type \in {"ASSIGN", "INIT"}
  <2>1. /\ \A x \in Worker \ {v} : toWorker'[x] = toW[x]
        /\ \/ toWorker'[v] = toW[v]
           \/ \E q \in Pairs : toWorker'[v] \in {toW[v], toW[v] \o Assignment(q)}
    BY <1>5, ReleaseEffect
  <2>2. CASE toWorker'[w] = toW[w]
    BY <2>2
  <2>3. ASSUME NEW q \in Pairs, toWorker'[w] = toW[w] \o Assignment(q)
        PROVE  f \in Range(toW[w]) \/ f.type \in {"ASSIGN", "INIT"}
    <3>1. toW[w] \in Channel
      BY <1>5
    <3>2. Range(toW[w] \o Assignment(q)) = Range(toW[w]) \cup Range(Assignment(q))
      BY <1>4, <3>1, SendFrames
    <3> QED
      BY <1>4, <2>3, <3>2
  <2> QED
    BY <2>1, <2>2, <2>3
<1>6. ASSUME NEW v \in Worker, Relay(v)
      PROVE  f \in Range(toWorker[w]) \/ f.type \in {"ASSIGN", "INIT"}
  <2> DEFINE p == Head(fromWorker[v]).pair
  <2>1. Serves(v, p)
    BY <1>6, RelayEffect
  <2>2. toWorker' = toWorker \/ Release(v, p, toWorker)
    BY <1>6 DEF Relay
  <2> QED
    BY <1>1, <1>2, <1>5, <2>1, <2>2
<1>7. ASSUME NEW v \in Worker, RelayDone(v)
      PROVE  \/ f \in Range(toWorker[w])
             \/ f.type \in {"ASSIGN", "INIT"}
             \/ f.type = "ACK" /\ f.pair \in Pairs /\ journal'[f.pair] = "durable"
  <2> DEFINE p == Head(fromWorker[v]).pair
  <2>1. Serves(v, p) /\ p \in Pairs
    BY <1>7, RelayEffect
  <2>2. \/ toWorker' = toWorker
        \/ /\ journal' = [journal EXCEPT ![p] = "durable"]
           /\ Release(v, p, Acked(v, p))
    BY <1>7, <2>1 DEF RelayDone, Acked
  <2>3. CASE toWorker' = toWorker
    BY <1>2, <2>3
  <2>4. CASE journal' = [journal EXCEPT ![p] = "durable"] /\ Release(v, p, Acked(v, p))
    <3>1. journal'[p] = "durable"
      BY <2>1, <2>4 DEF TypeOK
    <3>2. /\ <<F("ACK", p)>> \in Channel /\ Range(<<F("ACK", p)>>) = {F("ACK", p)}
          /\ F("ACK", p).type = "ACK" /\ F("ACK", p).pair = p
      BY <2>1, FrameFacts, ShortChannels
    <3>3. toWorker[v] \o <<F("ACK", p)>> \in Channel
      BY <1>1, <3>2, SendFrames
    <3>4. /\ Acked(v, p) \in [Worker -> Channel]
          /\ Acked(v, p)[w] \in {toWorker[w], toWorker[w] \o <<F("ACK", p)>>}
      BY <1>1, <3>3 DEF Acked, Deliver
    <3>5. f \in Range(Acked(v, p)[w]) \/ f.type \in {"ASSIGN", "INIT"}
      BY <1>5, <2>1, <2>4, <3>4
    <3>6. Range(Acked(v, p)[w]) \subseteq Range(toWorker[w]) \cup {F("ACK", p)}
      <4>1. Range(toWorker[w] \o <<F("ACK", p)>>) = Range(toWorker[w]) \cup {F("ACK", p)}
        BY <1>1, <3>2, SendFrames
      <4> QED
        BY <3>4, <4>1
    <3> QED
      BY <2>1, <3>1, <3>2, <3>5, <3>6
  <2> QED
    BY <2>2, <2>3, <2>4
<1>8. ASSUME NEW p \in Pairs, Admit(p)
      PROVE  f \in Range(toWorker[w]) \/ f.type \in {"ASSIGN", "INIT"}
  <2>1. toWorker'[w] \in {toWorker[w], toWorker[w] \o Assignment(p)}
    BY <1>1, <1>8, IdleWorkerFound DEF Admit, Deliver, Idle
  <2> QED
    BY <1>3, <1>4, <2>1
<1>9. ASSUME NEW p \in Pairs, Forward(p)
      PROVE  f \in Range(toWorker[w]) \/ f = Head(fromClient[p])
  <2>1. fromClient[p] # << >> /\ fromClient[p] \in Channel
    BY <1>9, ChannelTypes DEF Forward, FrontendReady
  <2>2. <<Head(fromClient[p])>> \in Channel /\ Range(<<Head(fromClient[p])>>) = {Head(fromClient[p])}
    BY <2>1, ReadHead, ShortChannels
  <2>3. toWorker'[w] \in {toWorker[w], toWorker[w] \o <<Head(fromClient[p])>>}
    BY <1>1, <1>9 DEF Forward, Deliver
  <2> QED
    BY <1>3, <2>2, <2>3
<1>10. CASE Exit
  <2>1. toWorker'[w] \in {toWorker[w], Append(toWorker[w], F("SHUTDOWN", NoPair))}
    BY <1>10 DEF Exit
  <2>2. /\ <<F("SHUTDOWN", NoPair)>> \in Channel
        /\ Range(<<F("SHUTDOWN", NoPair)>>) = {F("SHUTDOWN", NoPair)}
        /\ F("SHUTDOWN", NoPair) \in Frame /\ F("SHUTDOWN", NoPair).type = "SHUTDOWN"
    BY FrameFacts, ShortChannels
  <2>3. Append(toWorker[w], F("SHUTDOWN", NoPair)) = toWorker[w] \o <<F("SHUTDOWN", NoPair)>>
    BY <1>1, <2>2, AppendIsConcat DEF Channel
  <2>4. f \in Range(toWorker[w]) \/ f \in Range(<<F("SHUTDOWN", NoPair)>>)
    BY <1>3, <2>1, <2>2, <2>3
  <2> QED
    BY <2>2, <2>4
<1>11. CASE Restart
  <2>1. toWorker'[w] = << >>
    BY <1>11 DEF Restart, Empty
  <2> QED
    BY <2>1, ShortChannels
<1>12. ASSUME NEW v \in Worker, WorkerStep(v) \/ WorkerTimeout(v)
       PROVE  f \in Range(toWorker[w])
  <2>1. \/ toWorker'[w] = toWorker[w]
        \/ toWorker[w] # << >> /\ toWorker'[w] = Tail(toWorker[w])
    BY <1>1, <1>12
       DEF WorkerStep, WorkerTimeout, WorkerAssigned, WorkerReceive, WorkerAcknowledged, Consume
  <2> QED
    BY <1>1, <2>1, ReadHead
<1>13. ASSUME NEW p \in Pairs, ClientStep(p) \/ ClientTimeout(p)
       PROVE  f \in Range(toWorker[w])
  BY <1>13, InitiatorFrame
<1>14. ASSUME \/ Inactive \/ \E v \in Worker : Register(v)
              \/ \E p \in Pairs : Drop(p) \/ Replay(p)
       PROVE  f \in Range(toWorker[w])
  BY <1>14 DEF Inactive, Register, Drop, Replay
<1> QED
  BY <1>6, <1>7, <1>8, <1>9, <1>10, <1>11, <1>12, <1>13, <1>14 DEF Next, GatewayStep

(* A new DONE of a worker answers a FINAL. *)
LEMMA FromWorkerGains ==
    ASSUME IInv, Next, NEW w \in Worker, NEW f \in Range(fromWorker'[w]), f.type = "DONE"
    PROVE  f \in Range(fromWorker[w]) \/ F("FINAL", f.pair) \in Range(toWorker[w])
<1> USE DEF IInv
<1>1. /\ fromWorker \in [Worker -> Channel] /\ fromWorker[w] \in Channel
      /\ toWorker[w] \in Channel
  BY ChannelTypes
<1>2. ASSUME fromWorker'[w] = fromWorker[w] \/ (fromWorker[w] # << >> /\ fromWorker'[w] = Tail(fromWorker[w]))
      PROVE  f \in Range(fromWorker[w])
  BY <1>1, <1>2, ReadHead
<1>3. ASSUME NEW v \in Worker, Register(v) \/ Relay(v) \/ RelayDone(v)
      PROVE  f \in Range(fromWorker[w])
  <2>1. fromWorker[v] # << >> /\ fromWorker' = Consume(fromWorker, v)
    BY <1>3 DEF Register, Relay, RelayDone
  <2> QED
    BY <1>1, <1>2, <2>1 DEF Consume
<1>4. CASE Restart
  <2>1. fromWorker'[w] = <<F("REGISTER", NoPair)>>
    BY <1>4 DEF Restart
  <2>2. Range(<<F("REGISTER", NoPair)>>) = {F("REGISTER", NoPair)} /\ F("REGISTER", NoPair).type = "REGISTER"
    BY FrameFacts, ShortChannels
  <2> QED
    BY <2>1, <2>2
<1>5. ASSUME NEW v \in Worker, WorkerStep(v) \/ WorkerTimeout(v)
      PROVE  f \in Range(fromWorker[w]) \/ F("FINAL", f.pair) \in Range(toWorker[w])
  <2> DEFINE p == worker[v].pair
  <2>1. CASE WorkerAssigned(v) \/ WorkerAcknowledged(v)
    BY <1>2, <2>1 DEF WorkerAssigned, WorkerAcknowledged
  <2>2. ASSUME NEW pc, NEW new \in Channel, WorkerMoves(v, pc, new)
        PROVE  f \in Range(fromWorker[w]) \/ (v = w /\ f \in Range(new))
    <3>1. fromWorker'[w] = fromWorker[w] \/ (v = w /\ fromWorker'[w] = fromWorker[w] \o new)
      BY <1>1, <2>2 DEF WorkerMoves
    <3>2. Range(fromWorker[w] \o new) = Range(fromWorker[w]) \cup Range(new)
      BY <1>1, <2>2, SendFrames
    <3> QED
      BY <3>1, <3>2
  <2>3. CASE WorkerReceive(v)
    <3>1. p \in Pairs /\ worker[v].pc \in Session /\ toWorker[v] # << >>
      BY <2>3 DEF SessionInv, SessionAt, SessionOk, WorkerReceive, Session
    <3>2. \/ \E pc : \E type \in {"COMMIT", "OPEN", "ABORT"} : WorkerMoves(v, pc, Send(type, p))
          \/ \E pc : WorkerMoves(v, pc, BadVerdict(p))
          \/ \E pc : WorkerMoves(v, pc, Verdict(p)) /\ Head(toWorker[v]) = F("FINAL", p)
      BY <2>3 DEF WorkerReceive
    <3>3. \A type : F(type, p).type = type /\ F(type, p).pair = p
      BY FrameFacts
    <3>4. ASSUME NEW pc, NEW type \in {"COMMIT", "OPEN", "ABORT"}, WorkerMoves(v, pc, Send(type, p))
          PROVE  f \in Range(fromWorker[w])
      <4>1. Send(type, p) \in Channel /\ Range(Send(type, p)) = {F(type, p)}
        BY <3>1, ReportFacts DEF ReplyFrame
      <4> QED
        BY <2>2, <3>3, <3>4, <4>1
    <3>5. ASSUME NEW pc, WorkerMoves(v, pc, BadVerdict(p))
          PROVE  f \in Range(fromWorker[w])
      <4>1. BadVerdict(p) \in Channel /\ Range(BadVerdict(p)) \subseteq {F("BADSTATUS", p), F("ABORT", p)}
        BY <3>1, ReportFacts
      <4> QED
        BY <2>2, <3>3, <3>5, <4>1
    <3>6. ASSUME NEW pc, WorkerMoves(v, pc, Verdict(p)), Head(toWorker[v]) = F("FINAL", p)
          PROVE  f \in Range(fromWorker[w]) \/ F("FINAL", f.pair) \in Range(toWorker[w])
      <4>1. Verdict(p) \in Channel /\ Range(Verdict(p)) \subseteq {F("STATUS", p), F("DONE", p)}
        BY <3>1, ReportFacts
      <4>2. f \in Range(fromWorker[w]) \/ (v = w /\ f.pair = p)
        BY <2>2, <3>3, <3>6, <4>1
      <4>3. F("FINAL", p) \in Range(toWorker[v])
        BY <3>1, <3>6, ChannelTypes, ReadHead
      <4> QED
        BY <4>2, <4>3
    <3> QED
      BY <3>2, <3>4, <3>5, <3>6
  <2>4. CASE WorkerTimeout(v)
    <3>1. \/ worker[v].pc \in Session /\ WorkerMoves(v, "idle", Send("ABORT", p))
          \/ \E pc : WorkerMoves(v, pc, << >>)
      BY <2>4 DEF WorkerTimeout, Session
    <3>2. ASSUME worker[v].pc \in Session, WorkerMoves(v, "idle", Send("ABORT", p))
          PROVE  f \in Range(fromWorker[w])
      <4>1. p \in Pairs
        BY <3>2 DEF SessionInv, SessionAt, SessionOk
      <4>2. Send("ABORT", p) \in Channel /\ Range(Send("ABORT", p)) = {F("ABORT", p)}
        BY <4>1, ReportFacts DEF ReplyFrame
      <4>3. F("ABORT", p).type = "ABORT"
        BY FrameFacts
      <4> QED
        BY <2>2, <3>2, <4>2, <4>3
    <3>3. ASSUME NEW pc, WorkerMoves(v, pc, << >>)
          PROVE  f \in Range(fromWorker[w])
      BY <2>2, <3>3, ShortChannels
    <3> QED
      BY <3>1, <3>2, <3>3
  <2> QED
    BY <1>5, <2>1, <2>3, <2>4 DEF WorkerStep
<1>6. ASSUME NEW p \in Pairs, ClientStep(p) \/ ClientTimeout(p)
      PROVE  f \in Range(fromWorker[w])
  BY <1>2, <1>6, InitiatorFrame
<1>7. ASSUME \/ Inactive \/ Exit
             \/ \E p \in Pairs : Drop(p) \/ Replay(p) \/ Admit(p) \/ Forward(p)
      PROVE  f \in Range(fromWorker[w])
  BY <1>2, <1>7 DEF Inactive, Exit, Drop, Replay, Admit, Forward
<1> QED
  BY <1>3, <1>4, <1>5, <1>6, <1>7 DEF Next, GatewayStep

(* A new frame on its way to an initiator is of its pair, and a new DONE
   follows a durable record. *)
LEMMA ToClientGains ==
    ASSUME IInv, Next, NEW p \in Pairs, NEW f \in Range(toClient'[p])
    PROVE  \/ f \in Range(toClient[p])
           \/ f.pair = p /\ (f.type = "DONE" => journal'[p] = "durable")
<1> USE DEF IInv
<1>1. toClient \in [Pairs -> Channel] /\ toClient[p] \in Channel
  BY ChannelTypes
<1>2. ASSUME NEW q \in Pairs, NEW g \in Frame, NEW gone, toClient' = Deliver(toClient, q, gone, <<g>>)
      PROVE  f \in Range(toClient[p]) \/ (q = p /\ f = g)
  <2>1. <<g>> \in Channel /\ Range(<<g>>) = {g}
    BY ShortChannels
  <2>2. toClient'[p] = toClient[p] \/ (q = p /\ toClient'[p] = toClient[p] \o <<g>>)
    <3>1. CASE gone
      BY <1>1, <1>2, <3>1 DEF Deliver
    <3>2. CASE ~ gone
      <4>1. toClient' = [toClient EXCEPT ![q] = @ \o <<g>>]
        BY <1>2, <3>2 DEF Deliver
      <4> QED
        BY <1>1, <4>1
    <3> QED
      BY <3>1, <3>2
  <2>3. Range(toClient[p] \o <<g>>) = Range(toClient[p]) \cup {g}
    <3> DEFINE new == <<g>>
    <3>1. new \in Channel /\ Range(new) = {g}
      BY <2>1
    <3> HIDE DEF new
    <3>2. Range(toClient[p] \o new) = Range(toClient[p]) \cup {g}
      BY <1>1, <3>1, SendFrames
    <3> QED
      BY <3>2 DEF new
  <2> QED
    BY <2>2, <2>3
<1>3. ASSUME NEW w \in Worker, Relay(w)
      PROVE  f \in Range(toClient[p]) \/ (f.pair = p /\ f.type # "DONE")
  <2> DEFINE g == Head(fromWorker[w])
  <2>1. g.pair \in Pairs /\ g \in Frame
    BY <1>3, HeadServed DEF Relay
  <2>2. g.type # "DONE" /\ (toClient' = toClient
                            \/ toClient' = Deliver(toClient, g.pair, Closed(g.pair), <<g>>))
    BY <1>3 DEF Relay
  <2> HIDE DEF g
  <2> QED
    BY <1>2, <2>1, <2>2
<1>4. ASSUME NEW w \in Worker, RelayDone(w)
      PROVE  f \in Range(toClient[p]) \/ (f.pair = p /\ journal'[p] = "durable")
  <2> DEFINE q == Head(fromWorker[w]).pair
  <2>1. q \in Pairs /\ Serves(w, q)
    BY <1>4, RelayEffect
  <2>2. \/ toClient' = toClient
        \/ /\ journal' = [journal EXCEPT ![q] = "durable"]
           /\ \E gone : toClient' = Deliver(toClient, q, gone, <<F("DONE", q)>>)
    BY <1>4, <2>1 DEF RelayDone
  <2>3. CASE toClient' = toClient
    BY <2>3
  <2>4. ASSUME journal' = [journal EXCEPT ![q] = "durable"],
               NEW gone, toClient' = Deliver(toClient, q, gone, <<F("DONE", q)>>)
        PROVE  f \in Range(toClient[p]) \/ (f.pair = p /\ journal'[p] = "durable")
    <3>1. F("DONE", q) \in Frame /\ F("DONE", q).pair = q
      BY <2>1, FrameFacts
    <3>2. f \in Range(toClient[p]) \/ (q = p /\ f = F("DONE", q))
      BY <1>2, <2>1, <2>4, <3>1
    <3>3. journal'[q] = "durable"
      BY <2>1, <2>4 DEF TypeOK
    <3> HIDE DEF q
    <3> QED
      BY <3>1, <3>2, <3>3
  <2> QED
    BY <2>2, <2>3, <2>4
<1>5. ASSUME NEW q \in Pairs, Admit(q)
      PROVE  f \in Range(toClient[p]) \/ (f.pair = p /\ f.type # "DONE")
  <2>1. toClient' = toClient \/ toClient' = Deliver(toClient, q, Closed(q), <<F("ABORT", q)>>)
    BY <1>5 DEF Admit
  <2>2. F("ABORT", q) \in Frame /\ F("ABORT", q).pair = q /\ F("ABORT", q).type = "ABORT"
    BY FrameFacts
  <2> QED
    BY <1>2, <2>1, <2>2
<1>6. ASSUME NEW q \in Pairs, Replay(q)
      PROVE  f \in Range(toClient[p]) \/ (f.pair = p /\ journal'[p] = "durable")
  <2>1. \/ toClient' = toClient
        \/ /\ journal' = [journal EXCEPT ![q] = "durable"]
           /\ toClient' = Deliver(toClient, q, Closed(q), <<F("DONE", q)>>)
    BY <1>6 DEF Replay
  <2>2. F("DONE", q) \in Frame /\ F("DONE", q).pair = q
    BY FrameFacts
  <2>3. CASE toClient' = toClient
    BY <2>3
  <2>4. CASE /\ journal' = [journal EXCEPT ![q] = "durable"]
             /\ toClient' = Deliver(toClient, q, Closed(q), <<F("DONE", q)>>)
    <3>1. journal'[q] = "durable"
      BY <2>4 DEF TypeOK
    <3> QED
      BY <1>2, <2>2, <2>4, <3>1
  <2> QED
    BY <2>1, <2>3, <2>4
<1>7. CASE Restart
  <2>1. toClient'[p] = toClient[p] \/ toClient'[p] = << >>
    BY <1>7 DEF Restart
  <2> QED
    BY <2>1, ShortChannels
<1>8. ASSUME NEW q \in Pairs, ClientStep(q) \/ ClientTimeout(q)
      PROVE  f \in Range(toClient[p])
  <2>1. \/ toClient'[p] = toClient[p]
        \/ toClient[p] # << >> /\ toClient'[p] = Tail(toClient[p])
    BY <1>1, <1>8 DEF ClientStep, ClientTimeout, ClientStart, ClientReceive, ReceiveDone,
                      DoneTimeout, Consume
  <2> QED
    BY <1>1, <2>1, ReadHead
<1>9. ASSUME NEW w \in Worker, WorkerStep(w) \/ WorkerTimeout(w)
      PROVE  f \in Range(toClient[p])
  BY <1>9, WorkerFrame
<1>10. ASSUME \/ Inactive \/ Exit \/ \E w \in Worker : Register(w)
              \/ \E q \in Pairs : Drop(q) \/ Forward(q)
       PROVE  f \in Range(toClient[p])
  BY <1>10 DEF Inactive, Exit, Register, Drop, Forward
<1> QED
  BY <1>3, <1>4, <1>5, <1>6, <1>7, <1>8, <1>9, <1>10 DEF Next, GatewayStep

(* A first record follows a DONE of a worker, and a durable record stays. *)
LEMMA JournalGains ==
    ASSUME IInv, Next, NEW p \in Pairs
    PROVE  /\ journal'[p] # "none" => \/ journal[p] # "none"
                                      \/ \E w \in Worker : F("DONE", p) \in Range(fromWorker[w])
           /\ journal[p] = "durable" => journal'[p] = "durable"
<1> USE DEF IInv
<1>1. journal \in [Pairs -> {"none", "linked", "durable"}]
  BY DEF TypeOK
<1>2. ASSUME NEW q, StoreFails(q)
      PROVE  /\ journal'[p] # "none" => journal[p] # "none" \/ q = p
             /\ journal[p] = "durable" => journal'[p] = "durable"
  BY <1>1, <1>2 DEF StoreFails
<1>3. ASSUME NEW w \in Worker, RelayDone(w)
      PROVE  /\ journal'[p] # "none" => \/ journal[p] # "none"
                                        \/ F("DONE", p) \in Range(fromWorker[w])
             /\ journal[p] = "durable" => journal'[p] = "durable"
  <2> DEFINE f == Head(fromWorker[w])
  <2>1. f.type = "DONE" /\ f \in Frame /\ f \in Range(fromWorker[w]) /\ f.pair \in Pairs /\ Serves(w, f.pair)
    BY <1>3, HeadServed DEF RelayDone
  <2>2. F("DONE", f.pair) \in Range(fromWorker[w])
    BY <2>1, FrameEqual
  <2>3. StoreFails(f.pair) \/ journal' = [journal EXCEPT ![f.pair] = "durable"]
    BY <1>3, <2>1 DEF RelayDone
  <2> HIDE DEF f
  <2>4. CASE StoreFails(f.pair)
    BY <1>2, <2>2, <2>4
  <2>5. CASE journal' = [journal EXCEPT ![f.pair] = "durable"]
    BY <1>1, <2>1, <2>2, <2>5
  <2> QED
    BY <2>3, <2>4, <2>5
<1>4. ASSUME NEW q \in Pairs, Replay(q)
      PROVE  /\ journal'[p] # "none" => journal[p] # "none"
             /\ journal[p] = "durable" => journal'[p] = "durable"
  <2>1. \/ journal' = journal
        \/ journal[q] # "none" /\ (StoreFails(q) \/ journal' = [journal EXCEPT ![q] = "durable"])
    BY <1>4 DEF Replay
  <2> QED
    BY <1>1, <1>2, <2>1
<1>5. CASE Restart
  BY <1>1, <1>5 DEF Restart
<1>6. ASSUME NEW w \in Worker, Register(w) \/ Relay(w) \/ WorkerStep(w) \/ WorkerTimeout(w)
      PROVE  journal' = journal
  BY <1>6, WorkerFrame DEF Register, Relay
<1>7. ASSUME NEW q \in Pairs, Drop(q) \/ Admit(q) \/ Forward(q) \/ ClientStep(q) \/ ClientTimeout(q)
      PROVE  journal' = journal
  BY <1>7, InitiatorFrame DEF Drop, Admit, Forward
<1>8. CASE Exit \/ Inactive
  BY <1>8 DEF Exit, Inactive
<1> QED
  BY <1>3, <1>4, <1>5, <1>6, <1>7, <1>8 DEF Next, GatewayStep

-----------------------------------------------------------------------------
(* The initiators *)

(* What a step does to an initiator and to its channel to the gateway. *)
LEMMA InitiatorChange ==
    ASSUME TypeOK, Next, NEW p \in Pairs
    PROVE  \/ /\ client'[p].pc = client[p].pc
              /\ \/ fromClient'[p] = fromClient[p] \/ fromClient'[p] = << >>
                 \/ fromClient[p] # << >> /\ fromClient'[p] = Tail(fromClient[p])
           \/ /\ client[p].pc \notin PastFinal
              /\ \E type \in {"INIT", "NONCE", "FINAL", "ABORT"} :
                   /\ fromClient'[p] = fromClient[p] \o <<F(type, p)>>
                   /\ type = "FINAL" => client'[p].pc \in PastFinal
           \/ /\ client[p].pc \in PastFinal => client'[p].pc \in PastFinal
              /\ fromClient'[p] = fromClient[p]
           \/ /\ client[p].pc \in PastFinal /\ client'[p].pc \in PastFinal
              /\ fromClient'[p] = fromClient[p] \o <<F("QUERY", p)>>
<1>1. /\ client \in [Pairs -> [pc : {"new", "commit", "open", "status", "done", "abort", "ok", "failed"},
                               attempt : 0 .. Retries]]
      /\ fromClient \in [Pairs -> Channel]
      /\ fromClient[p] \o << >> = fromClient[p]
  <2>1. fromClient \in [Pairs -> Channel]
    BY ChannelTypes
  <2>2. fromClient[p] \o << >> = fromClient[p]
    BY <2>1, ConcatEmptySeq DEF Channel
  <2> QED
    BY <2>1, <2>2 DEF TypeOK
<1> DEFINE Moved(pc, new) == client'[p].pc = pc /\ fromClient'[p] = fromClient[p] \o new
<1>2. ASSUME NEW q \in Pairs, NEW pc, NEW new, ClientMoves(q, pc, new)
      PROVE  IF q = p THEN Moved(pc, new)
                      ELSE client'[p].pc = client[p].pc /\ fromClient'[p] = fromClient[p]
  BY <1>1, <1>2 DEF ClientMoves
<1>3. ASSUME NEW q \in Pairs, ClientStart(q)
      PROVE  \/ client'[p].pc = client[p].pc /\ fromClient'[p] = fromClient[p]
             \/ client[p].pc = "new" /\ Moved("commit", <<F("INIT", p)>>)
  BY <1>2, <1>3 DEF ClientStart, Send
<1>4. ASSUME NEW q \in Pairs, ClientReceive(q)
      PROVE  \/ client'[p].pc = client[p].pc /\ fromClient'[p] = fromClient[p]
             \/ client[p].pc = "commit" /\ Moved("open", <<F("NONCE", p)>>)
             \/ /\ client[p].pc = "open"
                /\ \E pc \in {"status", "done"} : Moved(pc, <<F("FINAL", p)>>)
             \/ client[p].pc = "open" /\ Moved("abort", <<F("ABORT", p)>>)
             \/ \E pc \in {"done", "failed"} : Moved(pc, << >>)
  <2>1. \/ client[q].pc = "commit" /\ ClientMoves(q, "open", <<F("NONCE", q)>>)
        \/ /\ client[q].pc = "open"
           /\ \E pc \in {"status", "done"} : ClientMoves(q, pc, <<F("FINAL", q)>>)
        \/ client[q].pc = "open" /\ ClientMoves(q, "abort", <<F("ABORT", q)>>)
        \/ \E pc \in {"done", "failed"} : ClientMoves(q, pc, << >>)
    BY <1>4 DEF ClientReceive, Send
  <2> QED
    BY <1>2, <2>1
<1>5. ASSUME NEW q \in Pairs, ClientTimeout(q)
      PROVE  \/ client'[p].pc = client[p].pc /\ fromClient'[p] = fromClient[p]
             \/ Moved("failed", << >>)
  BY <1>2, <1>5 DEF ClientTimeout
<1>6. ASSUME NEW q \in Pairs, client[q].pc = "done", NextAttempt(q)
      PROVE  \/ client'[p].pc = client[p].pc /\ fromClient'[p] = fromClient[p]
             \/ client[p].pc = "done" /\ Moved("done", <<F("QUERY", p)>>)
             \/ Moved("failed", << >>)
  <2>1. CASE /\ client' = [client EXCEPT ![q].attempt = @ + 1]
             /\ fromClient' = [fromClient EXCEPT ![q] = @ \o Send("QUERY", q)]
    BY <1>1, <1>6, <2>1 DEF Send
  <2>2. CASE ClientMoves(q, "failed", << >>)
    BY <1>2, <2>2
  <2> QED
    BY <1>6, <2>1, <2>2 DEF NextAttempt
<1>7. ASSUME NEW q \in Pairs, ReceiveDone(q) \/ DoneTimeout(q)
      PROVE  \/ client'[p].pc = client[p].pc /\ fromClient'[p] = fromClient[p]
             \/ client[p].pc = "done" /\ Moved("done", <<F("QUERY", p)>>)
             \/ \E pc \in {"ok", "failed"} : Moved(pc, << >>)
  <2>1. client[q].pc = "done" /\ (NextAttempt(q) \/ ClientMoves(q, "ok", << >>))
    BY <1>7 DEF ReceiveDone, DoneTimeout
  <2>2. CASE ClientMoves(q, "ok", << >>)
    BY <1>2, <2>2
  <2>3. CASE NextAttempt(q)
    BY <1>6, <2>1, <2>3
  <2> QED
    BY <2>1, <2>2, <2>3
<1>8. ASSUME NEW q \in Pairs, ClientStep(q) \/ ClientTimeout(q)
      PROVE  \/ client'[p].pc = client[p].pc /\ fromClient'[p] = fromClient[p]
             \/ client[p].pc = "new" /\ Moved("commit", <<F("INIT", p)>>)
             \/ client[p].pc = "commit" /\ Moved("open", <<F("NONCE", p)>>)
             \/ /\ client[p].pc = "open"
                /\ \E pc \in {"status", "done"} : Moved(pc, <<F("FINAL", p)>>)
             \/ client[p].pc = "open" /\ Moved("abort", <<F("ABORT", p)>>)
             \/ client[p].pc = "done" /\ Moved("done", <<F("QUERY", p)>>)
             \/ \E pc \in {"done", "ok", "failed"} : Moved(pc, << >>)
  BY <1>3, <1>4, <1>5, <1>7, <1>8 DEF ClientStep
<1>9. ASSUME NEW q \in Pairs, Drop(q) \/ Admit(q) \/ Forward(q) \/ Replay(q)
      PROVE  /\ client'[p].pc = client[p].pc
             /\ \/ fromClient'[p] = fromClient[p]
                \/ fromClient[p] # << >> /\ fromClient'[p] = Tail(fromClient[p])
  <2>1. fromClient[q] # << >> /\ fromClient' = Consume(fromClient, q) /\ client' = client
    BY <1>9 DEF Drop, Admit, Forward, Replay, FrontendReady
  <2> QED
    BY <1>1, <2>1 DEF Consume
<1>10. ASSUME NEW w \in Worker,
              Register(w) \/ Relay(w) \/ RelayDone(w) \/ WorkerStep(w) \/ WorkerTimeout(w)
       PROVE  client'[p].pc = client[p].pc /\ fromClient'[p] = fromClient[p]
  BY <1>10, WorkerFrame DEF Register, Relay, RelayDone
<1>11. CASE Exit \/ Inactive
  BY <1>11 DEF Exit, Inactive
<1>12. CASE Restart
  BY <1>12 DEF Restart
<1>13. /\ "new" \notin PastFinal /\ "commit" \notin PastFinal /\ "open" \notin PastFinal
       /\ {"status", "done", "ok", "failed"} \subseteq PastFinal
  BY DEF PastFinal
<1>14. ASSUME NEW q \in Pairs, ClientStep(q) \/ ClientTimeout(q)
       PROVE  \/ client'[p].pc = client[p].pc /\ fromClient'[p] = fromClient[p]
              \/ /\ client[p].pc \notin PastFinal
                 /\ \E type \in {"INIT", "NONCE", "FINAL", "ABORT"} :
                      /\ fromClient'[p] = fromClient[p] \o <<F(type, p)>>
                      /\ type = "FINAL" => client'[p].pc \in PastFinal
              \/ /\ client[p].pc \in PastFinal => client'[p].pc \in PastFinal
                 /\ fromClient'[p] = fromClient[p]
              \/ /\ client[p].pc \in PastFinal /\ client'[p].pc \in PastFinal
                 /\ fromClient'[p] = fromClient[p] \o <<F("QUERY", p)>>
  BY <1>1, <1>8, <1>13, <1>14
<1> QED
  BY <1>9, <1>10, <1>11, <1>12, <1>14 DEF Next, GatewayStep

(* Once the initiator has sent its FINAL, it and its channel stay that way. *)
LEMMA OnlyQueriesStable ==
    ASSUME TypeOK, Next, NEW p \in Pairs, OnlyQueries(p)
    PROVE  OnlyQueries(p)'
<1>1. fromClient[p] \in Channel
  BY ChannelTypes
<1>2. CASE /\ client'[p].pc = client[p].pc
           /\ \/ fromClient'[p] = fromClient[p] \/ fromClient'[p] = << >>
              \/ fromClient[p] # << >> /\ fromClient'[p] = Tail(fromClient[p])
  BY <1>1, <1>2, ReadHead, ShortChannels DEF OnlyQueries
<1>3. CASE client'[p].pc \in PastFinal /\ fromClient'[p] = fromClient[p]
  BY <1>3 DEF OnlyQueries
<1>4. CASE client'[p].pc \in PastFinal /\ fromClient'[p] = fromClient[p] \o <<F("QUERY", p)>>
  <2>1. <<F("QUERY", p)>> \in Channel /\ Range(<<F("QUERY", p)>>) = {F("QUERY", p)}
        /\ F("QUERY", p).type = "QUERY"
    BY FrameFacts, ShortChannels
  <2>2. Range(fromClient[p] \o <<F("QUERY", p)>>) = Range(fromClient[p]) \cup {F("QUERY", p)}
    BY <1>1, <2>1, SendFrames
  <2> QED
    BY <1>4, <2>1, <2>2 DEF OnlyQueries
<1>5. client[p].pc \in PastFinal
  BY DEF OnlyQueries
<1> QED
  BY <1>2, <1>3, <1>4, <1>5, InitiatorChange

(* Every step keeps the initiators' channels in order. *)
LEMMA InitiatorStep ==
    ASSUME IInv, Next
    PROVE  InitiatorInv'
<1> SUFFICES ASSUME NEW p \in Pairs
             PROVE  /\ \A f \in Range(fromClient'[p]) : f.pair = p /\ f.type \in ClientFrame
                    /\ \A f \in Range(toClient'[p]) : f.pair = p
                    /\ FinalThenQueries(fromClient'[p])
                    /\ (\E f \in Range(fromClient'[p]) : f.type = "FINAL") =>
                          client'[p].pc \in PastFinal
  BY DEF InitiatorInv
<1> USE DEF IInv
<1>1. fromClient[p] \in Channel
  BY ChannelTypes
<1>2. \A f \in Range(toClient'[p]) : f.pair = p
  BY ToClientGains DEF InitiatorInv
<1> DEFINE Ok(out, pc) ==
             /\ \A f \in Range(out) : f.pair = p /\ f.type \in ClientFrame
             /\ FinalThenQueries(out)
             /\ (\E f \in Range(out) : f.type = "FINAL") => pc \in PastFinal
<1>3. Ok(fromClient[p], client[p].pc)
  BY DEF InitiatorInv
<1>4. CASE client'[p].pc = client[p].pc /\ fromClient'[p] = fromClient[p]
  BY <1>2, <1>3, <1>4
<1>5. CASE client'[p].pc = client[p].pc /\ fromClient'[p] = << >>
  <2>1. FinalThenQueries(<< >>)
    BY DEF FinalThenQueries
  <2> QED
    BY <1>2, <1>5, <2>1, ShortChannels
<1>6. CASE /\ client'[p].pc = client[p].pc
           /\ fromClient[p] # << >> /\ fromClient'[p] = Tail(fromClient[p])
  <2>1. Range(Tail(fromClient[p])) \subseteq Range(fromClient[p])
    BY <1>1, <1>6, ReadHead
  <2>2. FinalThenQueries(Tail(fromClient[p]))
    BY <1>1, <1>3, <1>6, FinalOrder
  <2> QED
    BY <1>2, <1>3, <1>6, <2>1, <2>2
<1>7. ASSUME NEW type \in ClientFrame, fromClient'[p] = fromClient[p] \o <<F(type, p)>>,
             type = "QUERY" \/ client[p].pc \notin PastFinal,
             client[p].pc \in PastFinal \/ type = "FINAL" => client'[p].pc \in PastFinal
      PROVE  Ok(fromClient'[p], client'[p].pc)
  <2> DEFINE f == F(type, p)
             new == <<f>>
  <2>1. f \in Frame /\ f.type = type /\ f.pair = p
    BY DEF F, Frame
  <2> HIDE DEF f
  <2>2. new \in Channel /\ Range(new) = {f}
    BY <2>1, ShortChannels
  <2> HIDE DEF new
  <2>3. Range(fromClient[p] \o new) = Range(fromClient[p]) \cup {f}
    BY <1>1, <2>2, SendFrames
  <2>4. FinalThenQueries(fromClient[p] \o <<f>>)
    BY <1>1, <1>3, <1>7, <2>1, FinalOrder
  <2>5. fromClient'[p] = fromClient[p] \o new
    BY <1>7 DEF f, new
  <2>6. FinalThenQueries(fromClient'[p])
    BY <2>4, <2>5 DEF new
  <2> QED
    BY <1>3, <1>7, <2>1, <2>3, <2>5, <2>6
<1>8. CASE /\ client[p].pc \notin PastFinal
           /\ \E type \in {"INIT", "NONCE", "FINAL", "ABORT"} :
                /\ fromClient'[p] = fromClient[p] \o <<F(type, p)>>
                /\ type = "FINAL" => client'[p].pc \in PastFinal
  BY <1>2, <1>7, <1>8 DEF ClientFrame
<1>9. CASE /\ client[p].pc \in PastFinal => client'[p].pc \in PastFinal
           /\ fromClient'[p] = fromClient[p]
  BY <1>2, <1>3, <1>9
<1>10. CASE /\ client[p].pc \in PastFinal /\ client'[p].pc \in PastFinal
            /\ fromClient'[p] = fromClient[p] \o <<F("QUERY", p)>>
  BY <1>2, <1>7, <1>10 DEF ClientFrame
<1> QED
  BY <1>4, <1>5, <1>6, <1>8, <1>9, <1>10, InitiatorChange

-----------------------------------------------------------------------------
(* The journal and the routes *)

(* A release ends its own route and touches at most one other, which was
   waiting and gets the worker. *)
LEMMA ReleaseRoutes ==
    ASSUME TypeOK, TablesInv, NEW w \in Worker, NEW p, Serves(w, p),
           NEW toW, Release(w, p, toW)
    PROVE  /\ p \in Pairs /\ routes'[p].terminal
           /\ \A r \in Pairs \ {p} :
                \/ routes'[r] = routes[r]
                \/ /\ routes[r].queued /\ ~ routes[r].terminal
                   /\ routes'[r].worker # W
<1>1. /\ routes \in [Pairs -> [seen : BOOLEAN, queued : BOOLEAN, terminal : BOOLEAN,
                               worker : Worker \cup {W}]]
      /\ p \in Pairs /\ w # W /\ routes[p].worker = w
  BY WorkerFacts DEF TypeOK, Serves
<1>2. CASE queue = << >>
  BY <1>1, <1>2 DEF Release
<1>3. CASE queue # << >>
  <2> DEFINE q == Head(queue)
  <2>1. q \in Range(queue) /\ q \in Pairs
    BY <1>3, QueueReads DEF TypeOK, TablesInv, QueueInv
  <2>2. routes[q].queued /\ ~ routes[q].terminal /\ routes[q].worker = W
    BY <2>1 DEF TablesInv, QueueInv, AssignmentInv, Waiting
  <2>3. routes' = AssignRoute([routes EXCEPT ![p].terminal = TRUE], q, w)
    BY <1>3 DEF Release
  <2> HIDE DEF q
  <2>4. p # q
    BY <1>1, <2>2
  <2> QED
    BY <1>1, <2>1, <2>2, <2>3, <2>4 DEF AssignRoute
<1> QED
  BY <1>2, <1>3

(* A route falls into limbo only by a replay, of a record. *)
LEMMA RouteGains ==
    ASSUME IInv, Next, NEW p \in Pairs, Limbo(p)'
    PROVE  Limbo(p) \/ journal[p] # "none"
<1> USE DEF IInv
<1>1. /\ routes \in [Pairs -> [seen : BOOLEAN, queued : BOOLEAN, terminal : BOOLEAN,
                               worker : Worker \cup {W}]]
      /\ ~ routes'[p].terminal /\ routes'[p].worker = W /\ ~ routes'[p].queued /\ routes'[p].seen
  BY DEF TypeOK, Limbo
<1>2. ASSUME routes'[p] = routes[p]
      PROVE  Limbo(p)
  BY <1>2 DEF Limbo
<1>3. ASSUME NEW w \in Worker, Relay(w) \/ RelayDone(w)
      PROVE  Limbo(p)
  <2> DEFINE q == Head(fromWorker[w]).pair
  <2>1. /\ Serves(w, q)
        /\ \/ routes' = routes
           \/ Release(w, q, toWorker) \/ Release(w, q, Acked(w, q))
    BY <1>3, RelayEffect DEF tables
  <2> HIDE DEF q
  <2>2. CASE routes' = routes
    BY <1>2, <2>2
  <2>3. ASSUME NEW toW, Release(w, q, toW)
        PROVE  Limbo(p)
    <3>1. routes'[p] = routes[p]
      BY <1>1, <2>1, <2>3, ReleaseRoutes
    <3> QED
      BY <1>2, <3>1
  <2> QED
    BY <2>1, <2>2, <2>3
<1>4. ASSUME NEW q \in Pairs, Admit(q)
      PROVE  Limbo(p)
  <2>1. Idle # {} => FindIdleWorker \in Worker /\ FindIdleWorker # W
    BY IdleWorkerFound, WorkerFacts DEF Idle
  <2>2. \/ /\ Idle # {}
           /\ routes' = AssignRoute([routes EXCEPT ![q].seen = TRUE], q, FindIdleWorker)
        \/ routes' = [[routes EXCEPT ![q].seen = TRUE] EXCEPT ![q].queued = TRUE]
        \/ routes' = [[routes EXCEPT ![q].seen = TRUE] EXCEPT ![q].terminal = TRUE]
    BY <1>4 DEF Admit
  <2>3. p # q
    BY <1>1, <2>1, <2>2 DEF AssignRoute
  <2>4. routes'[p] = routes[p]
    BY <1>1, <2>2, <2>3 DEF AssignRoute
  <2> QED
    BY <1>2, <2>4
<1>5. ASSUME NEW q \in Pairs, Replay(q)
      PROVE  Limbo(p) \/ journal[p] # "none"
  <2>1. \/ routes' = routes
        \/ /\ journal[q] # "none"
           /\ \A r \in Pairs \ {q} : routes'[r] = routes[r]
    BY <1>1, <1>5 DEF Replay
  <2> QED
    BY <1>2, <2>1
<1>6. CASE Restart
  BY <1>1, <1>6 DEF Restart, NewRoutes
<1>7. ASSUME NEW w \in Worker, Register(w) \/ WorkerStep(w) \/ WorkerTimeout(w)
      PROVE  routes' = routes
  BY <1>7, WorkerFrame DEF Register, tables
<1>8. ASSUME NEW q \in Pairs, Drop(q) \/ Forward(q) \/ ClientStep(q) \/ ClientTimeout(q)
      PROVE  routes' = routes
  BY <1>8, InitiatorFrame DEF Drop, Forward, Die, gwVars, tables
<1>9. CASE Exit \/ Inactive
  BY <1>2, <1>9 DEF Exit, Inactive, Die, tables
<1> QED
  BY <1>2, <1>3, <1>4, <1>5, <1>6, <1>7, <1>8, <1>9 DEF Next, GatewayStep

(* A FINAL that the gateway forwards is the last frame of its initiator that
   is not a query. *)
LEMMA ForwardedFinal ==
    ASSUME IInv, NEW p \in Pairs, NEW q \in Pairs, Forward(q), Head(fromClient[q]) = F("FINAL", p)
    PROVE  OnlyQueries(p)'
<1> USE DEF IInv
<1>1. fromClient[q] # << >> /\ fromClient[q] \in Channel /\ fromClient \in [Pairs -> Channel]
  BY ChannelTypes DEF Forward, FrontendReady
<1>2. /\ Head(fromClient[q]) \in Range(fromClient[q])
      /\ Head(fromClient[q]).type = "FINAL" /\ Head(fromClient[q]).pair = p
  BY <1>1, ReadHead, FrameFacts
<1>3. q = p /\ client[p].pc \in PastFinal /\ FinalThenQueries(fromClient[q])
  BY <1>2 DEF InitiatorInv
<1>4. \A f \in Range(Tail(fromClient[q])) : f.type = "QUERY"
  BY <1>1, <1>2, <1>3, FinalOrder
<1>5. client' = client /\ fromClient' = Consume(fromClient, q)
  BY DEF Forward
<1>6. fromClient'[p] = Tail(fromClient[q])
  BY <1>1, <1>3, <1>5 DEF Consume
<1> QED
  BY <1>3, <1>4, <1>5, <1>6 DEF OnlyQueries

(* Every trace that a FINAL leaves behind shows that it was sent. *)
LEMMA EvidenceStep ==
    ASSUME IInv, Next
    PROVE  EvidenceInv'
<1> SUFFICES ASSUME NEW p \in Pairs,
                    \/ \E w \in Worker : \/ F("FINAL", p) \in Range(toWorker'[w])
                                         \/ F("DONE", p) \in Range(fromWorker'[w])
                    \/ journal'[p] # "none"
                    \/ Limbo(p)'
             PROVE  OnlyQueries(p)'
  BY DEF EvidenceInv
<1>0. TypeOK
  BY DEF IInv
<1>1. F("FINAL", p).type = "FINAL" /\ F("DONE", p).type = "DONE" /\ F("DONE", p).pair = p
  BY FrameFacts
<1>2. ASSUME \/ \E w \in Worker : \/ F("FINAL", p) \in Range(toWorker[w])
                                  \/ F("DONE", p) \in Range(fromWorker[w])
             \/ journal[p] # "none"
             \/ Limbo(p)
      PROVE  OnlyQueries(p)'
  <2>1. OnlyQueries(p)
    BY <1>2 DEF IInv, EvidenceInv
  <2> QED
    BY <1>0, <2>1, OnlyQueriesStable
<1>3. ASSUME NEW w \in Worker, F("FINAL", p) \in Range(toWorker'[w])
      PROVE  OnlyQueries(p)'
  <2>1. \/ F("FINAL", p) \in Range(toWorker[w])
        \/ \E q \in Pairs : Forward(q) /\ F("FINAL", p) = Head(fromClient[q])
    BY <1>1, <1>3, ToWorkerGains
  <2> QED
    BY <1>2, <2>1, ForwardedFinal
<1>4. ASSUME NEW w \in Worker, F("DONE", p) \in Range(fromWorker'[w])
      PROVE  OnlyQueries(p)'
  <2>1. F("DONE", p) \in Range(fromWorker[w]) \/ F("FINAL", p) \in Range(toWorker[w])
    BY <1>1, <1>4, FromWorkerGains
  <2> QED
    BY <1>2, <2>1
<1>5. CASE journal'[p] # "none"
  BY <1>2, <1>5, JournalGains
<1>6. CASE Limbo(p)'
  BY <1>2, <1>6, RouteGains
<1> QED
  BY <1>3, <1>4, <1>5, <1>6

(* A record is made when its route ends, or the gateway ends. *)
LEMMA RecordStep ==
    ASSUME IInv, Next
    PROVE  RecordInv'
<1> SUFFICES ASSUME gateway' = "up", NEW p \in Pairs, journal'[p] # "none"
             PROVE  routes'[p].terminal \/ (~ routes'[p].queued /\ routes'[p].worker = W)
  BY DEF RecordInv
<1> USE DEF IInv
<1>1. /\ routes \in [Pairs -> [seen : BOOLEAN, queued : BOOLEAN, terminal : BOOLEAN,
                               worker : Worker \cup {W}]]
      /\ journal \in [Pairs -> {"none", "linked", "durable"}]
  BY DEF TypeOK
<1>2. ASSUME gateway = "up", journal'[p] = journal[p], routes'[p] = routes[p]
      PROVE  routes'[p].terminal \/ (~ routes'[p].queued /\ routes'[p].worker = W)
  BY <1>2 DEF RecordInv
<1>3. ASSUME NEW w \in Worker, NEW q, NEW toW, gateway = "up", Serves(w, q), Release(w, q, toW),
             q # p => journal'[p] = journal[p]
      PROVE  routes'[p].terminal \/ (~ routes'[p].queued /\ routes'[p].worker = W)
  <2>1. /\ routes'[q].terminal
        /\ p # q => \/ routes'[p] = routes[p]
                    \/ routes[p].queued /\ ~ routes[p].terminal
    BY <1>3, ReleaseRoutes
  <2>2. CASE p = q
    BY <2>1, <2>2
  <2>3. CASE p # q
    <3>1. routes[p].terminal \/ (~ routes[p].queued /\ routes[p].worker = W)
      BY <1>3, <2>3 DEF RecordInv
    <3> QED
      BY <2>1, <2>3, <3>1
  <2> QED
    BY <2>2, <2>3
<1>4. ASSUME NEW w \in Worker, Relay(w)
      PROVE  routes'[p].terminal \/ (~ routes'[p].queued /\ routes'[p].worker = W)
  <2> DEFINE q == Head(fromWorker[w]).pair
  <2>1. Serves(w, q) /\ gateway = "up"
    BY <1>4, RelayEffect
  <2>2. journal' = journal /\ (routes' = routes \/ Release(w, q, toWorker))
    BY <1>4, <2>1 DEF Relay, gwVars, tables, Die
  <2> HIDE DEF q
  <2> QED
    BY <1>2, <1>3, <2>1, <2>2
<1>5. ASSUME NEW w \in Worker, RelayDone(w)
      PROVE  routes'[p].terminal \/ (~ routes'[p].queued /\ routes'[p].worker = W)
  <2> DEFINE q == Head(fromWorker[w]).pair
  <2>1. Serves(w, q) /\ gateway = "up"
    BY <1>5, RelayEffect
  <2>2. /\ journal' = [journal EXCEPT ![q] = "durable"]
        /\ Release(w, q, Acked(w, q))
    BY <1>5, <2>1 DEF RelayDone, Acked, Die
  <2> HIDE DEF q
  <2>3. q # p => journal'[p] = journal[p]
    BY <1>1, <2>2
  <2> QED
    BY <1>3, <2>1, <2>2, <2>3
<1>6. ASSUME NEW q \in Pairs, Admit(q)
      PROVE  routes'[p].terminal \/ (~ routes'[p].queued /\ routes'[p].worker = W)
  <2>1. /\ gateway = "up" /\ journal' = journal
        /\ fromClient[q] # << >> /\ Head(fromClient[q]).type = "INIT"
        /\ \A r \in Pairs \ {q} : routes'[r] = routes[r]
    BY <1>1, <1>6 DEF Admit, FrontendReady, AssignRoute
  <2>2. p # q
    <3>1. OnlyQueries(p)
      BY <2>1 DEF EvidenceInv
    <3>2. fromClient[q] \in Channel
      BY ChannelTypes
    <3> QED
      BY <2>1, <3>1, <3>2, ReadHead DEF OnlyQueries
  <2> QED
    BY <1>2, <2>1, <2>2
<1>7. ASSUME NEW q \in Pairs, Replay(q)
      PROVE  routes'[p].terminal \/ (~ routes'[p].queued /\ routes'[p].worker = W)
  <2>1. gateway = "up"
    BY <1>7 DEF Replay, FrontendReady
  <2>2. \/ UNCHANGED <<journal, routes>>
        \/ /\ journal[q] # "none"
           /\ \A r \in Pairs \ {q} : journal'[r] = journal[r] /\ routes'[r] = routes[r]
           /\ routes[q].terminal => routes'[q].terminal
           /\ routes'[q].queued = routes[q].queued /\ routes'[q].worker = routes[q].worker
    <3>1. ASSUME StoreFails(q)
          PROVE  \A r \in Pairs \ {q} : journal'[r] = journal[r]
      BY <1>1, <3>1 DEF StoreFails
    <3>2. ASSUME \/ routes' = routes
                 \/ routes' = [routes EXCEPT ![q].seen = TRUE]
                 \/ routes' = [routes EXCEPT ![q].seen = TRUE, ![q].terminal = TRUE]
          PROVE  /\ \A r \in Pairs \ {q} : routes'[r] = routes[r]
                 /\ routes[q].terminal => routes'[q].terminal
                 /\ routes'[q].queued = routes[q].queued /\ routes'[q].worker = routes[q].worker
      BY <1>1, <3>2
    <3>3. \/ UNCHANGED <<journal, routes>>
          \/ /\ journal[q] # "none"
             /\ StoreFails(q) \/ journal' = [journal EXCEPT ![q] = "durable"]
             /\ \/ routes' = routes
                \/ routes' = [routes EXCEPT ![q].seen = TRUE]
                \/ routes' = [routes EXCEPT ![q].seen = TRUE, ![q].terminal = TRUE]
      BY <1>7 DEF Replay
    <3> QED
      BY <1>1, <3>1, <3>2, <3>3
  <2>3. CASE UNCHANGED <<journal, routes>>
    BY <1>2, <2>1, <2>3
  <2>4. CASE /\ journal[q] # "none"
             /\ \A r \in Pairs \ {q} : journal'[r] = journal[r] /\ routes'[r] = routes[r]
             /\ routes[q].terminal => routes'[q].terminal
             /\ routes'[q].queued = routes[q].queued /\ routes'[q].worker = routes[q].worker
    BY <1>2, <2>1, <2>4 DEF RecordInv
  <2> QED
    BY <2>2, <2>3, <2>4
<1>8. CASE Restart
  BY <1>8 DEF Restart, NewRoutes
<1>9. ASSUME NEW w \in Worker, Register(w) \/ WorkerStep(w) \/ WorkerTimeout(w)
      PROVE  gateway = "up" /\ journal' = journal /\ routes' = routes
  BY <1>9, WorkerFrame DEF Register, tables
<1>10. ASSUME NEW q \in Pairs, Drop(q) \/ Forward(q) \/ ClientStep(q) \/ ClientTimeout(q)
       PROVE  gateway = "up" /\ journal' = journal /\ routes' = routes
  BY <1>10, InitiatorFrame DEF Drop, Forward, FrontendReady, Die, gwVars, tables
<1>11. CASE Exit \/ Inactive
  BY <1>11 DEF Exit, Inactive, Die
<1> QED
  BY <1>2, <1>4, <1>5, <1>6, <1>7, <1>8, <1>9, <1>10, <1>11 DEF Next, GatewayStep

-----------------------------------------------------------------------------
(* Durable before known, and the shutdown *)

(* A channel holds a frame that is among its frames. *)
LEMMA HoldsRange ==
    ASSUME NEW channel, NEW type, NEW p
    PROVE  Holds(channel, type, p) <=> F(type, p) \in Range(channel)
  BY DEF Holds, Range

(* An initiator that has just exported read the DONE of its pair. *)
LEMMA ClientOk ==
    ASSUME IInv, Next, NEW p \in Pairs, client'[p].pc = "ok"
    PROVE  client[p].pc = "ok" \/ F("DONE", p) \in Range(toClient[p])
<1> USE DEF IInv
<1>1. /\ client \in [Pairs -> [pc : {"new", "commit", "open", "status", "done", "abort", "ok", "failed"},
                               attempt : 0 .. Retries]]
      /\ toClient \in [Pairs -> Channel]
  BY ChannelTypes DEF TypeOK
<1>2. ASSUME NEW q \in Pairs, NEW pc, pc # "ok", NEW new, ClientMoves(q, pc, new)
      PROVE  client[p].pc = "ok"
  BY <1>1, <1>2 DEF ClientMoves
<1>3. ASSUME NEW q \in Pairs, NextAttempt(q)
      PROVE  client[p].pc = "ok"
  <2>1. CASE client' = [client EXCEPT ![q].attempt = @ + 1]
    BY <1>1, <2>1
  <2>2. CASE ClientMoves(q, "failed", << >>)
    BY <1>2, <2>2
  <2> QED
    BY <1>3, <2>1, <2>2 DEF NextAttempt
<1>4. ASSUME NEW q \in Pairs, ReceiveDone(q), Head(toClient[q]).type = "DONE"
      PROVE  client[p].pc = "ok" \/ F("DONE", p) \in Range(toClient[p])
  <2>1. toClient[q] # << >> /\ toClient[q] \in Channel
    BY <1>1, <1>4 DEF ReceiveDone
  <2>2. Head(toClient[q]) \in Frame /\ Head(toClient[q]) \in Range(toClient[q])
    BY <2>1, ReadHead
  <2>3. Head(toClient[q]).pair = q
    BY <2>2 DEF InitiatorInv
  <2>4. F("DONE", q) \in Range(toClient[q])
    BY <1>4, <2>2, <2>3, FrameEqual
  <2>5. q # p => client'[p] = client[p]
    BY <1>1, <1>4 DEF ReceiveDone, ClientMoves
  <2> QED
    BY <2>4, <2>5
<1>5. ASSUME NEW q \in Pairs, ReceiveDone(q)
      PROVE  client[p].pc = "ok" \/ F("DONE", p) \in Range(toClient[p])
  BY <1>3, <1>4, <1>5 DEF ReceiveDone
<1>6. ASSUME NEW q \in Pairs, DoneTimeout(q)
      PROVE  client[p].pc = "ok"
  BY <1>3, <1>6 DEF DoneTimeout
<1>7. ASSUME NEW q \in Pairs, ClientStart(q) \/ ClientTimeout(q) \/ ClientReceive(q)
      PROVE  client[p].pc = "ok"
  <2>1. \E pc \in {"commit", "open", "status", "done", "abort", "failed"} :
          \E new : ClientMoves(q, pc, new)
    BY <1>7 DEF ClientStart, ClientTimeout, ClientReceive
  <2> QED
    BY <1>2, <2>1
<1>8. ASSUME NEW q \in Pairs, Drop(q) \/ Admit(q) \/ Forward(q) \/ Replay(q)
      PROVE  client' = client
  BY <1>8 DEF Drop, Admit, Forward, Replay
<1>9. ASSUME NEW w \in Worker,
             Register(w) \/ Relay(w) \/ RelayDone(w) \/ WorkerStep(w) \/ WorkerTimeout(w)
      PROVE  client' = client
  BY <1>9, WorkerFrame DEF Register, Relay, RelayDone
<1>10. CASE Exit \/ Inactive \/ Restart
  BY <1>10 DEF Exit, Inactive, Restart
<1> QED
  BY <1>5, <1>6, <1>7, <1>8, <1>9, <1>10 DEF Next, GatewayStep, ClientStep

(* A worker that has just counted a session read the acknowledgement of it. *)
LEMMA SessionCounted ==
    ASSUME IInv, Next, NEW w \in Worker, NEW p \in worker'[w].sessions
    PROVE  p \in worker[w].sessions \/ F("ACK", p) \in Range(toWorker[w])
<1> USE DEF IInv
<1>1. /\ toWorker \in [Worker -> Channel]
      /\ worker \in [Worker -> [pc : {"idle", "init", "nonce", "final", "ack",
                                      "refused", "expired", "exited"},
                                pair : Pairs \cup {NoPair}, sessions : SUBSET Pairs]]
  BY ChannelTypes DEF TypeOK
<1>2. ASSUME NEW v \in Worker, WorkerAcknowledged(v)
      PROVE  p \in worker[w].sessions \/ F("ACK", p) \in Range(toWorker[w])
  <2> DEFINE q == worker[v].pair
  <2>1. /\ worker' = [worker EXCEPT ![v].pc = "idle",
                        ![v].sessions = IF Head(toWorker[v]) = F("ACK", q) THEN @ \cup {q} ELSE @]
        /\ toWorker[v] # << >>
    BY <1>2 DEF WorkerAcknowledged
  <2> HIDE DEF q
  <2>2. Head(toWorker[v]) \in Range(toWorker[v])
    BY <1>1, <2>1, ReadHead
  <2>3. \/ worker'[w].sessions = worker[w].sessions
        \/ /\ v = w /\ Head(toWorker[v]) = F("ACK", q)
           /\ worker'[w].sessions = worker[w].sessions \cup {q}
    BY <1>1, <2>1
  <2> QED
    BY <2>2, <2>3
<1>3. ASSUME NEW v \in Worker, WorkerAssigned(v) \/ WorkerReceive(v) \/ WorkerTimeout(v)
      PROVE  worker'[w].sessions = worker[w].sessions
  <2>1. CASE WorkerAssigned(v)
    BY <1>1, <2>1 DEF WorkerAssigned
  <2>2. CASE WorkerReceive(v) \/ WorkerTimeout(v)
    <3>1. \E pc : worker' = [worker EXCEPT ![v].pc = pc]
      BY <2>2 DEF WorkerReceive, WorkerTimeout, WorkerMoves
    <3> QED
      BY <1>1, <3>1
  <2> QED
    BY <1>3, <2>1, <2>2
<1>4. CASE Restart
  BY <1>4 DEF Restart, NewWorker
<1>5. ASSUME NEW v \in Worker, Register(v) \/ Relay(v) \/ RelayDone(v)
      PROVE  worker' = worker
  BY <1>5 DEF Register, Relay, RelayDone
<1>6. ASSUME NEW q \in Pairs,
             Drop(q) \/ Admit(q) \/ Forward(q) \/ Replay(q) \/ ClientStep(q) \/ ClientTimeout(q)
      PROVE  worker' = worker
  BY <1>6, InitiatorFrame DEF Drop, Admit, Forward, Replay
<1>7. CASE Exit \/ Inactive
  BY <1>7 DEF Exit, Inactive
<1> QED
  BY <1>2, <1>3, <1>4, <1>5, <1>6, <1>7 DEF Next, GatewayStep, WorkerStep

(* Nobody learns of a completion before its record is durable. *)
LEMMA DurableStep ==
    ASSUME IInv, Next
    PROVE  DurableBeforeKnown'
<1> SUFFICES ASSUME NEW p \in Pairs,
                    \/ client'[p].pc = "ok" \/ Holds(toClient'[p], "DONE", p)
                    \/ \E w \in Worker : p \in worker'[w].sessions \/ Holds(toWorker'[w], "ACK", p)
             PROVE  journal'[p] = "durable"
  BY DEF DurableBeforeKnown, Holds
<1>1. /\ F("DONE", p).type = "DONE" /\ F("DONE", p).pair = p
      /\ F("ACK", p).type = "ACK" /\ F("ACK", p).pair = p
  BY FrameFacts
<1>2. ASSUME \/ client[p].pc = "ok" \/ F("DONE", p) \in Range(toClient[p])
             \/ \E w \in Worker : p \in worker[w].sessions \/ F("ACK", p) \in Range(toWorker[w])
      PROVE  journal'[p] = "durable"
  <2>1. journal[p] = "durable"
    BY <1>2, HoldsRange DEF IInv, DurableBeforeKnown
  <2> QED
    BY <2>1, JournalGains
<1>3. CASE client'[p].pc = "ok"
  BY <1>2, <1>3, ClientOk
<1>4. CASE Holds(toClient'[p], "DONE", p)
  <2>1. F("DONE", p) \in Range(toClient'[p])
    BY <1>4, HoldsRange
  <2>2. F("DONE", p) \in Range(toClient[p]) \/ journal'[p] = "durable"
    BY <1>1, <2>1, ToClientGains
  <2> QED
    BY <1>2, <2>2
<1>5. ASSUME NEW w \in Worker, p \in worker'[w].sessions
      PROVE  journal'[p] = "durable"
  BY <1>2, <1>5, SessionCounted
<1>6. ASSUME NEW w \in Worker, Holds(toWorker'[w], "ACK", p)
      PROVE  journal'[p] = "durable"
  <2>1. F("ACK", p) \in Range(toWorker'[w])
    BY <1>6, HoldsRange
  <2>2. \/ F("ACK", p) \in Range(toWorker[w])
        \/ journal'[p] = "durable"
        \/ \E q \in Pairs : Forward(q) /\ F("ACK", p) = Head(fromClient[q])
    BY <1>1, <2>1, ToWorkerGains
  <2>3. ASSUME NEW q \in Pairs, Forward(q), F("ACK", p) = Head(fromClient[q])
        PROVE  FALSE
    <3>1. fromClient[q] # << >> /\ fromClient[q] \in Channel
      BY <2>3, ChannelTypes DEF Forward, FrontendReady, IInv
    <3>2. Head(fromClient[q]).type \in ClientFrame
      BY <3>1, ReadHead DEF IInv, InitiatorInv
    <3> QED
      BY <1>1, <2>3, <3>2 DEF ClientFrame
  <2> QED
    BY <1>2, <2>2, <2>3
<1> QED
  BY <1>3, <1>4, <1>5, <1>6

(* When every session has ended no worker is in one, or about to start one. *)
LEMMA AllEnded ==
    ASSUME IInv, completed >= Cardinality(Pairs), NEW w \in Worker
    PROVE  worker[w].pc \notin Session /\ NoAssign(toWorker[w])
<1>1. Ended \subseteq Pairs /\ completed = Cardinality(Ended)
  BY DEF Ended, IInv, TablesInv
<1>2. /\ Cardinality(Ended) \in Nat /\ Cardinality(Pairs) \in Nat
      /\ Cardinality(Ended) <= Cardinality(Pairs)
      /\ Cardinality(Ended) = Cardinality(Pairs) => Ended = Pairs
  BY <1>1, FS_Subset, FS_CardinalityType, WorkerFacts
<1>3. Ended = Pairs
  BY <1>1, <1>2
<1>4. slots[w].serves = NoPair
  BY <1>3 DEF Ended, IInv, TablesInv, AssignmentInv, Busy, Serves
<1> QED
  BY <1>4, WorkerFacts DEF IInv, SessionInv, SessionAt, SessionOk, NoAssign

(* After the gateway has left its loop nobody sends an assignment. *)
LEMMA ShutdownStep ==
    ASSUME IInv, Next
    PROVE  ShutdownCutsNoSession'
<1> SUFFICES ASSUME gateway' = "exited", NEW w \in Worker
             PROVE  worker'[w].pc \notin Session /\ NoAssign(toWorker'[w])
  BY DEF ShutdownCutsNoSession, Session, NoAssign, Range
<1> USE DEF IInv
<1>1. /\ toWorker \in [Worker -> Channel]
      /\ worker \in [Worker -> [pc : {"idle", "init", "nonce", "final", "ack",
                                      "refused", "expired", "exited"},
                                pair : Pairs \cup {NoPair}, sessions : SUBSET Pairs]]
      /\ slots \in [Worker -> [registered : BOOLEAN, serves : Pairs \cup {NoPair}]]
  BY ChannelTypes DEF TypeOK
<1>2. ASSUME gateway = "exited"
      PROVE  worker[w].pc \notin Session /\ NoAssign(toWorker[w])
  BY <1>2 DEF ShutdownCutsNoSession, Session, NoAssign, Range
<1>3. CASE Exit
  <2>1. worker[w].pc \notin Session /\ NoAssign(toWorker[w])
    BY <1>3, AllEnded DEF Exit
  <2>2. /\ worker' = worker
        /\ toWorker'[w] \in {toWorker[w], Append(toWorker[w], F("SHUTDOWN", NoPair))}
    BY <1>3 DEF Exit
  <2>3. /\ <<F("SHUTDOWN", NoPair)>> \in Channel
        /\ Range(<<F("SHUTDOWN", NoPair)>>) = {F("SHUTDOWN", NoPair)}
        /\ F("SHUTDOWN", NoPair) \in Frame /\ F("SHUTDOWN", NoPair).type = "SHUTDOWN"
    BY FrameFacts, ShortChannels
  <2>4. Append(toWorker[w], F("SHUTDOWN", NoPair)) = toWorker[w] \o <<F("SHUTDOWN", NoPair)>>
    BY <1>1, <2>3, AppendIsConcat DEF Channel
  <2>5. Range(toWorker[w] \o <<F("SHUTDOWN", NoPair)>>) = Range(toWorker[w]) \cup {F("SHUTDOWN", NoPair)}
    BY <1>1, <2>3, SendFrames
  <2> QED
    BY <2>1, <2>2, <2>3, <2>4, <2>5 DEF NoAssign
<1>4. ASSUME NEW v \in Worker, WorkerStep(v) \/ WorkerTimeout(v)
      PROVE  worker'[w].pc \notin Session /\ NoAssign(toWorker'[w])
  <2>1. gateway = "exited"
    BY <1>4, WorkerFrame
  <2>2. /\ worker[w].pc \notin Session /\ NoAssign(toWorker[w])
        /\ worker[v].pc \notin Session /\ NoAssign(toWorker[v])
    BY <1>2, <2>1 DEF ShutdownCutsNoSession, Session, NoAssign, Range
  <2>3. NoAssign(toWorker'[w])
    <3>1. \/ toWorker'[w] = toWorker[w]
          \/ toWorker[w] # << >> /\ toWorker'[w] = Tail(toWorker[w])
      BY <1>1, <1>4
         DEF WorkerStep, WorkerTimeout, WorkerAssigned, WorkerReceive, WorkerAcknowledged, Consume
    <3> QED
      BY <1>1, <2>2, <3>1, ReadHead DEF NoAssign
  <2>4. worker'[w].pc \notin Session
    <3>1. CASE WorkerAssigned(v)
      <4>1. Head(toWorker[v]).type # "ASSIGN"
        BY <1>1, <2>2, <3>1, ReadHead DEF WorkerAssigned, NoAssign
      <4> QED
        BY <1>1, <2>2, <3>1, <4>1 DEF WorkerAssigned, Session
    <3>2. CASE WorkerReceive(v)
      BY <2>2, <3>2 DEF WorkerReceive, Session
    <3>3. CASE WorkerAcknowledged(v)
      BY <1>1, <2>2, <3>3 DEF WorkerAcknowledged, Session
    <3>4. CASE WorkerTimeout(v)
      <4>1. \E pc \in {"idle", "expired"} : worker' = [worker EXCEPT ![v].pc = pc]
        BY <3>4 DEF WorkerTimeout, WorkerMoves
      <4> QED
        BY <1>1, <2>2, <4>1 DEF Session
    <3> QED
      BY <1>4, <3>1, <3>2, <3>3, <3>4 DEF WorkerStep
  <2> QED
    BY <2>3, <2>4
<1>5. ASSUME NEW p \in Pairs, ClientStep(p) \/ ClientTimeout(p)
      PROVE  worker'[w].pc \notin Session /\ NoAssign(toWorker'[w])
  BY <1>2, <1>5, InitiatorFrame
<1>6. ASSUME NEW v \in Worker, Register(v) \/ Relay(v) \/ RelayDone(v)
      PROVE  FALSE
  <2>1. CASE Register(v)
    BY <2>1 DEF Register
  <2>2. CASE Relay(v) \/ RelayDone(v)
    <3> DEFINE p == Head(fromWorker[v]).pair
    <3>1. /\ Serves(v, p) /\ gateway = "up" /\ p \in Pairs
          /\ \/ gateway' \in {"up", "failed"}
             \/ Release(v, p, toWorker) \/ Release(v, p, Acked(v, p))
      BY <2>2, RelayEffect
    <3> HIDE DEF p
    <3> QED
      BY <3>1 DEF Release
  <2> QED
    BY <1>6, <2>1, <2>2
<1>7. ASSUME NEW p \in Pairs, Drop(p) \/ Admit(p) \/ Forward(p) \/ Replay(p)
      PROVE  FALSE
  BY <1>7 DEF Drop, Admit, Forward, Replay, FrontendReady, Die, gwVars
<1>8. CASE Inactive \/ Restart
  BY <1>8 DEF Inactive, Restart, Die
<1> QED
  BY <1>3, <1>4, <1>5, <1>6, <1>7, <1>8 DEF Next, GatewayStep

-----------------------------------------------------------------------------
(* Types *)

(* The types of the records of the state. *)
RouteType == [seen : BOOLEAN, queued : BOOLEAN, terminal : BOOLEAN, worker : Worker \cup {W}]
SlotType == [registered : BOOLEAN, serves : Pairs \cup {NoPair}]
ClientType == [pc : {"new", "commit", "open", "status", "done", "abort", "ok", "failed"},
               attempt : 0 .. Retries]
WorkerType == [pc : {"idle", "init", "nonce", "final", "ack", "refused", "expired", "exited"},
               pair : Pairs \cup {NoPair}, sessions : SUBSET Pairs]

(* The conjuncts of TypeOK, by the processes that write them. *)
TablesType ==
    /\ gateway \in {"up", "failed", "exited"}
    /\ routes \in [Pairs -> RouteType] /\ slots \in [Worker -> SlotType]
    /\ queue \in Seq(Pairs) /\ dropped \in BOOLEAN
ProcessType == client \in [Pairs -> ClientType] /\ worker \in [Worker -> WorkerType]
PublicType == fromClient \in [Pairs -> Channel] /\ toClient \in [Pairs -> Channel]
BackendType == fromWorker \in [Worker -> Channel] /\ toWorker \in [Worker -> Channel]
RecordType ==
    /\ journal \in [Pairs -> {"none", "linked", "durable"}]
    /\ faults \in 0 .. MaxFaults /\ restarts \in 0 .. MaxRestarts

(* The type invariant, by the parts that a step leaves alone or not. *)
LEMMA TypeParts ==
    /\ TypeOK <=> /\ TablesType /\ ProcessType /\ PublicType /\ BackendType /\ RecordType
                  /\ completed \in 0 .. Cardinality(Pairs)
    /\ TypeOK' <=> /\ TablesType' /\ ProcessType' /\ PublicType' /\ BackendType' /\ RecordType'
                   /\ completed' \in 0 .. Cardinality(Pairs)
<1>1. TypeOK <=> /\ TablesType /\ ProcessType /\ PublicType /\ BackendType /\ RecordType
                 /\ completed \in 0 .. Cardinality(Pairs)
  BY DEF TypeOK, TablesType, ProcessType, PublicType, BackendType, RecordType,
         RouteType, SlotType, ClientType, WorkerType, Channel
<1>2. TypeOK' <=> /\ TablesType' /\ ProcessType' /\ PublicType' /\ BackendType' /\ RecordType'
                  /\ completed' \in 0 .. Cardinality(Pairs)
  BY DEF TypeOK, TablesType, ProcessType, PublicType, BackendType, RecordType,
         RouteType, SlotType, ClientType, WorkerType, Channel
<1> QED
  BY <1>1, <1>2

(* What is left alone keeps its type. *)
LEMMA TypeSame ==
    /\ TablesType /\ UNCHANGED <<gateway, routes, slots, queue, dropped>> => TablesType'
    /\ ProcessType /\ UNCHANGED <<client, worker>> => ProcessType'
    /\ PublicType /\ UNCHANGED <<fromClient, toClient>> => PublicType'
    /\ BackendType /\ UNCHANGED <<fromWorker, toWorker>> => BackendType'
    /\ RecordType /\ UNCHANGED <<journal, faults, restarts>> => RecordType'
  BY DEF TablesType, ProcessType, PublicType, BackendType, RecordType

(* Reading and writing keep a table of channels one. *)
LEMMA BackendChannels ==
    ASSUME NEW ch \in [Worker -> Channel], NEW w \in Worker
    PROVE  /\ ch[w] # << >> => Consume(ch, w) \in [Worker -> Channel]
           /\ \A new \in Channel, gone \in BOOLEAN : Deliver(ch, w, gone, new) \in [Worker -> Channel]
<1>1. ch[w] \in Channel
  OBVIOUS
<1>2. ch[w] # << >> => Tail(ch[w]) \in Channel
  BY <1>1, ReadHead
<1>3. \A new \in Channel : ch[w] \o new \in Channel
  BY <1>1, SendFrames
<1> QED
  BY <1>2, <1>3 DEF Consume, Deliver

(* The same for the initiators' channels. *)
LEMMA PublicChannels ==
    ASSUME NEW ch \in [Pairs -> Channel], NEW p \in Pairs
    PROVE  /\ ch[p] # << >> => Consume(ch, p) \in [Pairs -> Channel]
           /\ \A new \in Channel, gone \in BOOLEAN : Deliver(ch, p, gone, new) \in [Pairs -> Channel]
           /\ \A new \in Channel : [ch EXCEPT ![p] = @ \o new] \in [Pairs -> Channel]
<1>1. ch[p] \in Channel
  OBVIOUS
<1>2. ch[p] # << >> => Tail(ch[p]) \in Channel
  BY <1>1, ReadHead
<1>3. \A new \in Channel : ch[p] \o new \in Channel
  BY <1>1, SendFrames
<1> QED
  BY <1>2, <1>3 DEF Consume, Deliver

(* An assigned route is a route. *)
LEMMA TypeAssign ==
    ASSUME NEW r \in [Pairs -> RouteType], NEW q \in Pairs, NEW w \in Worker
    PROVE  AssignRoute(r, q, w) \in [Pairs -> RouteType]
<1> DEFINE taken == [r EXCEPT ![q].queued = FALSE]
<1>1. taken \in [Pairs -> RouteType]
  BY DEF RouteType
<1>2. AssignRoute(r, q, w) = [taken EXCEPT ![q].worker = w]
  BY DEF AssignRoute
<1> HIDE DEF taken
<1> QED
  BY <1>1, <1>2 DEF RouteType

(* A release keeps the types of the tables and of the backend's channels. *)
LEMMA TypeRelease ==
    ASSUME TypeOK, TablesInv, NEW w \in Worker, NEW p, Serves(w, p), gateway = "up",
           NEW toW \in [Worker -> Channel], Release(w, p, toW)
    PROVE  /\ gateway' \in {"up", "failed"}
           /\ routes' \in [Pairs -> RouteType] /\ slots' \in [Worker -> SlotType]
           /\ queue' \in Seq(Pairs) /\ toWorker' \in [Worker -> Channel]
<1>1. TablesType /\ p \in Pairs
  BY TypeParts DEF Serves
<1>2. [routes EXCEPT ![p].terminal = TRUE] \in [Pairs -> RouteType]
  BY <1>1 DEF TablesType, RouteType
<1>3. CASE queue = << >>
  <2>1. slots' \in [Worker -> SlotType]
    BY <1>1, <1>3 DEF Release, TablesType, SlotType
  <2> QED
    BY <1>1, <1>2, <1>3, <2>1 DEF Release, TablesType
<1>4. CASE queue # << >>
  <2> DEFINE q == Head(queue)
  <2>1. q \in Pairs /\ Tail(queue) \in Seq(Pairs)
    BY <1>1, <1>4, QueueReads DEF TablesType, TablesInv, QueueInv
  <2>2. Assignment(q) \in Channel
    BY <2>1, FrameFacts, ShortChannels DEF Assignment
  <2>3. /\ routes' = AssignRoute([routes EXCEPT ![p].terminal = TRUE], q, w)
        /\ slots' = [slots EXCEPT ![w].serves = q] /\ queue' = Tail(queue)
        /\ toWorker' = Deliver(toW, w, Stopped(w), Assignment(q))
        /\ gateway' \in {"up", "failed"}
    BY <1>4 DEF Release
  <2> HIDE DEF q
  <2>4. toWorker' \in [Worker -> Channel]
    <3>1. Stopped(w) \in BOOLEAN
      BY DEF Stopped
    <3> QED
      BY <2>2, <2>3, <3>1, BackendChannels
  <2>5. routes' \in [Pairs -> RouteType]
    BY <1>2, <2>1, <2>3, TypeAssign
  <2>6. slots' \in [Worker -> SlotType]
    BY <1>1, <2>1, <2>3 DEF TablesType, SlotType
  <2> QED
    BY <2>1, <2>3, <2>4, <2>5, <2>6
<1> QED
  BY <1>3, <1>4

(* A fault spends the budget at most by one. *)
LEMMA TypeFault ==
    ASSUME RecordType, NEW harmless, Fault(harmless)
    PROVE  faults' \in 0 .. MaxFaults
<1>1. faults \in 0 .. MaxFaults /\ MaxFaults \in Nat
  BY WorkerFacts DEF RecordType
<1>2. CASE harmless
  BY <1>1, <1>2 DEF Fault
<1>3. CASE ~ harmless
  BY <1>1, <1>3 DEF Fault
<1> QED
  BY <1>2, <1>3

(* A failing store keeps or links the record. *)
LEMMA TypeStore ==
    ASSUME RecordType, NEW p \in Pairs, StoreFails(p)
    PROVE  journal' \in [Pairs -> {"none", "linked", "durable"}] /\ faults' \in 0 .. MaxFaults
<1>1. journal' \in [Pairs -> {"none", "linked", "durable"}]
  BY DEF StoreFails, RecordType
<1> QED
  BY <1>1, TypeFault DEF StoreFails

(* The workers' frames, relayed. *)
LEMMA TypeRelay ==
    ASSUME IInv, NEW w \in Worker, Relay(w) \/ RelayDone(w)
    PROVE  TablesType' /\ ProcessType' /\ PublicType' /\ BackendType' /\ RecordType'
<1> USE DEF IInv
<1> DEFINE f == Head(fromWorker[w])
           p == f.pair
<1>1. /\ gateway = "up" /\ fromWorker[w] # << >> /\ f.type # "REGISTER"
      /\ p \in Pairs /\ Serves(w, p) /\ fromWorker' = Consume(fromWorker, w)
      /\ UNCHANGED <<worker, client, fromClient, restarts>>
  BY RelayEffect
<1>2. f \in Frame
  BY <1>1, HeadServed
<1>3. TablesType /\ ProcessType /\ PublicType /\ BackendType /\ RecordType
  BY TypeParts
<1>4. fromWorker' \in [Worker -> Channel] /\ ProcessType'
  BY <1>1, <1>3, BackendChannels, TypeSame DEF BackendType
<1>5. Stopped(w) \in BOOLEAN /\ Closed(p) \in BOOLEAN /\ (Closed(p) \/ (DropFirstDone /\ ~ dropped)) \in BOOLEAN
  BY DEF Stopped, Closed
<1>6. F("ACK", p) \in Frame /\ F("DONE", p) \in Frame
  BY <1>1, FrameFacts
<1>7. <<f>> \in Channel /\ <<F("ACK", p)>> \in Channel /\ <<F("DONE", p)>> \in Channel
  BY <1>2, <1>6, ShortChannels
<1> HIDE DEF f, p
<1>8. Acked(w, p) \in [Worker -> Channel]
  BY <1>3, <1>5, <1>7, BackendChannels DEF Acked, BackendType
<1>9. ASSUME NEW toW \in [Worker -> Channel], Release(w, p, toW), dropped' \in BOOLEAN
      PROVE  TablesType' /\ toWorker' \in [Worker -> Channel]
  BY <1>1, <1>9, TypeRelease DEF TablesType
<1>10. ASSUME Die
       PROVE  TablesType'
  BY <1>3, <1>10 DEF Die, tables, TablesType
<1>11. CASE Relay(w)
  <2>1. /\ UNCHANGED <<journal, faults>>
        /\ \/ Die /\ UNCHANGED <<toClient, toWorker>>
           \/ /\ toClient' = Deliver(toClient, p, Closed(p), <<f>>)
              /\ \/ Release(w, p, toWorker) /\ UNCHANGED dropped
                 \/ UNCHANGED <<gwVars, toWorker>>
    BY <1>11 DEF Relay, budget, f, p
  <2>2. RecordType'
    BY <1>1, <1>3, <2>1, TypeSame
  <2>3. TablesType' /\ toWorker' \in [Worker -> Channel]
    BY <1>3, <1>9, <1>10, <2>1 DEF BackendType, TablesType, gwVars
  <2>4. toClient' \in [Pairs -> Channel]
    <3>1. toClient \in [Pairs -> Channel] /\ p \in Pairs
      BY <1>1, <1>3 DEF PublicType
    <3>2. \A new \in Channel, gone \in BOOLEAN : Deliver(toClient, p, gone, new) \in [Pairs -> Channel]
      BY <3>1, PublicChannels
    <3> QED
      BY <1>5, <1>7, <2>1, <3>1, <3>2
  <2> QED
    BY <1>1, <1>3, <1>4, <2>2, <2>3, <2>4 DEF PublicType, BackendType
<1>12. CASE RelayDone(w)
  <2>1. \/ StoreFails(p) /\ Die /\ UNCHANGED <<toClient, toWorker>>
        \/ /\ journal' = [journal EXCEPT ![p] = "durable"] /\ UNCHANGED faults
           /\ \/ Die /\ UNCHANGED <<toClient, toWorker>>
              \/ /\ dropped' = (dropped \/ (DropFirstDone /\ ~ dropped))
                 /\ toClient' = Deliver(toClient, p, Closed(p) \/ (DropFirstDone /\ ~ dropped),
                                        <<F("DONE", p)>>)
                 /\ Release(w, p, Acked(w, p))
    BY <1>1, <1>12 DEF RelayDone, Acked, f, p
  <2>2. RecordType'
    <3>1. journal' \in [Pairs -> {"none", "linked", "durable"}] /\ faults' \in 0 .. MaxFaults
      BY <1>1, <1>3, <2>1, TypeStore DEF RecordType
    <3> QED
      BY <1>1, <1>3, <3>1 DEF RecordType
  <2>3. TablesType' /\ toWorker' \in [Worker -> Channel]
    <3>1. (dropped \/ (DropFirstDone /\ ~ dropped)) \in BOOLEAN
      OBVIOUS
    <3> QED
      BY <1>3, <1>8, <1>9, <1>10, <2>1, <3>1 DEF BackendType
  <2>4. toClient' \in [Pairs -> Channel]
    <3>1. toClient \in [Pairs -> Channel] /\ p \in Pairs
      BY <1>1, <1>3 DEF PublicType
    <3>2. \A new \in Channel, gone \in BOOLEAN : Deliver(toClient, p, gone, new) \in [Pairs -> Channel]
      BY <3>1, PublicChannels
    <3> QED
      BY <1>5, <1>7, <2>1, <3>1, <3>2
  <2> QED
    BY <1>1, <1>3, <1>4, <2>2, <2>3, <2>4 DEF PublicType, BackendType
<1> QED
  BY <1>11, <1>12

(* The initiators' frames: dropped, admitted, forwarded or answered. *)
LEMMA TypeFrontend ==
    ASSUME IInv, NEW p \in Pairs, Drop(p) \/ Admit(p) \/ Forward(p) \/ Replay(p)
    PROVE  TablesType' /\ ProcessType' /\ PublicType' /\ BackendType' /\ RecordType'
<1> USE DEF IInv
<1>1. /\ gateway = "up" /\ fromClient[p] # << >> /\ fromClient' = Consume(fromClient, p)
      /\ UNCHANGED <<client, worker, fromWorker, restarts>>
  BY DEF Drop, Admit, Forward, Replay, FrontendReady, budget
<1>2. TablesType /\ ProcessType /\ PublicType /\ BackendType /\ RecordType
  BY TypeParts
<1>3. fromClient' \in [Pairs -> Channel] /\ ProcessType'
  BY <1>1, <1>2, PublicChannels, TypeSame DEF PublicType
<1>4. Closed(p) \in BOOLEAN /\ \A w : Stopped(w) \in BOOLEAN
  BY DEF Stopped, Closed
<1>5. /\ <<F("ABORT", p)>> \in Channel /\ <<F("DONE", p)>> \in Channel
      /\ <<Head(fromClient[p])>> \in Channel /\ Assignment(p) \in Channel
  <2>1. fromClient[p] \in Channel
    BY <1>2 DEF PublicType
  <2>2. Head(fromClient[p]) \in Frame
    BY <1>1, <2>1, ReadHead
  <2> QED
    BY <2>2, FrameFacts, ShortChannels DEF Assignment
<1>6. CASE Drop(p)
  BY <1>1, <1>2, <1>3, <1>6, TypeSame DEF Drop, gwVars, budget, PublicType
<1>7. CASE Admit(p)
  <2> DEFINE seen == [routes EXCEPT ![p].seen = TRUE]
  <2>1. seen \in [Pairs -> RouteType]
    BY <1>2 DEF TablesType, RouteType
  <2> HIDE DEF seen
  <2>2. /\ [seen EXCEPT ![p].queued = TRUE] \in [Pairs -> RouteType]
        /\ [seen EXCEPT ![p].terminal = TRUE] \in [Pairs -> RouteType]
    BY <2>1 DEF RouteType
  <2>3. RecordType'
    BY <1>2, <1>7, TypeSame DEF Admit, budget
  <2>4. CASE /\ Idle # {}
             /\ routes' = AssignRoute(seen, p, FindIdleWorker)
             /\ slots' = [slots EXCEPT ![FindIdleWorker].serves = p]
             /\ toWorker' = Deliver(toWorker, FindIdleWorker, Stopped(FindIdleWorker), Assignment(p))
             /\ gateway' \in {"up", "failed"} /\ UNCHANGED <<queue, toClient, dropped>>
    <3>1. PICK w \in Worker : w = FindIdleWorker
      BY <2>4, IdleWorkerFound DEF Idle
    <3>2. routes' \in [Pairs -> RouteType]
      BY <2>1, <2>4, <3>1, TypeAssign
    <3>3. slots' \in [Worker -> SlotType]
      BY <1>2, <2>4, <3>1 DEF TablesType, SlotType
    <3>4. toWorker' \in [Worker -> Channel]
      BY <1>2, <1>4, <1>5, <2>4, <3>1, BackendChannels DEF BackendType
    <3> QED
      BY <1>1, <1>2, <1>3, <2>3, <2>4, <3>2, <3>3, <3>4
         DEF TablesType, PublicType, BackendType
  <2>5. CASE /\ routes' = [seen EXCEPT ![p].queued = TRUE] /\ queue' = Append(queue, p)
             /\ UNCHANGED <<gateway, slots, toClient, toWorker, dropped>>
    <3>1. queue' \in Seq(Pairs)
      BY <1>2, <2>5, AppendProperties DEF TablesType
    <3> QED
      BY <1>1, <1>2, <1>3, <2>2, <2>3, <2>5, <3>1 DEF TablesType, PublicType, BackendType
  <2>6. CASE /\ routes' = [seen EXCEPT ![p].terminal = TRUE]
             /\ toClient' = Deliver(toClient, p, Closed(p), <<F("ABORT", p)>>)
             /\ gateway' \in {"up", "failed"} /\ UNCHANGED <<slots, queue, toWorker, dropped>>
    <3>1. toClient' \in [Pairs -> Channel]
      BY <1>2, <1>4, <1>5, <2>6, PublicChannels DEF PublicType
    <3> QED
      BY <1>1, <1>2, <1>3, <2>2, <2>3, <2>6, <3>1 DEF TablesType, PublicType, BackendType
  <2> QED
    BY <1>7, <2>4, <2>5, <2>6 DEF Admit, seen
<1>8. CASE Forward(p)
  <2> DEFINE w == routes[p].worker
  <2>1. /\ UNCHANGED <<journal, faults, toClient>>
        /\ \/ toWorker' = toWorker
           \/ /\ w # W
              /\ toWorker' = Deliver(toWorker, w, Stopped(w), <<Head(fromClient[p])>>)
        /\ Die \/ UNCHANGED gwVars
    BY <1>8 DEF Forward, budget
  <2>2. w # W => w \in Worker
    BY <1>2 DEF TablesType, RouteType
  <2> HIDE DEF w
  <2>3. toWorker' \in [Worker -> Channel]
    BY <1>2, <1>4, <1>5, <2>1, <2>2, BackendChannels DEF BackendType
  <2>4. TablesType'
    BY <1>2, <2>1 DEF TablesType, Die, tables, gwVars
  <2>5. RecordType'
    BY <1>1, <1>2, <2>1, TypeSame
  <2> QED
    BY <1>1, <1>2, <1>3, <2>1, <2>3, <2>4, <2>5 DEF PublicType, BackendType
<1>9. CASE Replay(p)
  <2>1. UNCHANGED <<gateway, slots, queue, dropped, toWorker>>
    BY <1>9 DEF Replay
  <2>2. routes' \in [Pairs -> RouteType]
    <3>1. \/ routes' = routes
          \/ routes' = [routes EXCEPT ![p].seen = TRUE]
          \/ routes' = [routes EXCEPT ![p].seen = TRUE, ![p].terminal = TRUE]
      BY <1>9 DEF Replay
    <3>2. routes \in [Pairs -> RouteType]
      BY <1>2 DEF TablesType
    <3> DEFINE seen == [routes EXCEPT ![p].seen = TRUE]
    <3>3. seen \in [Pairs -> RouteType]
      BY <3>2 DEF RouteType
    <3>4. [routes EXCEPT ![p].seen = TRUE, ![p].terminal = TRUE] = [seen EXCEPT ![p].terminal = TRUE]
      OBVIOUS
    <3> HIDE DEF seen
    <3>5. [seen EXCEPT ![p].terminal = TRUE] \in [Pairs -> RouteType]
      BY <3>3 DEF RouteType
    <3> QED
      BY <3>1, <3>2, <3>3, <3>4, <3>5 DEF seen
  <2>3. toClient' \in [Pairs -> Channel]
    <3>1. toClient' = toClient \/ toClient' = Deliver(toClient, p, Closed(p), <<F("DONE", p)>>)
      BY <1>9 DEF Replay
    <3> QED
      BY <1>2, <1>4, <1>5, <3>1, PublicChannels DEF PublicType
  <2>4. RecordType'
    <3>1. \/ UNCHANGED <<journal, faults>>
          \/ StoreFails(p)
          \/ journal' = [journal EXCEPT ![p] = "durable"] /\ UNCHANGED faults
      BY <1>9 DEF Replay
    <3>2. journal' \in [Pairs -> {"none", "linked", "durable"}] /\ faults' \in 0 .. MaxFaults
      BY <1>2, <3>1, TypeStore DEF RecordType
    <3> QED
      BY <1>1, <1>2, <3>2 DEF RecordType
  <2> QED
    BY <1>1, <1>2, <1>3, <2>1, <2>2, <2>3, <2>4 DEF TablesType, PublicType, BackendType
<1> QED
  BY <1>6, <1>7, <1>8, <1>9

(* The initiators. *)
LEMMA TypeInitiator ==
    ASSUME IInv, NEW p \in Pairs, ClientStep(p) \/ ClientTimeout(p)
    PROVE  TablesType' /\ ProcessType' /\ PublicType' /\ BackendType' /\ RecordType'
<1> USE DEF IInv
<1>1. TablesType /\ ProcessType /\ PublicType /\ BackendType /\ RecordType
  BY TypeParts
<1>2. TablesType' /\ BackendType' /\ worker' = worker /\ journal' = journal /\ restarts' = restarts
  BY <1>1, InitiatorFrame, TypeSame DEF tables
<1>3. ASSUME NEW pc \in {"commit", "open", "status", "done", "abort", "ok", "failed"},
             NEW new \in Channel, ClientMoves(p, pc, new)
      PROVE  client' \in [Pairs -> ClientType] /\ fromClient' \in [Pairs -> Channel]
  <2>1. client' \in [Pairs -> ClientType]
    BY <1>1, <1>3 DEF ClientMoves, ProcessType, ClientType
  <2>2. fromClient' \in [Pairs -> Channel]
    BY <1>1, <1>3, PublicChannels DEF ClientMoves, PublicType
  <2> QED
    BY <2>1, <2>2
<1>4. \A type \in ClientFrame : Send(type, p) \in Channel
  <2>1. \A type \in ClientFrame : F(type, p) \in Frame
    BY DEF F, Frame
  <2> QED
    BY <2>1, ShortChannels DEF Send
<1>5. << >> \in Channel /\ {"INIT", "NONCE", "FINAL", "ABORT", "QUERY"} \subseteq ClientFrame
  BY ShortChannels DEF ClientFrame
<1>6. ASSUME NextAttempt(p)
      PROVE  client' \in [Pairs -> ClientType] /\ fromClient' \in [Pairs -> Channel]
  <2>1. CASE /\ client[p].attempt < Retries /\ client' = [client EXCEPT ![p].attempt = @ + 1]
             /\ fromClient' = [fromClient EXCEPT ![p] = @ \o Send("QUERY", p)]
    <3>1. client[p].attempt + 1 \in 0 .. Retries
      BY <1>1, <2>1, WorkerFacts DEF ProcessType, ClientType
    <3>2. client' \in [Pairs -> ClientType]
      BY <1>1, <2>1, <3>1 DEF ProcessType, ClientType
    <3>3. fromClient' \in [Pairs -> Channel]
      BY <1>1, <1>4, <1>5, <2>1, PublicChannels DEF PublicType
    <3> QED
      BY <3>2, <3>3
  <2>2. CASE ClientMoves(p, "failed", << >>)
    BY <1>3, <1>5, <2>2
  <2> QED
    BY <1>6, <2>1, <2>2 DEF NextAttempt
<1>7. client' \in [Pairs -> ClientType] /\ fromClient' \in [Pairs -> Channel]
  <2>1. CASE ReceiveDone(p) \/ DoneTimeout(p)
    BY <1>3, <1>5, <1>6, <2>1 DEF ReceiveDone, DoneTimeout
  <2>2. CASE ClientStart(p) \/ ClientReceive(p) \/ ClientTimeout(p)
    <3>1. \E pc \in {"commit", "open", "status", "done", "abort", "failed"} :
             \/ ClientMoves(p, pc, << >>)
             \/ \E type \in {"INIT", "NONCE", "FINAL", "ABORT"} : ClientMoves(p, pc, Send(type, p))
      BY <2>2 DEF ClientStart, ClientReceive, ClientTimeout
    <3> QED
      BY <1>3, <1>4, <1>5, <3>1
  <2> QED
    BY <2>1, <2>2 DEF ClientStep
<1>8. toClient' \in [Pairs -> Channel]
  <2>1. toClient' = toClient \/ (toClient[p] # << >> /\ toClient' = Consume(toClient, p))
    BY DEF ClientStep, ClientTimeout, ClientStart, ClientReceive, ReceiveDone, DoneTimeout
  <2> QED
    BY <1>1, <2>1, PublicChannels DEF PublicType
<1>9. faults' \in 0 .. MaxFaults
  <2>1. faults' = faults \/ \E harmless : Fault(harmless)
    BY DEF ClientStep, ClientTimeout, ClientStart, ClientReceive, ReceiveDone, DoneTimeout, budget
  <2> QED
    BY <1>1, <2>1, TypeFault DEF RecordType
<1> QED
  BY <1>1, <1>2, <1>7, <1>8, <1>9 DEF ProcessType, PublicType, RecordType

(* The workers. *)
LEMMA TypeWorker ==
    ASSUME IInv, NEW w \in Worker, WorkerStep(w) \/ WorkerTimeout(w)
    PROVE  TablesType' /\ ProcessType' /\ PublicType' /\ BackendType' /\ RecordType'
<1> USE DEF IInv
<1> DEFINE p == worker[w].pair
<1>1. TablesType /\ ProcessType /\ PublicType /\ BackendType /\ RecordType
  BY TypeParts
<1>2. TablesType' /\ PublicType' /\ client' = client /\ journal' = journal /\ restarts' = restarts
  BY <1>1, WorkerFrame, TypeSame DEF tables
<1>3. toWorker' \in [Worker -> Channel]
  <2>1. toWorker' = toWorker \/ (toWorker[w] # << >> /\ toWorker' = Consume(toWorker, w))
    BY DEF WorkerStep, WorkerTimeout, WorkerAssigned, WorkerReceive, WorkerAcknowledged
  <2> QED
    BY <1>1, <2>1, BackendChannels DEF BackendType
<1>4. faults' \in 0 .. MaxFaults
  <2>1. faults' = faults \/ \E harmless : Fault(harmless)
    BY DEF WorkerStep, WorkerTimeout, WorkerAssigned, WorkerReceive, WorkerAcknowledged, budget
  <2> QED
    BY <1>1, <2>1, TypeFault DEF RecordType
<1>5. ASSUME NEW pc \in {"idle", "nonce", "final", "ack", "expired"},
             NEW new \in Channel, WorkerMoves(w, pc, new)
      PROVE  worker' \in [Worker -> WorkerType] /\ fromWorker' \in [Worker -> Channel]
  <2>1. worker' \in [Worker -> WorkerType]
    BY <1>1, <1>5 DEF WorkerMoves, ProcessType, WorkerType
  <2>2. fromWorker[w] \o new \in Channel
    BY <1>1, <1>5, SendFrames DEF BackendType
  <2>3. fromWorker' \in [Worker -> Channel]
    BY <1>1, <1>5, <2>2 DEF WorkerMoves, BackendType
  <2> QED
    BY <2>1, <2>3
<1>6. worker[w].pc \in Session \cup {"ack"} => p \in Pairs
  BY DEF SessionInv, SessionAt, SessionOk
<1>7. CASE WorkerAssigned(w)
  <2>1. /\ toWorker[w] # << >> /\ toWorker[w] \in Channel /\ fromWorker' = fromWorker
        /\ \/ worker' = [worker EXCEPT ![w].pc = "init", ![w].pair = Head(toWorker[w]).pair]
           \/ worker' = [worker EXCEPT ![w].pc = "exited"]
           \/ worker' = [worker EXCEPT ![w].pc = "refused"]
    BY <1>1, <1>7 DEF WorkerAssigned, BackendType
  <2>2. Head(toWorker[w]).pair \in Pairs \cup {NoPair}
    BY <2>1, ReadHead, FrameEqual
  <2>3. worker' \in [Worker -> WorkerType]
    BY <1>1, <2>1, <2>2 DEF ProcessType, WorkerType
  <2> QED
    BY <1>1, <1>2, <1>3, <1>4, <2>1, <2>3 DEF ProcessType, BackendType, RecordType
<1>8. CASE WorkerReceive(w)
  <2>1. p \in Pairs
    BY <1>6, <1>8 DEF WorkerReceive, Session
  <2>2. /\ Verdict(p) \in Channel /\ BadVerdict(p) \in Channel
        /\ \A type \in {"COMMIT", "OPEN", "ABORT"} : Send(type, p) \in Channel
    BY <2>1, ReportFacts DEF ReplyFrame
  <2>3. \/ WorkerMoves(w, "nonce", Send("COMMIT", p)) \/ WorkerMoves(w, "final", Send("OPEN", p))
        \/ WorkerMoves(w, "ack", Verdict(p)) \/ WorkerMoves(w, "idle", BadVerdict(p))
        \/ WorkerMoves(w, "idle", Send("ABORT", p))
    BY <1>8 DEF WorkerReceive
  <2>4. worker' \in [Worker -> WorkerType] /\ fromWorker' \in [Worker -> Channel]
    BY <1>5, <2>2, <2>3
  <2> QED
    BY <1>1, <1>2, <1>3, <1>4, <2>4 DEF ProcessType, BackendType, RecordType
<1>9. CASE WorkerAcknowledged(w)
  <2>1. p \in Pairs
    BY <1>6, <1>9 DEF WorkerAcknowledged
  <2>2. /\ fromWorker' = fromWorker
        /\ worker' = [worker EXCEPT ![w].pc = "idle",
                        ![w].sessions = IF Head(toWorker[w]) = F("ACK", p) THEN @ \cup {p} ELSE @]
    BY <1>9 DEF WorkerAcknowledged
  <2> HIDE DEF p
  <2>3. worker' \in [Worker -> WorkerType]
    <3> DEFINE counted == IF Head(toWorker[w]) = F("ACK", p)
                            THEN worker[w].sessions \cup {p} ELSE worker[w].sessions
    <3>1. worker \in [Worker -> WorkerType] /\ worker[w].sessions \in SUBSET Pairs
      BY <1>1 DEF ProcessType, WorkerType
    <3>2. counted \in SUBSET Pairs
      BY <2>1, <3>1
    <3>3. worker' = [worker EXCEPT ![w].pc = "idle", ![w].sessions = counted]
      BY <2>2
    <3> HIDE DEF counted
    <3> QED
      BY <3>1, <3>2, <3>3 DEF WorkerType
  <2> QED
    BY <1>1, <1>2, <1>3, <1>4, <2>2, <2>3 DEF ProcessType, BackendType, RecordType
<1>10. CASE WorkerTimeout(w)
  <2>1. \/ worker[w].pc \in Session /\ WorkerMoves(w, "idle", Send("ABORT", p))
        \/ \E pc \in {"idle", "expired"} : WorkerMoves(w, pc, << >>)
    BY <1>10 DEF WorkerTimeout, Session
  <2>2. worker[w].pc \in Session => Send("ABORT", p) \in Channel
    BY <1>6, ReportFacts DEF ReplyFrame
  <2>3. worker' \in [Worker -> WorkerType] /\ fromWorker' \in [Worker -> Channel]
    BY <1>5, <2>1, <2>2, ShortChannels
  <2> QED
    BY <1>1, <1>2, <1>3, <1>4, <2>3 DEF ProcessType, BackendType, RecordType
<1> QED
  BY <1>7, <1>8, <1>9, <1>10 DEF WorkerStep

(* Every step keeps the types. *)
LEMMA TypeStep ==
    ASSUME IInv, Next
    PROVE  TypeOK'
<1> USE DEF IInv
<1> DEFINE Typed == TablesType' /\ ProcessType' /\ PublicType' /\ BackendType' /\ RecordType'
<1>1. TablesType /\ ProcessType /\ PublicType /\ BackendType /\ RecordType
  BY TypeParts
<1>2. completed' \in 0 .. Cardinality(Pairs)
  <2>1. completed' = Cardinality(Ended') /\ Ended' \in SUBSET Pairs
    BY TablesStep DEF TablesInv, Ended
  <2>2. IsFiniteSet(Ended') /\ Cardinality(Ended') <= Cardinality(Pairs)
    BY <2>1, FS_Subset, WorkerFacts
  <2>3. Cardinality(Ended') \in Nat /\ Cardinality(Pairs) \in Nat
    BY <2>2, FS_CardinalityType, WorkerFacts
  <2> QED
    BY <2>1, <2>2, <2>3
<1>3. ASSUME NEW w \in Worker, Register(w)
      PROVE  Typed
  <2>1. /\ fromWorker[w] # << >> /\ fromWorker' = Consume(fromWorker, w)
        /\ slots' = [slots EXCEPT ![w].registered = TRUE]
        /\ UNCHANGED <<gateway, routes, queue, dropped, client, worker, fromClient, toClient,
                       toWorker, journal, faults, restarts>>
    BY <1>3 DEF Register, budget
  <2>2. fromWorker' \in [Worker -> Channel]
    BY <1>1, <2>1, BackendChannels DEF BackendType
  <2>3. slots' \in [Worker -> SlotType]
    BY <1>1, <2>1 DEF TablesType, SlotType
  <2> QED
    BY <1>1, <2>1, <2>2, <2>3, TypeSame DEF TablesType, BackendType
<1>4. ASSUME NEW w \in Worker, Relay(w) \/ RelayDone(w)
      PROVE  Typed
  BY <1>4, TypeRelay
<1>5. ASSUME NEW p \in Pairs, Drop(p) \/ Admit(p) \/ Forward(p) \/ Replay(p)
      PROVE  Typed
  BY <1>5, TypeFrontend
<1>6. ASSUME Exit
      PROVE  Typed
  <2>1. /\ gateway' \in {"failed", "exited"} /\ faults' \in 0 .. MaxFaults
        /\ UNCHANGED <<routes, slots, queue, dropped, client, worker, fromClient, toClient,
                       fromWorker, journal, restarts>>
    BY <1>1, <1>6, TypeFault DEF Exit, tables
  <2>2. PICK first : toWorker' = [w \in Worker |->
                                    IF w < first /\ ~ Stopped(w)
                                      THEN Append(toWorker[w], F("SHUTDOWN", NoPair)) ELSE toWorker[w]]
    BY <1>6 DEF Exit
  <2>3. \A w \in Worker : Append(toWorker[w], F("SHUTDOWN", NoPair)) \in Channel
    BY <1>1, FrameFacts, AppendProperties DEF BackendType, Channel
  <2>4. toWorker' \in [Worker -> Channel]
    BY <1>1, <2>2, <2>3 DEF BackendType
  <2> QED
    BY <1>1, <2>1, <2>4, TypeSame DEF TablesType, BackendType, RecordType
<1>7. ASSUME Inactive
      PROVE  Typed
  <2>1. /\ gateway' = "failed" /\ faults' \in 0 .. MaxFaults
        /\ UNCHANGED <<routes, slots, queue, dropped, client, worker, fromClient, toClient,
                       fromWorker, toWorker, journal, restarts>>
    BY <1>1, <1>7, TypeFault DEF Inactive, Die, tables
  <2> QED
    BY <1>1, <2>1, TypeSame DEF TablesType, RecordType
<1>8. ASSUME Restart
      PROVE  Typed
  <2>1. /\ gateway' = "up" /\ routes' = NewRoutes /\ slots' = NewSlots /\ queue' = << >>
        /\ dropped' = FALSE /\ client' = client
        /\ worker' = [w \in Worker |-> NewWorker]
        /\ fromWorker' = [w \in Worker |-> <<F("REGISTER", NoPair)>>] /\ toWorker' = Empty(Worker)
    BY <1>8 DEF Restart
  <2>2. TablesType'
    <3>1. NewRoutes \in [Pairs -> RouteType]
      BY DEF NewRoutes, RouteType
    <3>2. NewSlots \in [Worker -> SlotType]
      BY DEF NewSlots, SlotType
    <3> QED
      BY <2>1, <3>1, <3>2, EmptySeq DEF TablesType
  <2>3. ProcessType'
    <3>1. NewWorker \in WorkerType
      BY DEF NewWorker, WorkerType
    <3> QED
      BY <1>1, <2>1, <3>1 DEF ProcessType
  <2>4. PublicType'
    <3>1. \E lost :
            /\ fromClient' = [p \in Pairs |-> IF p \in lost THEN << >> ELSE fromClient[p]]
            /\ toClient' = [p \in Pairs |-> IF p \in lost THEN << >> ELSE toClient[p]]
      BY <1>8 DEF Restart
    <3> QED
      BY <1>1, <3>1, ShortChannels DEF PublicType
  <2>5. BackendType'
    <3>1. << >> \in Channel /\ <<F("REGISTER", NoPair)>> \in Channel
      BY FrameFacts, ShortChannels
    <3> QED
      BY <2>1, <3>1 DEF BackendType, Empty
  <2>6. RecordType'
    <3>1. restarts' \in 0 .. MaxRestarts
      BY <1>1, <1>8, WorkerFacts DEF Restart, RecordType
    <3>2. faults' \in 0 .. MaxFaults
      BY <1>1, <1>8, TypeFault DEF Restart
    <3>3. journal' \in [Pairs -> {"none", "linked", "durable"}]
      BY <1>1, <1>8 DEF Restart, RecordType
    <3> QED
      BY <3>1, <3>2, <3>3 DEF RecordType
  <2> QED
    BY <2>2, <2>3, <2>4, <2>5, <2>6
<1>9. ASSUME NEW p \in Pairs, ClientStep(p) \/ ClientTimeout(p)
      PROVE  Typed
  BY <1>9, TypeInitiator
<1>10. ASSUME NEW w \in Worker, WorkerStep(w) \/ WorkerTimeout(w)
       PROVE  Typed
  BY <1>10, TypeWorker
<1>11. Typed
  BY <1>3, <1>4, <1>5, <1>6, <1>7, <1>8, <1>9, <1>10 DEF Next, GatewayStep
<1> QED
  BY <1>2, <1>11, TypeParts

-----------------------------------------------------------------------------
(* The theorems *)

(* The invariant holds at the start, when nothing was sent but registrations. *)
LEMMA Initially ==
    ASSUME Init
    PROVE  IInv
<1>1. TypeOK
  <2>1. TablesType
    <3>1. NewRoutes \in [Pairs -> RouteType]
      BY DEF NewRoutes, RouteType
    <3>2. NewSlots \in [Worker -> SlotType]
      BY DEF NewSlots, SlotType
    <3> QED
      BY <3>1, <3>2, EmptySeq DEF Init, TablesType
  <2>2. ProcessType
    BY WorkerFacts DEF Init, ProcessType, ClientType, WorkerType, NewWorker
  <2>3. PublicType /\ BackendType
    BY FrameFacts, ShortChannels DEF Init, PublicType, BackendType, Empty
  <2>4. RecordType /\ completed \in 0 .. Cardinality(Pairs)
    BY WorkerFacts, FS_CardinalityType DEF Init, RecordType
  <2> QED
    BY <2>1, <2>2, <2>3, <2>4, TypeParts
<1>2. TablesInv
  BY TablesInitially DEF Init
<1>3. SessionInv
  BY SessionInitially DEF Init, SessionInv, SessionAt, NewWorker, NewSlots, Empty
<1>4. Range(<< >>) = {} /\ FinalThenQueries(<< >>)
  BY ShortChannels DEF FinalThenQueries
<1>5. InitiatorInv
  BY <1>4 DEF Init, InitiatorInv, Empty
<1>6. /\ \A p \in Pairs : toClient[p] = << >>
      /\ \A w \in Worker : /\ toWorker[w] = << >> /\ fromWorker[w] = <<F("REGISTER", NoPair)>>
                           /\ worker[w].sessions = {} /\ worker[w].pc = "idle"
      /\ \A p \in Pairs : /\ journal[p] = "none" /\ client[p].pc = "new"
                          /\ ~ routes[p].seen
      /\ gateway = "up"
  BY DEF Init, Empty, NewWorker, NewRoutes
<1>7. EvidenceInv
  <2>1. Range(<<F("REGISTER", NoPair)>>) = {F("REGISTER", NoPair)}
    BY FrameFacts, ShortChannels
  <2>2. \A p : F("DONE", p) # F("REGISTER", NoPair)
    BY DEF F
  <2> QED
    BY <1>4, <1>6, <2>1, <2>2 DEF EvidenceInv, Limbo
<1>8. RecordInv
  BY <1>6 DEF RecordInv
<1>9. DurableBeforeKnown
  BY <1>6 DEF DurableBeforeKnown, Holds
<1>10. ShutdownCutsNoSession
  BY <1>6 DEF ShutdownCutsNoSession
<1> QED
  BY <1>1, <1>2, <1>3, <1>5, <1>7, <1>8, <1>9, <1>10 DEF IInv

(* Nothing happens. *)
LEMMA Stuttering ==
    ASSUME IInv, UNCHANGED vars
    PROVE  IInv'
<1> USE DEF IInv, vars, gwVars, tables, budget
<1>1. TypeOK'
  BY DEF TypeOK
<1>2. TablesInv'
  BY TablesStutter
<1>3. SessionInv'
  BY DEF SessionInv, SessionAt
<1>4. InitiatorInv'
  BY DEF InitiatorInv
<1>5. EvidenceInv'
  BY DEF EvidenceInv, Limbo, OnlyQueries
<1>6. RecordInv'
  BY DEF RecordInv
<1>7. DurableBeforeKnown' /\ ShutdownCutsNoSession'
  BY DEF DurableBeforeKnown, Holds, ShutdownCutsNoSession
<1> QED
  BY <1>1, <1>2, <1>3, <1>4, <1>5, <1>6, <1>7

(* The tables of a running gateway agree when the invariant holds: its parts
   make the checks of the event loop succeed. *)
LEMMA TablesFollow ==
    ASSUME IInv
    PROVE  TablesAgree /\ WorkConserving
<1> USE DEF IInv
<1>1. WorkConserving
  BY DEF WorkConserving, TablesInv, QueueInv
<1>2. /\ \A w \in Worker : Busy(w) => Serves(w, slots[w].serves)
      /\ \A p \in Pairs :
           (routes[p].worker # W /\ ~ routes[p].terminal) => slots[routes[p].worker].serves = p
      /\ \A i, j \in DOMAIN queue : queue[i] = queue[j] => i = j
      /\ {queue[i] : i \in DOMAIN queue} =
           {p \in Pairs : routes[p].queued /\ ~ routes[p].terminal}
      /\ completed = Cardinality({p \in Pairs : routes[p].terminal})
  BY DEF TablesInv, AssignmentInv, QueueInv, Waiting, Ended, Range
<1>3. ASSUME NEW w \in Worker, fromWorker[w] # << >>, Head(fromWorker[w]).type # "REGISTER"
      PROVE  Serves(w, Head(fromWorker[w]).pair)
  BY <1>3, HeadServed
<1>4. ASSUME NEW p \in Pairs, fromClient[p] # << >>, Head(fromClient[p]).type # "QUERY",
             routes[p].seen, ~ routes[p].terminal, ~ routes[p].queued
      PROVE  routes[p].worker # W
  <2>1. fromClient[p] \in Channel
    BY ChannelTypes
  <2>2. ~ OnlyQueries(p)
    BY <1>4, <2>1, ReadHead DEF OnlyQueries
  <2> QED
    BY <1>4, <2>2 DEF EvidenceInv, Limbo
<1> QED
  BY <1>1, <1>2, <1>3, <1>4 DEF TablesAgree

(* The invariant is inductive. *)
THEOREM PoolInductive == Spec => []IInv
<1>1. Init => IInv
  BY Initially
<1>2. IInv /\ [Next]_vars => IInv'
  <2> SUFFICES ASSUME IInv, [Next]_vars
               PROVE  IInv'
    OBVIOUS
  <2>1. CASE Next
    <3>1. TypeOK' /\ TablesInv' /\ SessionInv' /\ InitiatorInv' /\ EvidenceInv' /\ RecordInv'
      BY <2>1, TypeStep, TablesStep, SessionStep, InitiatorStep, EvidenceStep, RecordStep
    <3>2. DurableBeforeKnown' /\ ShutdownCutsNoSession'
      BY <2>1, DurableStep, ShutdownStep
    <3> QED
      BY <3>1, <3>2 DEF IInv
  <2>2. CASE UNCHANGED vars
    BY <2>2, Stuttering
  <2> QED
    BY <2>1, <2>2
<1> QED
  BY <1>1, <1>2, PTL DEF Spec

(* Every variable of the pool keeps its type. *)
THEOREM PoolTypeCorrect == Spec => []TypeOK
<1>1. IInv => TypeOK
  BY DEF IInv
<1> QED
  BY <1>1, PoolInductive, PTL

(* The gateway's tables describe one assignment from both sides, and none of
   the event loop's consistency checks, which would end the gateway for every
   pair, can fire: not after faults, not after a restart that replays records
   of sessions whose frames are still in flight. *)
THEOREM PoolTablesAgree == Spec => []TablesAgree
<1>1. IInv => TablesAgree
  BY TablesFollow
<1> QED
  BY <1>1, PoolInductive, PTL

(* No session waits beside an idle worker, or beyond the queue bound. *)
THEOREM PoolWorkConserving == Spec => []WorkConserving
<1>1. IInv => WorkConserving
  BY TablesFollow
<1> QED
  BY <1>1, PoolInductive, PTL

(* No initiator exports, no worker counts and no frame tells of a session
   whose record a crash could still take away. *)
THEOREM PoolDurableBeforeKnown == Spec => []DurableBeforeKnown
<1>1. IInv => DurableBeforeKnown
  BY DEF IInv
<1> QED
  BY <1>1, PoolInductive, PTL

(* A gateway that has left its loop cuts no session and starts none. *)
THEOREM PoolShutdownClean == Spec => []ShutdownCutsNoSession
<1>1. IInv => ShutdownCutsNoSession
  BY DEF IInv
<1> QED
  BY <1>1, PoolInductive, PTL
=============================================================================
