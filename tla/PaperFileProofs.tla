---------------------------- MODULE PaperFileProofs ----------------------------
(***************************************************************************)
(* For any clients, papers, draws and width of lengths: who is synced has  *)
(* a paper that can be read and stored, and has got all that is stored;    *)
(* no draw is stored twice, and they are stored in order.                  *)
(*                                                                         *)
(* The first follows from Readable: a stream fails only over a torn block, *)
(* and a client that is streamed the paper has seen that there is none     *)
(* before its offset.                                                      *)
(*                                                                         *)
(* The rest follows from StoreInv: of the draws, each is in the file once  *)
(* or with one paper, which still has it in its buffer or in its storage   *)
(* builder (Once); a paper has nothing in its buffer unless it is alive or *)
(* to be closed, and alive is only what shared_sessions has (Writers); so  *)
(* what it will write comes after the file (InOrder); and a client has     *)
(* what is in the file before its offset (Got).                            *)
(***************************************************************************)
EXTENDS PaperFile, SequenceTheorems, NaturalsInduction, WellFoundedInduction, TLAPS

InFile(f) == \E i \in DOMAIN f : f[i] = Torn

\* A client at a stream has a paper.
HasPaper == \A c \in Clients : streaming[c] \/ synced[c] => shared_session[c] \in Papers

NoneTorn ==
  \A c \in Clients :
    /\ synced[c] => ~InFile(file)
    /\ streaming[c] => /\ streaming_offset[c] <= Len(file)
                       /\ \A i \in 1..streaming_offset[c] : file[i] # Torn

Readable ==
  ~wrapped => /\ Len(file) < Width
              /\ \A p \in Papers : failed[p] => InFile(file)
              /\ NoneTorn

Inv == TypeOK /\ HasPaper /\ Readable

----------------------------------------------------------------------------
LEMMA Remainder ==
  \A n \in Nat : n % Width \in 0..Width - 1 /\ n % Width <= n /\ (n < Width => n % Width = n)
BY WidthAssumption

LEMMA TornNotBlock == Torn \notin Block
BY TornAssumption DEF Block, Draw

(***************************************************************************)
(* A step in which the file got no more than whole blocks at its end.      *)
(***************************************************************************)
Grown ==
  /\ file' \in Seq(Block \union {Torn})
  /\ Len(file') >= Len(file)
  /\ \A i \in 1..Len(file) : file'[i] = file[i]
  /\ InFile(file') <=> InFile(file)
  /\ wrapped' \in BOOLEAN /\ (wrapped => wrapped')
  /\ ~wrapped' => Len(file') < Width

(***************************************************************************)
(* What is appended to the file leaves what is there where it is.          *)
(***************************************************************************)
LEMMA Extended ==
  ASSUME TypeOK, NEW pieces \in Seq(Block), Written(pieces)
  PROVE  /\ Grown
         /\ Len(file') = Len(file) + Len(pieces)
<1>1. file \in Seq(Block \union {Torn}) /\ pieces \in Seq(Block \union {Torn})
  BY DEF TypeOK
<1>2. file' = file \o pieces
  BY DEF Written
<1>3. /\ file' \in Seq(Block \union {Torn})
      /\ Len(file') = Len(file) + Len(pieces)
      /\ \A i \in 1..Len(file') : file'[i] = IF i <= Len(file) THEN file[i] ELSE pieces[i - Len(file)]
  BY <1>1, <1>2
<1>4. Len(file) \in Nat /\ Len(pieces) \in Nat /\ \A i \in 1..Len(pieces) : pieces[i] \in Block
  OBVIOUS
<1>5. \A i \in Len(file) + 1..Len(file') : file'[i] \in Block
  BY <1>3, <1>4
<1>6. \A i \in 1..Len(file) : file'[i] = file[i]
  BY <1>3, <1>4
<1>7. DOMAIN file = 1..Len(file) /\ DOMAIN file' = 1..Len(file')
  BY <1>1, <1>3
<1>8. InFile(file') <=> InFile(file)
  BY <1>3, <1>4, <1>5, <1>6, <1>7, TornNotBlock DEF InFile
<1>9. wrapped' \in BOOLEAN /\ (wrapped => wrapped')
  BY DEF Written, TypeOK
<1>10. ~wrapped' => Len(file') < Width
  <2>1. ~wrapped' => ~(Len(file') >= Width)
    BY DEF Written
  <2>2. Len(file') \in Nat
    BY <1>3
  <2> QED
    BY <2>1, <2>2, WidthAssumption
<1> QED
  BY <1>3, <1>4, <1>6, <1>8, <1>9, <1>10 DEF Grown, TypeOK

\* seekg(), and closing a stream.
LEMMA SoughtEnd ==
  ASSUME TypeOK, NEW p \in Papers, SeekEnd(p)
  PROVE  /\ Grown
         /\ Len(file') = Len(file) + Len(buffer[p])
         /\ buffer' \in [Papers -> Seq(Block)] /\ \A q \in Papers : Len(buffer'[q]) <= 1
<1>1. buffer[p] \in Seq(Block)
  BY DEF TypeOK
<1>2. /\ buffer' \in [Papers -> Seq(Block)]
      /\ \A q \in Papers : Len(buffer'[q]) <= 1
  <2>1. <<>> \in Seq(Block) /\ Len(<<>>) = 0
    OBVIOUS
  <2> QED
    BY <2>1 DEF SeekEnd, TypeOK
<1> QED
  BY <1>1, <1>2, Extended DEF SeekEnd

LEMMA Stored ==
  ASSUME TypeOK, NEW p \in Papers, Store(p)
  PROVE  /\ Grown
         /\ Len(file') >= Len(file) + Len(buffer[p])
         /\ buffer' \in [Papers -> Seq(Block)] /\ \A q \in Papers : Len(buffer'[q]) <= 1
         /\ storage' \in [Papers -> Seq(Draw)]
<1>1. buffer[p] \in Seq(Block) /\ storage[p] \in Block
  BY DEF TypeOK, Block
<1>2. storage' \in [Papers -> Seq(Draw)]
  BY DEF Store, TypeOK
<1>3. CASE Written(buffer[p]) /\ buffer' = [buffer EXCEPT ![p] = <<storage[p]>>]
  <2>1. <<storage[p]>> \in Seq(Block) /\ Len(<<storage[p]>>) = 1
    BY <1>1
  <2>2. buffer' \in [Papers -> Seq(Block)] /\ \A q \in Papers : Len(buffer'[q]) <= 1
    BY <1>3, <2>1 DEF TypeOK
  <2>3. Len(file') >= Len(file) + Len(buffer[p])
    BY <1>1, <1>3, Extended DEF TypeOK
  <2> QED
    BY <1>1, <1>2, <1>3, <2>2, <2>3, Extended
<1>4. CASE Written(Append(buffer[p], storage[p])) /\ buffer' = [buffer EXCEPT ![p] = <<>>]
  <2>1. <<>> \in Seq(Block) /\ Len(<<>>) = 0
    OBVIOUS
  <2>2. buffer' \in [Papers -> Seq(Block)] /\ \A q \in Papers : Len(buffer'[q]) <= 1
    BY <1>4, <2>1 DEF TypeOK
  <2>3. /\ Append(buffer[p], storage[p]) \in Seq(Block)
        /\ Len(Append(buffer[p], storage[p])) = Len(buffer[p]) + 1
        /\ Len(buffer[p]) \in Nat /\ Len(file) \in Nat
    BY <1>1 DEF TypeOK
  <2>4. Len(file') = Len(file) + Len(Append(buffer[p], storage[p]))
    BY <1>4, <2>3, Extended
  <2>5. Len(file') >= Len(file) + Len(buffer[p])
    BY <2>3, <2>4
  <2> QED
    BY <1>2, <1>4, <2>2, <2>3, <2>5, Extended
<1> QED
  BY <1>3, <1>4 DEF Store

LEMMA Unwritten ==
  ASSUME Inv, UNCHANGED <<file, wrapped>>
  PROVE  Grown
<1>1. wrapped \in BOOLEAN /\ file \in Seq(Block \union {Torn})
  BY DEF Inv, TypeOK
<1>2. ~wrapped => Len(file) < Width
  BY DEF Inv, Readable
<1> QED
  BY <1>1, <1>2 DEF Grown

(***************************************************************************)
(* Readable survives a step in which the file only grows, when a stream    *)
(* fails over a torn block, StreamSynced is for a file without, and an     *)
(* offset passes none.                                                     *)
(***************************************************************************)
LEMMA ReadableKept ==
  ASSUME Inv, Grown,
         ~wrapped' =>
           /\ \A p \in Papers : failed'[p] => failed[p] \/ InFile(file')
           /\ \A c \in Clients :
                /\ synced'[c] => synced[c] \/ ~InFile(file')
                /\ streaming'[c] =>
                     \/ streaming[c] /\ streaming_offset'[c] = streaming_offset[c]
                     \/ /\ streaming_offset'[c] <= Len(file')
                        /\ \A i \in 1..streaming_offset'[c] : file'[i] # Torn
  PROVE  Readable'
<1> SUFFICES ASSUME ~wrapped'
             PROVE  /\ Len(file') < Width
                    /\ \A p \in Papers : failed'[p] => InFile(file')
                    /\ NoneTorn'
  BY DEF Readable
<1>1. ~wrapped /\ Len(file') < Width
  BY DEF Grown
<1>2. \A p \in Papers : failed'[p] => InFile(file')
  BY <1>1 DEF Inv, Readable, Grown
<1>3. ASSUME NEW c \in Clients, streaming'[c], streaming[c],
             streaming_offset'[c] = streaming_offset[c]
      PROVE  /\ streaming_offset'[c] <= Len(file')
             /\ \A i \in 1..streaming_offset'[c] : file'[i] # Torn
  <2>1. streaming_offset[c] \in Nat /\ Len(file) \in Nat /\ Len(file') \in Nat
    BY WidthAssumption DEF Inv, TypeOK, Grown
  <2>2. /\ streaming_offset[c] <= Len(file)
        /\ \A i \in 1..streaming_offset[c] : file[i] # Torn
    BY <1>1, <1>3 DEF Inv, Readable, NoneTorn
  <2> QED
    BY <1>3, <2>1, <2>2 DEF Grown
<1>4. NoneTorn'
  <2> SUFFICES ASSUME NEW c \in Clients
               PROVE  /\ synced'[c] => ~InFile(file')
                      /\ streaming'[c] => /\ streaming_offset'[c] <= Len(file')
                                          /\ \A i \in 1..streaming_offset'[c] : file'[i] # Torn
    BY DEF NoneTorn
  <2>1. synced'[c] => ~InFile(file')
    BY <1>1 DEF Inv, Readable, NoneTorn, Grown
  <2> QED
    BY <1>3, <2>1
<1> QED
  BY <1>1, <1>2, <1>4

LEMMA GrownTypes ==
  ASSUME TypeOK, Grown, UNCHANGED durable
  PROVE  /\ file' \in Seq(Block \union {Torn})
         /\ durable' \in 0..Len(file')
         /\ wrapped' \in BOOLEAN
<1>1. Len(file) \in Nat /\ Len(file') \in Nat
  BY DEF TypeOK, Grown
<1> QED
  BY <1>1 DEF TypeOK, Grown

----------------------------------------------------------------------------
LEMMA InvInit ==
  ASSUME Init
  PROVE  Inv
<1>1. <<>> \in Seq(Block \union {Torn}) /\ <<>> \in Seq(Block) /\ <<>> \in Seq(Draw)
      /\ Len(<<>>) = 0 /\ <<>> \in Block
  BY DEF Block
<1>2. TypeOK
  <2>1. file \in Seq(Block \union {Torn}) /\ durable \in 0..Len(file)
    BY <1>1 DEF Init
  <2>2. draws \in 0..MaxDraws /\ opened \in 0..MaxPapers
    BY BoundsAssumption DEF Init
  <2>3. /\ storage \in [Papers -> Seq(Draw)]
        /\ buffer \in [Papers -> Seq(Block)] /\ \A p \in Papers : Len(buffer[p]) <= 1
    BY <1>1 DEF Init
  <2>4. streaming_offset \in [Clients -> 0..Width - 1]
    BY WidthAssumption DEF Init
  <2>5. received \in [Clients -> Block]
    BY <1>1 DEF Init
  <2> QED
    BY <2>1, <2>2, <2>3, <2>4, <2>5 DEF Init, TypeOK
<1>3. HasPaper
  BY DEF Init, HasPaper
<1>4. Readable
  BY <1>1, WidthAssumption DEF Init, Readable, NoneTorn
<1> QED
  BY <1>2, <1>3, <1>4 DEF Inv

LEMMA InvGet ==
  ASSUME Inv, NEW c \in Clients, Get(c)
  PROVE  Inv'
<1>1. TypeOK /\ HasPaper
  BY DEF Inv
<1>2. PICK p : Joined(c, p) /\ p \in Papers /\ opened' \in 0..MaxPapers
               /\ current' \in Papers \union {NoPaper} /\ overlapped' \in BOOLEAN
  <2>1. CASE Alive(current) /\ Joined(c, current) /\ UNCHANGED <<opened, current, overlapped>>
    BY <1>1, <2>1 DEF Alive, TypeOK
  <2>2. CASE opened < MaxPapers /\ Create(opened + 1) /\ Joined(c, opened + 1)
    <3>1. opened + 1 \in Papers /\ opened + 1 \in 0..MaxPapers
      BY <1>1, <2>2, BoundsAssumption DEF TypeOK, Papers
    <3>2. overlapped' \in BOOLEAN
      BY <1>1, <2>2 DEF Create, TypeOK
    <3> QED
      BY <2>2, <3>1, <3>2 DEF Create
  <2> QED
    BY <2>1, <2>2 DEF Get
<1>3. <<>> \in Block /\ 0 \in 0..Width - 1
  BY WidthAssumption DEF Block
<1>4. TypeOK'
  BY <1>1, <1>2, <1>3 DEF TypeOK, Joined, ioVars
<1>5. HasPaper'
  BY <1>1, <1>2 DEF HasPaper, Joined, TypeOK
<1>6. Grown
  BY <1>2, Unwritten DEF Joined
<1>7. \A d \in Clients : streaming'[d] =>
        \/ streaming[d] /\ streaming_offset'[d] = streaming_offset[d]
        \/ streaming_offset'[d] = 0
  BY <1>1, <1>2 DEF Joined, TypeOK
<1>8. Len(file') \in Nat
  BY <1>4 DEF TypeOK
<1>9. Readable'
  BY <1>2, <1>6, <1>7, <1>8, ReadableKept DEF Joined
<1> QED
  BY <1>4, <1>5, <1>9 DEF Inv

LEMMA InvAddDraw ==
  ASSUME Inv, NEW c \in Clients, AddDraw(c)
  PROVE  Inv'
<1>1. TypeOK
  BY DEF Inv
<1>2. shared_session[c] \in Papers /\ draws + 1 \in Draw /\ draws + 1 \in 0..MaxDraws
  BY <1>1, BoundsAssumption DEF AddDraw, TypeOK, Draw
<1>3. storage' \in [Papers -> Seq(Draw)]
  BY <1>1, <1>2 DEF AddDraw, TypeOK
<1>4. TypeOK'
  BY <1>1, <1>2, <1>3 DEF AddDraw, TypeOK, ioVars, clientVars
<1>5. HasPaper'
  BY DEF Inv, HasPaper, AddDraw, clientVars
<1>6. Grown
  BY Unwritten DEF AddDraw
<1>7. Readable'
  BY <1>6, ReadableKept DEF AddDraw, clientVars
<1> QED
  BY <1>4, <1>5, <1>7 DEF Inv

LEMMA InvLeave ==
  ASSUME Inv, NEW c \in Clients, Leave(c)
  PROVE  Inv'
<1>1. TypeOK
  BY DEF Inv
<1>2. shared_session[c] \in Papers
  BY <1>1 DEF Leave, TypeOK
<1>3. closing' \subseteq Papers
  BY <1>1, <1>2 DEF Leave, TypeOK
<1>4. TypeOK'
  BY <1>1, <1>3 DEF Leave, TypeOK, ioVars
<1>5. HasPaper'
  BY <1>1 DEF Inv, HasPaper, Leave, TypeOK
<1>6. Grown
  BY Unwritten DEF Leave
<1>7. \A d \in Clients : /\ streaming'[d] => streaming[d]
                         /\ synced'[d] => synced[d]
  BY <1>1 DEF Leave, TypeOK
<1>8. Readable'
  BY <1>6, <1>7, ReadableKept DEF Leave
<1> QED
  BY <1>4, <1>5, <1>8 DEF Inv

LEMMA InvClose ==
  ASSUME Inv, NEW p \in Papers, Close(p)
  PROVE  Inv'
<1>1. TypeOK
  BY DEF Inv
<1>2. SeekEnd(p)
  BY DEF Close, SeekEnd
<1>3. Grown /\ buffer' \in [Papers -> Seq(Block)] /\ \A q \in Papers : Len(buffer'[q]) <= 1
  BY <1>1, <1>2, SoughtEnd
<1>4. TypeOK'
  BY <1>1, <1>3, GrownTypes DEF Close, TypeOK, ioVars, clientVars
<1>5. HasPaper'
  BY DEF Inv, HasPaper, Close, clientVars
<1>6. Readable'
  BY <1>3, ReadableKept DEF Close, clientVars
<1> QED
  BY <1>4, <1>5, <1>6 DEF Inv

LEMMA InvStreamBlock ==
  ASSUME Inv, NEW c \in Clients, StreamBlock(c)
  PROVE  Inv'
<1> DEFINE p == shared_session[c]
           offset == streaming_offset[c]
<1>1. TypeOK /\ p \in Papers /\ SeekEnd(p)
  BY DEF Inv, HasPaper, StreamBlock, Streaming
<1>2. Grown /\ buffer' \in [Papers -> Seq(Block)] /\ \A q \in Papers : Len(buffer'[q]) <= 1
  BY <1>1, SoughtEnd
<1>3. Len(file') \in Nat /\ offset \in Nat
  BY <1>1, WidthAssumption DEF Grown, TypeOK
<1>4. offset + 1 \in 1..Len(file')
  <2>1. offset < Len(file') % Width
    BY DEF StreamBlock, Length
  <2>2. Len(file') % Width <= Len(file') /\ Len(file') % Width \in 0..Width - 1
    BY <1>3, Remainder
  <2> QED
    BY <1>3, <2>1, <2>2, WidthAssumption
<1>5. file'[offset + 1] \in Block
  BY <1>2, <1>4 DEF Grown, StreamBlock
<1>6. received[c] \o file'[offset + 1] \in Block
  BY <1>1, <1>5 DEF TypeOK, Block
<1>7. (offset + 1) % Width \in 0..Width - 1 /\ (offset + 1) % Width <= offset + 1
  BY <1>3, Remainder
<1>8. TypeOK'
  BY <1>1, <1>2, <1>6, <1>7, GrownTypes DEF StreamBlock, Streaming, TypeOK, ioVars
<1>9. HasPaper'
  BY DEF Inv, HasPaper, StreamBlock, Streaming
<1>10. ASSUME ~wrapped'
       PROVE  /\ streaming_offset'[c] <= Len(file')
              /\ \A i \in 1..streaming_offset'[c] : file'[i] # Torn
  <2>1. ~wrapped
    BY <1>2, <1>10 DEF Grown
  <2>2. offset <= Len(file) /\ \A i \in 1..offset : file[i] # Torn
    BY <2>1 DEF Inv, Readable, NoneTorn, StreamBlock, Streaming
  <2>3. \A i \in 1..offset : file'[i] # Torn
    <3>1. Len(file) \in Nat
      BY <1>1 DEF TypeOK
    <3>2. \A i \in 1..Len(file) : file'[i] = file[i]
      BY <1>2 DEF Grown
    <3> HIDE DEF offset
    <3> QED
      BY <1>3, <2>2, <3>1, <3>2
  <2>4. \A i \in 1..offset + 1 : file'[i] # Torn
    BY <1>3, <2>3 DEF StreamBlock
  <2>5. streaming_offset'[c] = (offset + 1) % Width
    BY <1>1 DEF StreamBlock, TypeOK
  <2> QED
    BY <1>3, <1>4, <1>7, <2>4, <2>5
<1>11. \A d \in Clients \ {c} : streaming_offset'[d] = streaming_offset[d]
  BY <1>1 DEF StreamBlock, TypeOK
<1>12. Readable'
  BY <1>2, <1>10, <1>11, ReadableKept DEF StreamBlock
<1> QED
  BY <1>8, <1>9, <1>12 DEF Inv

LEMMA InvStreamTorn ==
  ASSUME Inv, NEW c \in Clients, StreamTorn(c)
  PROVE  Inv'
<1> DEFINE p == shared_session[c]
           offset == streaming_offset[c]
<1>1. TypeOK /\ p \in Papers /\ SeekEnd(p)
  BY DEF Inv, HasPaper, StreamTorn, Streaming
<1>2. Grown /\ buffer' \in [Papers -> Seq(Block)] /\ \A q \in Papers : Len(buffer'[q]) <= 1
  BY <1>1, SoughtEnd
<1>3. failed' \in [Papers -> BOOLEAN] /\ \A q \in Papers \ {p} : failed'[q] = failed[q]
  BY <1>1 DEF StreamTorn, TypeOK
<1>4. TypeOK'
  BY <1>1, <1>2, <1>3, GrownTypes DEF StreamTorn, Streaming, TypeOK, ioVars
<1>5. \A d \in Clients : streaming'[d] => streaming[d]
  BY <1>1 DEF StreamTorn, TypeOK
<1>6. HasPaper'
  BY <1>5 DEF Inv, HasPaper, StreamTorn, Streaming
<1>7. InFile(file')
  <2>1. Len(file') \in Nat /\ offset \in Nat
    BY <1>1, <1>2, WidthAssumption DEF Grown, TypeOK
  <2>2. offset < Len(file') % Width /\ file'[offset + 1] = Torn
    BY DEF StreamTorn, Length
  <2>3. Len(file') % Width <= Len(file') /\ Len(file') % Width \in 0..Width - 1
    BY <2>1, Remainder
  <2>4. offset + 1 \in 1..Len(file')
    BY <2>1, <2>2, <2>3, WidthAssumption
  <2> QED
    BY <1>2, <2>2, <2>4 DEF InFile, Grown
<1>8. Readable'
  BY <1>2, <1>5, <1>7, ReadableKept DEF StreamTorn
<1> QED
  BY <1>4, <1>6, <1>8 DEF Inv

LEMMA InvStreamFails ==
  ASSUME Inv, NEW c \in Clients, StreamFails(c)
  PROVE  Inv'
<1>1. TypeOK
  BY DEF Inv
<1>2. Grown
  BY Unwritten DEF StreamFails
<1>3. TypeOK'
  BY <1>1 DEF StreamFails, Streaming, TypeOK, ioVars
<1>4. \A d \in Clients : streaming'[d] => streaming[d]
  BY <1>1 DEF StreamFails, TypeOK
<1>5. HasPaper'
  BY <1>4 DEF Inv, HasPaper, StreamFails, Streaming
<1>6. Readable'
  BY <1>2, <1>4, ReadableKept DEF StreamFails
<1> QED
  BY <1>3, <1>5, <1>6 DEF Inv

(***************************************************************************)
(* The client has seen the file up to its offset, which is the whole of    *)
(* it unless the length wrapped, and nothing torn is added to it.          *)
(***************************************************************************)
LEMMA InvStreamEnd ==
  ASSUME Inv, NEW c \in Clients, StreamEnd(c)
  PROVE  Inv'
<1> DEFINE p == shared_session[c]
           offset == streaming_offset[c]
<1>1. TypeOK /\ p \in Papers
  BY DEF Inv, HasPaper, StreamEnd, Streaming
<1>2. /\ Grown /\ Len(file') >= Len(file) + Len(buffer[p])
      /\ buffer' \in [Papers -> Seq(Block)] /\ \A q \in Papers : Len(buffer'[q]) <= 1
      /\ storage' \in [Papers -> Seq(Draw)]
  <2>1. CASE SeekEnd(p) /\ UNCHANGED storage
    <3>1. /\ Grown /\ Len(file') = Len(file) + Len(buffer[p])
          /\ buffer' \in [Papers -> Seq(Block)] /\ \A q \in Papers : Len(buffer'[q]) <= 1
      BY <1>1, <2>1, SoughtEnd
    <3>2. Len(file') \in Nat /\ storage' \in [Papers -> Seq(Draw)]
      BY <1>1, <2>1, <3>1 DEF Grown, TypeOK
    <3> QED
      BY <3>1, <3>2
  <2>2. CASE Store(p)
    BY <1>1, <2>2, Stored
  <2> QED
    BY <2>1, <2>2 DEF StreamEnd
<1>3. received[c] \o storage[p] \in Block
  BY <1>1 DEF TypeOK, Block
<1>4. TypeOK'
  BY <1>1, <1>2, <1>3, GrownTypes DEF StreamEnd, Streaming, TypeOK, ioVars
<1>5. \A d \in Clients : /\ streaming'[d] => streaming[d]
                         /\ synced'[d] => synced[d] \/ d = c
  BY <1>1 DEF StreamEnd, TypeOK
<1>6. HasPaper'
  BY <1>1, <1>5 DEF Inv, HasPaper, StreamEnd, Streaming
<1>7. ASSUME ~wrapped'
      PROVE  ~InFile(file')
  <2>1. ~wrapped /\ Len(file') < Width
    BY <1>2, <1>7 DEF Grown
  <2>2. offset <= Len(file) /\ \A i \in 1..offset : file[i] # Torn
    BY <2>1 DEF Inv, Readable, NoneTorn, StreamEnd, Streaming
  <2>3. /\ Len(file) \in Nat /\ Len(file') \in Nat /\ Len(buffer[p]) \in Nat
        /\ Len(file \o buffer[p]) = Len(file) + Len(buffer[p])
        /\ offset \in Nat /\ DOMAIN file = 1..Len(file)
    <3>1. file \in Seq(Block \union {Torn}) /\ buffer[p] \in Seq(Block \union {Torn})
          /\ file' \in Seq(Block \union {Torn}) /\ offset \in 0..Width - 1
      BY <1>1, <1>2 DEF TypeOK, Grown
    <3> QED
      BY <3>1, WidthAssumption
  <2>4. offset >= Len(file \o buffer[p]) % Width
    BY DEF StreamEnd
  <2> HIDE DEF offset, p
  <2>5. Len(file) + Len(buffer[p]) < Width
    BY <1>2, <2>1, <2>3, WidthAssumption
  <2>6. (Len(file) + Len(buffer[p])) % Width = Len(file) + Len(buffer[p])
    BY <2>3, <2>5, Remainder
  <2>7. offset = Len(file)
    <3>1. offset >= Len(file) + Len(buffer[p])
      BY <2>3, <2>4, <2>6
    <3>2. offset <= Len(file)
      BY <2>2
    <3>3. Len(file) \in Nat /\ Len(buffer[p]) \in Nat /\ offset \in Nat
      BY <2>3
    <3> QED
      BY <3>1, <3>2, <3>3
  <2>8. ~InFile(file)
    BY <2>2, <2>3, <2>7 DEF InFile
  <2> QED
    BY <1>2, <2>8 DEF Grown
<1>8. \A d \in Clients : streaming_offset'[d] = streaming_offset[d]
  BY DEF StreamEnd
<1>9. Readable'
  BY <1>2, <1>5, <1>7, <1>8, ReadableKept DEF StreamEnd
<1> QED
  BY <1>4, <1>6, <1>9 DEF Inv

LEMMA InvStoreAll ==
  ASSUME Inv, StoreAll
  PROVE  Inv'
<1>1. TypeOK
  BY DEF Inv
<1>2. /\ Grown
      /\ buffer' \in [Papers -> Seq(Block)] /\ \A q \in Papers : Len(buffer'[q]) <= 1
      /\ storage' \in [Papers -> Seq(Draw)]
  <2>1. CASE snapshot # NoPaper /\ Store(snapshot)
    <3>1. snapshot \in Papers
      BY <1>1, <2>1 DEF TypeOK
    <3> QED
      BY <1>1, <2>1, <3>1, Stored
  <2>2. CASE StoreFails(snapshot)
    <3>1. <<>> \in Seq(Draw)
      OBVIOUS
    <3>2. storage' \in [Papers -> Seq(Draw)]
      BY <1>1, <2>2, <3>1 DEF StoreFails, TypeOK
    <3> QED
      BY <1>1, <2>2, <3>2, Unwritten DEF StoreFails, TypeOK
  <2>3. CASE UNCHANGED <<file, buffer, storage, wrapped>>
    BY <1>1, <2>3, Unwritten DEF TypeOK
  <2> QED
    BY <2>1, <2>2, <2>3 DEF StoreAll
<1>3. TypeOK'
  BY <1>1, <1>2, GrownTypes DEF StoreAll, TypeOK, clientVars
<1>4. HasPaper'
  BY DEF Inv, HasPaper, StoreAll, clientVars
<1>5. Readable'
  BY <1>2, ReadableKept DEF StoreAll, clientVars
<1> QED
  BY <1>3, <1>4, <1>5 DEF Inv

\* The list lets a paper go, and the next one is made.
LEMMA InvLists ==
  ASSUME Inv, ClearList \/ NewList
  PROVE  Inv'
<1>1. TypeOK
  BY DEF Inv
<1>2. UNCHANGED <<file, buffer, wrapped, durable, draws, opened, current, storage, failed,
                  clientVars, overlapped>>
  BY DEF ClearList, NewList
<1>3. /\ snapshot' \in Papers \union {NoPaper} /\ dropped' \in Papers \union {NoPaper}
      /\ closing' \subseteq Papers /\ io' \in {"Stream", "Clear", "List"}
  BY <1>1 DEF ClearList, NewList, TypeOK
<1>4. TypeOK'
  BY <1>1, <1>2, <1>3 DEF TypeOK, clientVars
<1>5. HasPaper'
  BY <1>2 DEF Inv, HasPaper, clientVars
<1>6. Readable'
  BY <1>1, <1>2, Unwritten, ReadableKept DEF clientVars
<1> QED
  BY <1>4, <1>5, <1>6 DEF Inv

(***************************************************************************)
(* Started again there is nobody who could be synced.  What is left of the *)
(* file is no longer than it was.                                          *)
(***************************************************************************)
LEMMA InvRestarted ==
  ASSUME Inv, Restarted,
         file' \in Seq(Block \union {Torn}), Len(file') <= Len(file),
         durable' \in 0..Len(file')
  PROVE  Inv'
<1>1. TypeOK /\ Len(file) \in Nat /\ Len(file') \in Nat
  BY DEF Inv, TypeOK
<1>2. <<>> \in Seq(Block) /\ <<>> \in Seq(Draw) /\ Len(<<>>) = 0 /\ <<>> \in Block
  BY DEF Block
<1>3. TypeOK'
  <2>1. /\ storage' \in [Papers -> Seq(Draw)]
        /\ buffer' \in [Papers -> Seq(Block)] /\ \A p \in Papers : Len(buffer'[p]) <= 1
    BY <1>2 DEF Restarted
  <2>2. streaming_offset' \in [Clients -> 0..Width - 1]
    BY WidthAssumption DEF Restarted
  <2>3. received' \in [Clients -> Block]
    BY <1>2 DEF Restarted
  <2> QED
    BY <1>1, <2>1, <2>2, <2>3 DEF Restarted, TypeOK
<1>4. HasPaper'
  BY DEF HasPaper, Restarted
<1>5. Readable'
  <2>1. ~wrapped' => Len(file') < Width
    BY <1>1, WidthAssumption DEF Restarted, Inv, Readable
  <2> QED
    BY <2>1 DEF Restarted, Readable, NoneTorn
<1> QED
  BY <1>3, <1>4, <1>5 DEF Inv

LEMMA InvKilled ==
  ASSUME Inv, Killed
  PROVE  Inv'
<1>1. /\ file' \in Seq(Block \union {Torn}) /\ Len(file') <= Len(file)
      /\ durable' \in 0..Len(file')
  BY DEF Killed, Inv, TypeOK
<1> QED
  BY <1>1, InvRestarted DEF Killed

LEMMA InvPowerLost ==
  ASSUME Inv, PowerLost
  PROVE  Inv'
<1>1. PICK n \in durable..Len(file) :
        \/ file' = SubSeq(file, 1, n)
        \/ n < Len(file) /\ file' = Append(SubSeq(file, 1, n), Torn)
  BY DEF PowerLost
<1>2. /\ file \in Seq(Block \union {Torn}) /\ Len(file) \in Nat
      /\ n \in Nat /\ n <= Len(file)
  BY <1>1 DEF Inv, TypeOK
<1>3. SubSeq(file, 1, n) \in Seq(Block \union {Torn}) /\ Len(SubSeq(file, 1, n)) = n
  BY <1>2
<1>4. /\ Append(SubSeq(file, 1, n), Torn) \in Seq(Block \union {Torn})
      /\ Len(Append(SubSeq(file, 1, n), Torn)) = n + 1
  BY <1>3
<1>5. file' \in Seq(Block \union {Torn}) /\ Len(file') <= Len(file)
  BY <1>1, <1>2, <1>3, <1>4
<1>6. durable' \in 0..Len(file')
  <2>1. durable' = Len(file')
    BY DEF PowerLost
  <2>2. Len(file') \in Nat
    BY <1>5
  <2> QED
    BY <2>1, <2>2
<1> QED
  BY <1>5, <1>6, InvRestarted DEF PowerLost

LEMMA InvStutter ==
  ASSUME Inv, UNCHANGED vars
  PROVE  Inv'
<1>1. TypeOK' /\ HasPaper'
  BY DEF Inv, vars, ioVars, clientVars, TypeOK, HasPaper
<1>2. Readable'
  BY DEF Inv, vars, ioVars, clientVars, Readable, NoneTorn
<1> QED
  BY <1>1, <1>2 DEF Inv

LEMMA InvNext ==
  ASSUME Inv, [Next]_vars
  PROVE  Inv'
BY InvGet, InvAddDraw, InvLeave, InvClose, InvStreamBlock, InvStreamTorn, InvStreamFails,
   InvStreamEnd, InvStoreAll, InvLists, InvKilled, InvPowerLost, InvStutter DEF Next

LEMMA InvAlways == Spec => []Inv
<1>1. Init => Inv
  BY InvInit
<1>2. Inv /\ [Next]_vars => Inv'
  BY InvNext
<1> QED
  BY <1>1, <1>2, PTL DEF Spec

----------------------------------------------------------------------------
\* Offsets stay below the width of a length, no buffer holds more than one
\* block, and streams are read and written only through a paper that is there.
THEOREM TypeCorrect == Spec => []TypeOK
<1>1. Inv => TypeOK
  BY DEF Inv
<1> QED
  BY <1>1, InvAlways, PTL

(***************************************************************************)
(* Nobody gets StreamSynced for a paper with a torn block in it, or for    *)
(* one whose stream has failed, whatever is killed and cut off before, as  *)
(* long as the file's length fits its width.                               *)
(***************************************************************************)
THEOREM SyncedCanRead == Spec => []SyncedReadable
<1>1. Inv => SyncedReadable
  BY DEF Inv, HasPaper, Readable, NoneTorn, InFile, SyncedReadable
<1> QED
  BY <1>1, InvAlways, PTL

----------------------------------------------------------------------------
(***************************************************************************)
(* What DrawsIn says: its recursion has a value, by induction on the       *)
(* number of blocks.  There is always a least number without it, for which *)
(* the step from the number before fails.                                  *)
(***************************************************************************)
LEMMA LeastNumber ==
  ASSUME NEW T \in SUBSET Nat, T # {}
  PROVE  \E i \in T : \A j \in T : i <= j
<1>1. IsWellFoundedOn(OpToRel(<, Nat), Nat)
  BY NatLessThanWellFounded
<1>2. \E i \in T : \A j \in T : ~ (<<j, i>> \in OpToRel(<, Nat))
  BY <1>1, WFMin, Zenon
<1>3. \A i, j \in Nat : <<j, i>> \in OpToRel(<, Nat) <=> j < i
  BY DEF OpToRel
<1>4. \E i \in T : \A j \in T : ~ (j < i)
  BY <1>2, <1>3, Zenon
<1> QED
  BY <1>4

\* What a file is made of.
Piece == Block \union {Torn}

\* g is DrawsUpTo(s), as far as m.
Counts(g, s, m) ==
  \A n \in 0..m :
    g[n] = IF n = 0 THEN <<>>
           ELSE IF s[n] = Torn THEN g[n - 1] ELSE g[n - 1] \o s[n]

\* The recursion defines a function ...
LEMMA CountsSome ==
  ASSUME NEW s \in Seq(Piece), NEW m \in 0..Len(s)
  PROVE  \E g \in [0..m -> Block] : Counts(g, s, m)
<1> DEFINE Some(n) == \E g \in [0..n -> Block] : Counts(g, s, n)
           T == {n \in 0..Len(s) : ~Some(n)}
<1> HIDE DEF Some
<1> SUFFICES ASSUME T # {} PROVE FALSE
  BY DEF Some
<1>1. PICK n \in T : \A k \in T : n <= k
  <2>1. T \in SUBSET Nat /\ T # {}
    OBVIOUS
  <2> HIDE DEF T
  <2> QED
    BY <2>1, LeastNumber
<1>2. n \in 0..Len(s) /\ ~Some(n) /\ Len(s) \in Nat
  OBVIOUS
<1>3. CASE n = 0
  <2>1. [k \in 0..0 |-> <<>>] \in [0..0 -> Block]
    BY DEF Block
  <2>2. Counts([k \in 0..0 |-> <<>>], s, 0)
    BY DEF Counts
  <2> QED
    BY <1>2, <1>3, <2>1, <2>2 DEF Some
<1>4. CASE n # 0
  <2>1. n - 1 \in 0..Len(s) /\ n - 1 \notin T
    BY <1>1, <1>2, <1>4
  <2>2. PICK g \in [0..n - 1 -> Block] : Counts(g, s, n - 1)
    BY <2>1 DEF Some
  <2> DEFINE next == IF s[n] = Torn THEN g[n - 1] ELSE g[n - 1] \o s[n]
             h == [k \in 0..n |-> IF k = n THEN next ELSE g[k]]
  <2>3. next \in Block
    <3>1. g[n - 1] \in Block /\ s[n] \in Piece
      BY <1>2, <1>4, <2>1
    <3>2. \A a, b \in Block : a \o b \in Block
      BY DEF Block
    <3> QED
      BY <3>1, <3>2 DEF Piece
  <2> HIDE DEF next
  <2>4. h \in [0..n -> Block]
    BY <1>2, <1>4, <2>3
  <2>5. h[n] = next /\ \A k \in 0..n - 1 : h[k] = g[k]
    BY <1>2, <1>4
  <2>6. ASSUME NEW k \in 0..n
        PROVE  h[k] = IF k = 0 THEN <<>>
                      ELSE IF s[k] = Torn THEN h[k - 1] ELSE h[k - 1] \o s[k]
    <3>1. CASE k = n
      <4>1. h[n - 1] = g[n - 1]
        BY <1>2, <1>4, <2>5
      <4> HIDE DEF h
      <4> QED
        BY <1>4, <2>5, <3>1, <4>1 DEF next
    <3>2. CASE k # n
      <4>1. k \in 0..n - 1
        BY <1>2, <3>2
      <4>2. g[k] = IF k = 0 THEN <<>> ELSE IF s[k] = Torn THEN g[k - 1] ELSE g[k - 1] \o s[k]
        BY <2>2, <4>1 DEF Counts
      <4>3. h[k] = g[k] /\ (k # 0 => h[k - 1] = g[k - 1])
        BY <1>2, <2>5, <4>1
      <4> HIDE DEF h
      <4> QED
        BY <4>2, <4>3
    <3> QED
      BY <3>1, <3>2
  <2> HIDE DEF h
  <2>7. Counts(h, s, n)
    BY <2>6 DEF Counts
  <2> QED
    BY <1>2, <2>4, <2>7 DEF Some
<1> QED
  BY <1>3, <1>4

LEMMA UpToCounts ==
  ASSUME NEW s \in Seq(Piece)
  PROVE  DrawsUpTo(s) \in [0..Len(s) -> Block] /\ Counts(DrawsUpTo(s), s, Len(s))
<1> DEFINE Body(f) == [n \in 0..Len(s) |->
                         IF n = 0 THEN <<>>
                         ELSE IF s[n] = Torn THEN f[n - 1] ELSE f[n - 1] \o s[n]]
           d == DrawsUpTo(s)
<1>1. d = CHOOSE f : f = Body(f)
  BY DEF DrawsUpTo
<1>2. PICK g \in [0..Len(s) -> Block] : Counts(g, s, Len(s))
  <2>1. Len(s) \in 0..Len(s)
    OBVIOUS
  <2> QED
    BY <2>1, CountsSome
<1>3. g = Body(g)
  <2>1. \A n \in 0..Len(s) : g[n] = Body(g)[n]
    BY <1>2 DEF Counts
  <2>2. Body(g) = [n \in 0..Len(s) |-> Body(g)[n]] /\ g = [n \in 0..Len(s) |-> g[n]]
    OBVIOUS
  <2> HIDE DEF Body
  <2> QED
    BY <2>1, <2>2
<1> HIDE DEF d
<1>4. d = Body(d)
  <2> HIDE DEF Body
  <2> QED
    BY <1>1, <1>3
<1>5. Counts(d, s, Len(s))
  <2>1. \A n \in 0..Len(s) : Body(d)[n] = IF n = 0 THEN <<>>
                        ELSE IF s[n] = Torn THEN d[n - 1] ELSE d[n - 1] \o s[n]
    OBVIOUS
  <2> HIDE DEF Body
  <2> QED
    BY <1>4, <2>1 DEF Counts
<1>6. DOMAIN d = 0..Len(s) /\ d = [n \in 0..Len(s) |-> d[n]]
  <2>1. DOMAIN Body(d) = 0..Len(s) /\ Body(d) = [n \in 0..Len(s) |-> Body(d)[n]]
    OBVIOUS
  <2> HIDE DEF Body
  <2> QED
    BY <1>4, <2>1
<1>7. \A n \in 0..Len(s) : d[n] = g[n]
  <2> DEFINE T == {n \in 0..Len(s) : d[n] # g[n]}
  <2> SUFFICES ASSUME T # {} PROVE FALSE
    OBVIOUS
  <2>1. PICK n \in T : \A k \in T : n <= k
    <3>1. T \in SUBSET Nat /\ T # {}
      OBVIOUS
    <3> HIDE DEF T
    <3> QED
      BY <3>1, LeastNumber
  <2>2. n = 0 \/ (n - 1 \in 0..Len(s) /\ n - 1 \notin T)
    BY <2>1
  <2>3. d[n] # g[n] /\ n \in 0..Len(s) /\ (n # 0 => d[n - 1] = g[n - 1])
    BY <2>2
  <2>4. /\ d[n] = IF n = 0 THEN <<>> ELSE IF s[n] = Torn THEN d[n - 1] ELSE d[n - 1] \o s[n]
        /\ g[n] = IF n = 0 THEN <<>> ELSE IF s[n] = Torn THEN g[n - 1] ELSE g[n - 1] \o s[n]
    BY <1>2, <1>5, <2>3 DEF Counts
  <2> QED
    BY <2>3, <2>4
<1>8. d = g
  BY <1>6, <1>7, <1>2
<1> QED
  BY <1>2, <1>5, <1>8 DEF d

LEMMA DrawsAssociate ==
  \A x, y, z \in Block : (x \o y) \o z = x \o (y \o z)
BY ConcatAssociative DEF Block

\* ... whose values on two files are those of the one, and then the other.
LEMMA DrawsOfBoth ==
  ASSUME NEW a \in Seq(Piece), NEW b \in Seq(Piece)
  PROVE  DrawsIn(a \o b) = DrawsIn(a) \o DrawsIn(b)
<1> DEFINE c == a \o b
           f == DrawsUpTo(a)
           g == DrawsUpTo(b)
           h == DrawsUpTo(c)
<1>1. /\ c \in Seq(Piece) /\ Len(c) = Len(a) + Len(b)
      /\ Len(a) \in Nat /\ Len(b) \in Nat
      /\ \A i \in 1..Len(a) : c[i] = a[i]
      /\ \A i \in 1..Len(b) : c[Len(a) + i] = b[i]
  OBVIOUS
<1>2. /\ f \in [0..Len(a) -> Block] /\ Counts(f, a, Len(a))
      /\ g \in [0..Len(b) -> Block] /\ Counts(g, b, Len(b))
      /\ h \in [0..Len(c) -> Block] /\ Counts(h, c, Len(c))
  BY <1>1, UpToCounts
<1> HIDE DEF c, f, g, h
<1>3. \A n \in 0..Len(a) : h[n] = f[n]
  <2> DEFINE Same(n) == h[n] = f[n]
             T == {n \in 0..Len(a) : ~Same(n)}
  <2> HIDE DEF Same
  <2> SUFFICES ASSUME T # {} PROVE FALSE
    BY DEF Same
  <2>1. PICK n \in T : \A k \in T : n <= k
    <3>1. T \in SUBSET Nat /\ T # {}
      BY <1>1
    <3> HIDE DEF T
    <3> QED
      BY <3>1, LeastNumber
  <2>2. h[n] # f[n] /\ n \in 0..Len(a) /\ n \in 0..Len(c)
    BY <1>1 DEF Same
  <2>3. n # 0 => h[n - 1] = f[n - 1] /\ c[n] = a[n]
    <3>1. n # 0 => n - 1 \in 0..Len(a) /\ Same(n - 1)
      BY <1>1, <2>1
    <3> QED
      BY <1>1, <2>2, <3>1 DEF Same
  <2>4. /\ h[n] = IF n = 0 THEN <<>> ELSE IF c[n] = Torn THEN h[n - 1] ELSE h[n - 1] \o c[n]
        /\ f[n] = IF n = 0 THEN <<>> ELSE IF a[n] = Torn THEN f[n - 1] ELSE f[n - 1] \o a[n]
    BY <1>2, <2>2 DEF Counts
  <2> QED
    BY <2>2, <2>3, <2>4
<1>4. f[Len(a)] \in Block
  BY <1>1, <1>2
<1>5. \A n \in 0..Len(b) : h[Len(a) + n] = f[Len(a)] \o g[n]
  <2> DEFINE Same(n) == h[Len(a) + n] = f[Len(a)] \o g[n]
             T == {n \in 0..Len(b) : ~Same(n)}
  <2> HIDE DEF Same
  <2> SUFFICES ASSUME T # {} PROVE FALSE
    BY DEF Same
  <2>1. PICK n \in T : \A k \in T : n <= k
    <3>1. T \in SUBSET Nat /\ T # {}
      BY <1>1
    <3> HIDE DEF T
    <3> QED
      BY <3>1, LeastNumber
  <2>2. n \in 0..Len(b) /\ h[Len(a) + n] # f[Len(a)] \o g[n]
    BY DEF Same
  <2>3. n = 0 \/ (n - 1 \in 0..Len(b) /\ Same(n - 1))
    BY <1>1, <2>1
  <2>4. g[n] = IF n = 0 THEN <<>> ELSE IF b[n] = Torn THEN g[n - 1] ELSE g[n - 1] \o b[n]
    BY <1>2, <2>2 DEF Counts
  <2>5. CASE n = 0
    <3>1. h[Len(a) + 0] = f[Len(a)]
      BY <1>1, <1>3
    <3>2. f[Len(a)] \o <<>> = f[Len(a)]
      BY <1>4 DEF Block
    <3> QED
      BY <2>2, <2>4, <2>5, <3>1, <3>2
  <2>6. CASE n # 0
    <3>1. h[Len(a) + (n - 1)] = f[Len(a)] \o g[n - 1]
      BY <2>3, <2>6 DEF Same
    <3>2. /\ Len(a) + n \in 0..Len(c) /\ Len(a) + n # 0
          /\ Len(a) + n - 1 = Len(a) + (n - 1)
          /\ c[Len(a) + n] = b[n]
      BY <1>1, <2>2, <2>6
    <3>3. h[Len(a) + n] = IF b[n] = Torn THEN h[Len(a) + (n - 1)]
                                         ELSE h[Len(a) + (n - 1)] \o b[n]
      <4> DEFINE k == Len(a) + n
      <4>1. k \in 0..Len(c) /\ k # 0 /\ k - 1 = Len(a) + (n - 1) /\ c[k] = b[n]
        BY <3>2
      <4> HIDE DEF k
      <4>2. h[k] = IF c[k] = Torn THEN h[k - 1] ELSE h[k - 1] \o c[k]
        BY <1>2, <4>1 DEF Counts
      <4> QED
        BY <4>1, <4>2 DEF k
    <3>4. b[n] # Torn => b[n] \in Block
      BY <1>1, <2>2, <2>6 DEF Piece
    <3>5. g[n - 1] \in Block
      BY <1>2, <2>3, <2>6
    <3> QED
      <4>1. CASE b[n] = Torn
        BY <2>2, <2>4, <2>6, <3>1, <3>3, <4>1
      <4>2. CASE b[n] # Torn
        <5>1. h[Len(a) + n] = (f[Len(a)] \o g[n - 1]) \o b[n]
          BY <3>1, <3>3, <4>2
        <5>2. (f[Len(a)] \o g[n - 1]) \o b[n] = f[Len(a)] \o (g[n - 1] \o b[n])
          BY <1>4, <3>4, <3>5, <4>2, DrawsAssociate
        <5>3. g[n] = g[n - 1] \o b[n]
          BY <2>4, <2>6, <4>2
        <5> QED
          BY <2>2, <5>1, <5>2, <5>3
      <4> QED
        BY <4>1, <4>2
  <2> QED
    BY <2>5, <2>6
<1>6. h[Len(c)] = f[Len(a)] \o g[Len(b)]
  <2>1. Len(b) \in 0..Len(b)
    BY <1>1
  <2> QED
    BY <1>1, <1>5, <2>1
<1> QED
  BY <1>6 DEF DrawsIn, c, f, g, h

LEMMA DrawsOfOne ==
  /\ DrawsIn(<<>>) = <<>>
  /\ DrawsIn(<<Torn>>) = <<>>
  /\ \A b \in Block : DrawsIn(<<b>>) = b
  /\ \A s \in Seq(Piece) : DrawsIn(s) \in Block
<1>1. ASSUME NEW s \in Seq(Piece)
      PROVE  DrawsIn(s) \in Block
  <2>1. Len(s) \in 0..Len(s)
    OBVIOUS
  <2> QED
    BY <2>1, UpToCounts DEF DrawsIn
<1>2. DrawsIn(<<>>) = <<>>
  <2>1. <<>> \in Seq(Piece) /\ Len(<<>>) = 0
    OBVIOUS
  <2>2. Counts(DrawsUpTo(<<>>), <<>>, 0)
    BY <2>1, UpToCounts
  <2> QED
    BY <2>1, <2>2 DEF Counts, DrawsIn
<1>3. ASSUME NEW b \in Piece
      PROVE  DrawsIn(<<b>>) = IF b = Torn THEN <<>> ELSE <<>> \o b
  <2>1. <<b>> \in Seq(Piece) /\ Len(<<b>>) = 1 /\ <<b>>[1] = b
    OBVIOUS
  <2>2. Counts(DrawsUpTo(<<b>>), <<b>>, 1)
    BY <2>1, UpToCounts
  <2>3. DrawsUpTo(<<b>>)[0] = <<>>
    BY <2>2 DEF Counts
  <2>4. DrawsUpTo(<<b>>)[1] = IF b = Torn THEN DrawsUpTo(<<b>>)[1 - 1] ELSE DrawsUpTo(<<b>>)[1 - 1] \o b
    BY <2>1, <2>2 DEF Counts
  <2> QED
    <3>1. DrawsIn(<<b>>) = DrawsUpTo(<<b>>)[1]
      BY <2>1 DEF DrawsIn
    <3>2. 1 - 1 = 0
      OBVIOUS
    <3> QED
      BY <2>3, <2>4, <3>1, <3>2
<1>4. \A b \in Block : <<>> \o b = b
  BY DEF Block
<1>5. Torn \in Piece /\ \A b \in Block : b \in Piece /\ b # Torn
  BY TornNotBlock DEF Piece
<1> QED
  BY <1>1, <1>2, <1>3, <1>4, <1>5

----------------------------------------------------------------------------
LEMMA Concatenated ==
  ASSUME NEW a \in Block, NEW b \in Block
  PROVE  /\ a \o b \in Block
         /\ Range(a \o b) = Range(a) \union Range(b)
         /\ IsInjective(a \o b) <=>
              IsInjective(a) /\ IsInjective(b) /\ Range(a) \intersect Range(b) = {}
         /\ Increasing(a \o b) <=>
              /\ Increasing(a) /\ Increasing(b)
              /\ \A d \in Range(a), e \in Range(b) : d < e
<1> DEFINE c == a \o b
<1>1. /\ c \in Block /\ Len(c) = Len(a) + Len(b) /\ Len(a) \in Nat /\ Len(b) \in Nat
      /\ DOMAIN a = 1..Len(a) /\ DOMAIN b = 1..Len(b) /\ DOMAIN c = 1..Len(c)
  BY DEF Block
<1>2. /\ \A i \in 1..Len(a) : c[i] = a[i]
      /\ \A i \in 1..Len(b) : c[Len(a) + i] = b[i]
  BY DEF Block
<1>3. \A i \in 1..Len(c) : i \in 1..Len(a) \/ \E j \in 1..Len(b) : i = Len(a) + j
  <2> SUFFICES ASSUME NEW i \in 1..Len(c), i \notin 1..Len(a)
               PROVE  \E j \in 1..Len(b) : i = Len(a) + j
    OBVIOUS
  <2>1. i - Len(a) \in 1..Len(b) /\ i = Len(a) + (i - Len(a))
    BY <1>1
  <2> QED
    BY <2>1
<1>4. \A i \in 1..Len(a), j \in 1..Len(b) :
        i \in 1..Len(c) /\ Len(a) + j \in 1..Len(c) /\ i < Len(a) + j /\ i # Len(a) + j
  BY <1>1
<1>5. \A i, j \in 1..Len(b) : /\ Len(a) + i = Len(a) + j <=> i = j
                              /\ Len(a) + i < Len(a) + j <=> i < j
  BY <1>1
<1>6. \A i \in 1..Len(a), j \in 1..Len(b) : ~(Len(a) + j < i)
  BY <1>1
<1> HIDE DEF c
<1>7. Range(c) = Range(a) \union Range(b)
  <2>1. ASSUME NEW i \in 1..Len(c)
        PROVE  c[i] \in Range(a) \union Range(b)
    <3>1. CASE i \in 1..Len(a)
      BY <1>1, <1>2, <3>1 DEF Range
    <3>2. CASE \E j \in 1..Len(b) : i = Len(a) + j
      BY <1>1, <1>2, <3>2 DEF Range
    <3> QED
      BY <1>3, <3>1, <3>2
  <2>2. \A d \in Range(a) : d \in Range(c)
    <3>1. \A i \in 1..Len(a) : i \in 1..Len(c)
      BY <1>1
    <3> QED
      BY <1>1, <1>2, <3>1 DEF Range
  <2>3. \A d \in Range(b) : d \in Range(c)
    <3>1. \A i \in 1..Len(b) : Len(a) + i \in 1..Len(c)
      BY <1>1
    <3> QED
      BY <1>1, <1>2, <3>1 DEF Range
  <2> QED
    BY <1>1, <2>1, <2>2, <2>3 DEF Range
<1>8. IsInjective(c) <=>
        IsInjective(a) /\ IsInjective(b) /\ Range(a) \intersect Range(b) = {}
  <2>1. ASSUME IsInjective(c)
        PROVE  IsInjective(a) /\ IsInjective(b) /\ Range(a) \intersect Range(b) = {}
    <3>1. \A i, j \in 1..Len(c) : c[i] = c[j] => i = j
      BY <1>1, <2>1 DEF IsInjective
    <3>2. \A i, j \in 1..Len(a) : a[i] = a[j] => i = j
      BY <1>1, <1>2, <3>1
    <3>3. \A i, j \in 1..Len(b) : b[i] = b[j] => i = j
      <4> SUFFICES ASSUME NEW i \in 1..Len(b), NEW j \in 1..Len(b), b[i] = b[j] PROVE i = j
        OBVIOUS
      <4>1. Len(a) + i \in 1..Len(c) /\ Len(a) + j \in 1..Len(c)
        BY <1>1
      <4> QED
        BY <1>2, <1>5, <3>1, <4>1
    <3>4. \A i \in 1..Len(a), j \in 1..Len(b) : a[i] # b[j]
      BY <1>2, <1>4, <3>1
    <3> QED
      BY <1>1, <3>2, <3>3, <3>4 DEF IsInjective, Range
  <2>2. ASSUME IsInjective(a), IsInjective(b), Range(a) \intersect Range(b) = {}
        PROVE  IsInjective(c)
    <3>1. /\ \A i, j \in 1..Len(a) : a[i] = a[j] => i = j
          /\ \A i, j \in 1..Len(b) : b[i] = b[j] => i = j
      BY <1>1, <2>2 DEF IsInjective
    <3>2. \A i \in 1..Len(a), j \in 1..Len(b) : a[i] # b[j]
      BY <1>1, <2>2 DEF Range
    <3> SUFFICES ASSUME NEW i \in 1..Len(c), NEW j \in 1..Len(c), c[i] = c[j] PROVE i = j
      BY <1>1 DEF IsInjective
    <3>3. CASE i \in 1..Len(a) /\ j \in 1..Len(a)
      BY <1>2, <3>1, <3>3
    <3>4. CASE i \in 1..Len(a) /\ \E k \in 1..Len(b) : j = Len(a) + k
      BY <1>2, <3>2, <3>4
    <3>5. CASE j \in 1..Len(a) /\ \E k \in 1..Len(b) : i = Len(a) + k
      BY <1>2, <3>2, <3>5
    <3>6. CASE (\E k \in 1..Len(b) : i = Len(a) + k) /\ (\E l \in 1..Len(b) : j = Len(a) + l)
      BY <1>2, <3>1, <3>6
    <3> QED
      BY <1>3, <3>3, <3>4, <3>5, <3>6
  <2> QED
    BY <2>1, <2>2
<1>9. Increasing(c) <=>
        /\ Increasing(a) /\ Increasing(b)
        /\ \A d \in Range(a), e \in Range(b) : d < e
  <2>1. ASSUME Increasing(c)
        PROVE  /\ Increasing(a) /\ Increasing(b)
               /\ \A d \in Range(a), e \in Range(b) : d < e
    <3>1. \A i, j \in 1..Len(c) : i < j => c[i] < c[j]
      BY <1>1, <2>1 DEF Increasing
    <3>2. \A i, j \in 1..Len(a) : i < j => a[i] < a[j]
      BY <1>1, <1>2, <3>1
    <3>3. \A i, j \in 1..Len(b) : i < j => b[i] < b[j]
      <4> SUFFICES ASSUME NEW i \in 1..Len(b), NEW j \in 1..Len(b), i < j PROVE b[i] < b[j]
        OBVIOUS
      <4>1. Len(a) + i \in 1..Len(c) /\ Len(a) + j \in 1..Len(c) /\ Len(a) + i < Len(a) + j
        BY <1>1
      <4> QED
        BY <1>2, <3>1, <4>1
    <3>4. \A i \in 1..Len(a), j \in 1..Len(b) : a[i] < b[j]
      BY <1>2, <1>4, <3>1
    <3> QED
      BY <1>1, <3>2, <3>3, <3>4 DEF Increasing, Range
  <2>2. ASSUME Increasing(a), Increasing(b), \A d \in Range(a), e \in Range(b) : d < e
        PROVE  Increasing(c)
    <3>1. /\ \A i, j \in 1..Len(a) : i < j => a[i] < a[j]
          /\ \A i, j \in 1..Len(b) : i < j => b[i] < b[j]
      BY <1>1, <2>2 DEF Increasing
    <3>2. \A i \in 1..Len(a), j \in 1..Len(b) : a[i] < b[j]
      BY <1>1, <2>2 DEF Range
    <3> SUFFICES ASSUME NEW i \in 1..Len(c), NEW j \in 1..Len(c), i < j PROVE c[i] < c[j]
      BY <1>1 DEF Increasing
    <3>3. CASE i \in 1..Len(a) /\ j \in 1..Len(a)
      BY <1>2, <3>1, <3>3
    <3>4. CASE i \in 1..Len(a) /\ \E k \in 1..Len(b) : j = Len(a) + k
      BY <1>2, <3>2, <3>4
    <3>5. CASE j \in 1..Len(a) /\ \E k \in 1..Len(b) : i = Len(a) + k
      BY <1>6, <3>5
    <3>6. CASE (\E k \in 1..Len(b) : i = Len(a) + k) /\ (\E l \in 1..Len(b) : j = Len(a) + l)
      <4>1. PICK k \in 1..Len(b), l \in 1..Len(b) : i = Len(a) + k /\ j = Len(a) + l
        BY <3>6
      <4> QED
        BY <1>2, <1>5, <3>1, <4>1
    <3> QED
      BY <1>3, <3>3, <3>4, <3>5, <3>6
  <2> QED
    BY <2>1, <2>2
<1> QED
  BY <1>1, <1>7, <1>8, <1>9 DEF c

LEMMA OneOrNone ==
  /\ <<>> \in Block /\ Range(<<>>) = {} /\ IsInjective(<<>>) /\ Increasing(<<>>)
  /\ \A s \in Block : s \o <<>> = s /\ <<>> \o s = s
  /\ \A d \in Draw : /\ <<d>> \in Block /\ Range(<<d>>) = {d}
                     /\ IsInjective(<<d>>) /\ Increasing(<<d>>)
<1>1. <<>> \in Block /\ DOMAIN <<>> = {} /\ \A s \in Block : s \o <<>> = s /\ <<>> \o s = s
  BY DEF Block
<1>2. ASSUME NEW d \in Draw
      PROVE  <<d>> \in Block /\ DOMAIN <<d>> = {1} /\ <<d>>[1] = d
  BY DEF Block
<1> QED
  BY <1>1, <1>2 DEF Range, IsInjective, Increasing

----------------------------------------------------------------------------

(***************************************************************************)
(* The draws that a paper still has to write, in the order in which it     *)
(* will.                                                                   *)
(***************************************************************************)
Held == [p \in Papers |-> DrawsIn(buffer[p]) \o storage[p]]

Living == {p \in Papers : Alive(p)}

\* Only the paper that shared_sessions has is alive; it is the only one with
\* something in its buffer, but for those that are not closed yet.
Writers ==
  /\ current \in 1..opened \union {NoPaper}
  /\ Living \subseteq {current}
  /\ \A p \in closing : p \notin Living /\ p <= opened
  /\ \A p \in Papers : buffer[p] # <<>> => p \in Living \union closing
  /\ \A p \in Papers : storage[p] # <<>> => p <= opened
  /\ ~overlapped => closing \subseteq {current}

\* Of n draws none is in two places: those of a file, or those held by papers.
OnceIn(stored, held, n) ==
  /\ \A d \in Range(stored) : d <= n
  /\ IsInjective(stored)
  /\ \A p \in Papers :
       /\ \A d \in Range(held[p]) : d <= n
       /\ IsInjective(held[p])
       /\ Range(held[p]) \intersect Range(stored) = {}
       /\ \A q \in Papers : p # q => Range(held[p]) \intersect Range(held[q]) = {}

\* What is stored, and what p will store after it.
OrderIn(stored, held, p) ==
  /\ Increasing(stored)
  /\ p # NoPaper => Increasing(stored \o held[p])

Once == OnceIn(DrawsIn(file), Held, draws)

InOrder == ~overlapped => OrderIn(DrawsIn(file), Held, current)

\* A client has what the file has before its offset.
Got ==
  ~wrapped =>
    \A c \in Clients :
      streaming[c] => received[c] = DrawsIn(SubSeq(file, 1, streaming_offset[c]))

StoreInv == Inv /\ Writers /\ Once /\ InOrder /\ Got

Kept == DrawsIn(file) \in Block /\ Held \in [Papers -> Block]

LEMMA KeptTypes == TypeOK => Kept
<1> SUFFICES ASSUME TypeOK PROVE Kept
  OBVIOUS
<1>1. file \in Seq(Piece)
  BY DEF TypeOK, Piece
<1>2. ASSUME NEW p \in Papers
      PROVE  DrawsIn(buffer[p]) \o storage[p] \in Block
  <2>1. buffer[p] \in Seq(Piece) /\ storage[p] \in Block
    BY DEF TypeOK, Piece, Block
  <2> QED
    BY <2>1, DrawsOfOne, Concatenated
<1> QED
  BY <1>1, <1>2, DrawsOfOne DEF Held, Kept

(***************************************************************************)
(* A paper writes some of what it holds, x.                                *)
(***************************************************************************)
Moved(stored, held, stored1, held1, p, x) ==
  /\ stored1 = stored \o x
  /\ held[p] = x \o held1[p]
  /\ \A q \in Papers \ {p} : held1[q] = held[q]

LEMMA MovedOnce ==
  ASSUME NEW stored \in Block, NEW held \in [Papers -> Block], NEW n,
         NEW stored1 \in Block, NEW held1 \in [Papers -> Block],
         NEW p \in Papers, NEW x \in Block, Moved(stored, held, stored1, held1, p, x),
         OnceIn(stored, held, n)
  PROVE  OnceIn(stored1, held1, n)
<1>1. held[p] \in Block /\ held1[p] \in Block
  OBVIOUS
<1>2. /\ Range(stored1) = Range(stored) \union Range(x)
      /\ Range(held[p]) = Range(x) \union Range(held1[p])
  BY <1>1, Concatenated DEF Moved
<1>3. IsInjective(x) /\ IsInjective(held1[p]) /\ Range(x) \intersect Range(held1[p]) = {}
  <2>1. IsInjective(held[p]) /\ held[p] = x \o held1[p]
    BY DEF Moved, OnceIn
  <2> QED
    BY <1>1, <2>1, Concatenated
<1>4. Range(stored) \intersect Range(x) = {}
  BY <1>2 DEF OnceIn
<1>5. IsInjective(stored1)
  BY <1>3, <1>4, Concatenated DEF Moved, OnceIn
<1>6. \A q \in Papers : Range(held1[q]) \subseteq Range(held[q]) /\ IsInjective(held1[q])
  BY <1>2, <1>3 DEF Moved, OnceIn
<1>7. \A q \in Papers : Range(held1[q]) \intersect Range(x) = {}
  BY <1>2, <1>3 DEF Moved, OnceIn
<1>8. \A q, r \in Papers : q # r => Range(held1[q]) \intersect Range(held1[r]) = {}
  BY <1>6 DEF OnceIn
<1>9. \A d \in Range(stored1) : d <= n
  BY <1>2 DEF OnceIn
<1>10. \A q \in Papers : /\ \A d \in Range(held1[q]) : d <= n
                         /\ Range(held1[q]) \intersect Range(stored1) = {}
  BY <1>2, <1>6, <1>7 DEF OnceIn
<1> QED
  BY <1>5, <1>6, <1>8, <1>9, <1>10 DEF OnceIn

LEMMA MovedInOrder ==
  ASSUME NEW stored \in Block, NEW held \in [Papers -> Block],
         NEW stored1 \in Block, NEW held1 \in [Papers -> Block],
         NEW p \in Papers, NEW x \in Block, Moved(stored, held, stored1, held1, p, x),
         OrderIn(stored, held, p)
  PROVE  OrderIn(stored1, held1, p)
<1>1. held[p] \in Block /\ held1[p] \in Block /\ p # NoPaper
  BY NoPaperAssumption DEF Papers
<1>2. (stored \o x) \o held1[p] = stored \o (x \o held1[p])
  BY <1>1, ConcatAssociative DEF Block
<1>3. Increasing(stored1 \o held1[p])
  BY <1>1, <1>2 DEF OrderIn, Moved
<1> QED
  BY <1>1, <1>3, Concatenated DEF OrderIn

(***************************************************************************)
(* The end of the file is lost, or what papers hold.                       *)
(***************************************************************************)
Lost(stored, held, stored1, held1) ==
  /\ \E x \in Block : stored = stored1 \o x
  /\ \A p \in Papers : \E x \in Block : held[p] = held1[p] \o x

LEMMA LostOnce ==
  ASSUME NEW stored \in Block, NEW held \in [Papers -> Block], NEW n,
         NEW stored1 \in Block, NEW held1 \in [Papers -> Block],
         Lost(stored, held, stored1, held1), OnceIn(stored, held, n)
  PROVE  OnceIn(stored1, held1, n)
<1>1. Range(stored1) \subseteq Range(stored) /\ IsInjective(stored1)
  <2>1. PICK x \in Block : stored = stored1 \o x
    BY DEF Lost
  <2> QED
    BY <2>1, Concatenated DEF OnceIn
<1>2. ASSUME NEW p \in Papers
      PROVE  Range(held1[p]) \subseteq Range(held[p]) /\ IsInjective(held1[p])
  <2>1. PICK x \in Block : held[p] = held1[p] \o x
    BY DEF Lost
  <2>2. held1[p] \in Block /\ IsInjective(held[p])
    BY DEF OnceIn
  <2> QED
    BY <2>1, <2>2, Concatenated
<1> QED
  BY <1>1, <1>2 DEF OnceIn

LEMMA LostInOrder ==
  ASSUME NEW stored \in Block, NEW held \in [Papers -> Block],
         NEW stored1 \in Block, NEW held1 \in [Papers -> Block],
         NEW p \in Papers \union {NoPaper},
         Lost(stored, held, stored1, held1), OrderIn(stored, held, p)
  PROVE  OrderIn(stored1, held1, p) /\ OrderIn(stored1, held1, NoPaper)
<1>1. PICK x \in Block : stored = stored1 \o x
  BY DEF Lost
<1>2. Increasing(stored1) /\ Range(stored1) \subseteq Range(stored)
  BY <1>1, Concatenated DEF OrderIn
<1>3. ASSUME p # NoPaper
      PROVE  Increasing(stored1 \o held1[p])
  <2>1. PICK y \in Block : held[p] = held1[p] \o y
    BY <1>3 DEF Lost
  <2>2. held[p] \in Block /\ held1[p] \in Block
    BY <1>3
  <2>3. Increasing(stored \o held[p])
    BY <1>3 DEF OrderIn
  <2>4. Increasing(held[p]) /\ \A d \in Range(stored), e \in Range(held[p]) : d < e
    BY <2>2, <2>3, Concatenated
  <2>5. Increasing(held1[p]) /\ Range(held1[p]) \subseteq Range(held[p])
    BY <2>1, <2>2, <2>4, Concatenated
  <2> QED
    BY <1>2, <2>2, <2>4, <2>5, Concatenated
<1> QED
  BY <1>2, <1>3 DEF OrderIn

\* A paper gets a draw that comes after all that there were.
LEMMA DrawnOnce ==
  ASSUME NEW stored \in Block, NEW held \in [Papers -> Block], NEW n \in Nat, n + 1 \in Draw,
         NEW held1 \in [Papers -> Block], NEW p \in Papers, held1[p] = held[p] \o <<n + 1>>,
         \A q \in Papers \ {p} : held1[q] = held[q],
         OnceIn(stored, held, n)
  PROVE  /\ OnceIn(stored, held1, n + 1)
         /\ OrderIn(stored, held, p) => OrderIn(stored, held1, p)
<1>1. held[p] \in Block /\ held1[p] \in Block
  OBVIOUS
<1>2. /\ <<n + 1>> \in Block /\ Range(<<n + 1>>) = {n + 1}
      /\ IsInjective(<<n + 1>>) /\ Increasing(<<n + 1>>)
  BY OneOrNone
<1>3. /\ Range(stored) \subseteq Nat
      /\ \A q \in Papers : Range(held[q]) \subseteq Nat
  <2>1. ASSUME NEW s \in Block PROVE Range(s) \subseteq Nat
    <3>1. DOMAIN s = 1..Len(s) /\ \A i \in 1..Len(s) : s[i] \in Draw
      BY DEF Block
    <3>2. Draw \subseteq Nat
      BY DEF Draw
    <3> QED
      BY <3>1, <3>2 DEF Range
  <2> QED
    BY <2>1
<1>4. /\ n + 1 \notin Range(stored) /\ \A d \in Range(stored) : d < n + 1
      /\ \A q \in Papers : n + 1 \notin Range(held[q]) /\ \A d \in Range(held[q]) : d < n + 1
  BY <1>3 DEF OnceIn
<1>5. Range(held1[p]) = Range(held[p]) \union {n + 1}
  BY <1>1, <1>2, Concatenated
<1>6. IsInjective(held1[p])
  BY <1>1, <1>2, <1>4, Concatenated DEF OnceIn
<1>7. OnceIn(stored, held1, n + 1)
  <2>1. \A d \in Range(stored) : d <= n + 1
    BY <1>3, <1>4
  <2>2. ASSUME NEW q \in Papers
        PROVE  /\ \A d \in Range(held1[q]) : d <= n + 1
               /\ IsInjective(held1[q])
               /\ Range(held1[q]) \intersect Range(stored) = {}
    <3>1. CASE q = p
      <4>1. \A d \in Range(held[p]) : d <= n + 1
        BY <1>3, <1>4
      <4>2. Range(held[p]) \intersect Range(stored) = {}
        BY DEF OnceIn
      <4>3. \A d \in Range(held[p]) \union {n + 1} : d <= n + 1
        BY <4>1
      <4>4. (Range(held[p]) \union {n + 1}) \intersect Range(stored) = {}
        BY <1>4, <4>2
      <4> QED
        BY <1>5, <1>6, <3>1, <4>3, <4>4
    <3>2. CASE q # p
      BY <1>3, <1>4, <3>2 DEF OnceIn
    <3> QED
      BY <3>1, <3>2
  <2>3. ASSUME NEW q \in Papers, NEW r \in Papers, q # r
        PROVE  Range(held1[q]) \intersect Range(held1[r]) = {}
    <3>1. Range(held[q]) \intersect Range(held[r]) = {}
      BY <2>3 DEF OnceIn
    <3>2. Range(held1[q]) \subseteq Range(held[q]) \/ q = p
      OBVIOUS
    <3>3. Range(held1[r]) \subseteq Range(held[r]) \/ r = p
      OBVIOUS
    <3> QED
      BY <1>4, <1>5, <2>3, <3>1, <3>2, <3>3
  <2> QED
    BY <2>1, <2>2, <2>3 DEF OnceIn
<1>8. ASSUME OrderIn(stored, held, p)
      PROVE  OrderIn(stored, held1, p)
  <2>1. p # NoPaper
    BY NoPaperAssumption DEF Papers
  <2>2. Increasing(held[p]) /\ \A d \in Range(stored), e \in Range(held[p]) : d < e
    BY <1>1, <1>8, <2>1, Concatenated DEF OrderIn
  <2>3. Increasing(held1[p])
    BY <1>1, <1>2, <1>4, <2>2, Concatenated
  <2>4. \A d \in Range(stored), e \in Range(held1[p]) : d < e
    BY <1>4, <1>5, <2>2
  <2>5. Increasing(stored \o held1[p])
    BY <1>1, <1>8, <2>3, <2>4, Concatenated DEF OrderIn
  <2> QED
    BY <1>8, <2>5 DEF OrderIn
<1> QED
  BY <1>7, <1>8

----------------------------------------------------------------------------
MovedBy(p) ==
  \E x \in Block : Moved(DrawsIn(file), Held, DrawsIn(file'), Held', p, x)

LEMMA HeldBy ==
  \A p \in Papers : Held[p] = DrawsIn(buffer[p]) \o storage[p]
BY DEF Held

LEMMA HeldNext ==
  \A p \in Papers : Held'[p] = DrawsIn(buffer'[p]) \o storage'[p]
BY DEF Held

LEMMA SoughtMoved ==
  ASSUME TypeOK, NEW p \in Papers, SeekEnd(p), UNCHANGED storage
  PROVE  MovedBy(p)
<1>1. file \in Seq(Piece) /\ buffer[p] \in Seq(Piece) /\ storage[p] \in Block
  BY DEF TypeOK, Piece, Block
<1>2. DrawsIn(file') = DrawsIn(file) \o DrawsIn(buffer[p]) /\ DrawsIn(buffer[p]) \in Block
  BY <1>1, DrawsOfBoth, DrawsOfOne DEF SeekEnd, Written
<1>3. buffer'[p] = <<>> /\ \A q \in Papers \ {p} : buffer'[q] = buffer[q]
  BY DEF SeekEnd, TypeOK
<1>4. Held'[p] = storage[p]
  BY <1>1, <1>3, HeldNext, DrawsOfOne, OneOrNone
<1>5. Held[p] = DrawsIn(buffer[p]) \o Held'[p]
  BY <1>4, HeldBy
<1>6. \A q \in Papers \ {p} : Held'[q] = Held[q]
  BY <1>3, HeldBy, HeldNext
<1> QED
  BY <1>2, <1>5, <1>6 DEF Moved, MovedBy

LEMMA StoredMoved ==
  ASSUME TypeOK, NEW p \in Papers, Store(p)
  PROVE  MovedBy(p)
<1>1. file \in Seq(Piece) /\ buffer[p] \in Seq(Piece) /\ storage[p] \in Block
  BY DEF TypeOK, Piece, Block
<1>2. DrawsIn(file) \in Block /\ DrawsIn(buffer[p]) \in Block
  BY <1>1, DrawsOfOne
<1>3. storage'[p] = <<>> /\ \A q \in Papers \ {p} : storage'[q] = storage[q]
  BY DEF Store, TypeOK
<1>4. \A q \in Papers \ {p} : buffer'[q] = buffer[q]
  BY DEF Store, TypeOK
<1>5. \A q \in Papers \ {p} : Held'[q] = Held[q]
  BY <1>3, <1>4, HeldBy, HeldNext
<1>6. CASE Written(buffer[p]) /\ buffer' = [buffer EXCEPT ![p] = <<storage[p]>>]
  <2>1. DrawsIn(file') = DrawsIn(file) \o DrawsIn(buffer[p])
    BY <1>1, <1>6, DrawsOfBoth DEF Written
  <2>2. buffer'[p] = <<storage[p]>>
    BY <1>6 DEF TypeOK
  <2>3. Held'[p] = storage[p]
    BY <1>1, <1>3, <2>2, HeldNext, DrawsOfOne, OneOrNone
  <2>4. Held[p] = DrawsIn(buffer[p]) \o Held'[p]
    BY <2>3, HeldBy
  <2> QED
    BY <1>2, <1>5, <2>1, <2>4 DEF Moved, MovedBy
<1>7. CASE Written(Append(buffer[p], storage[p])) /\ buffer' = [buffer EXCEPT ![p] = <<>>]
  <2>1. /\ storage[p] \in Piece /\ <<storage[p]>> \in Seq(Piece)
        /\ Append(buffer[p], storage[p]) = buffer[p] \o <<storage[p]>>
        /\ Append(buffer[p], storage[p]) \in Seq(Piece)
    <3>1. storage[p] \in Piece
      BY <1>1 DEF Piece
    <3> QED
      BY <1>1, <3>1, AppendIsConcat
  <2>2. DrawsIn(Append(buffer[p], storage[p])) = DrawsIn(buffer[p]) \o storage[p]
    BY <1>1, <2>1, DrawsOfBoth, DrawsOfOne
  <2>3. DrawsIn(file') = DrawsIn(file) \o Held[p]
    BY <1>1, <1>7, <2>1, <2>2, DrawsOfBoth, HeldBy DEF Written
  <2>4. buffer'[p] = <<>>
    BY <1>7 DEF TypeOK
  <2>5. Held'[p] = <<>>
    BY <1>3, <2>4, HeldNext, DrawsOfOne, OneOrNone
  <2>6. Held[p] \in Block /\ Held[p] = Held[p] \o Held'[p]
    <3>1. Held[p] \in Block
      <4>1. DrawsIn(buffer[p]) \o storage[p] \in Block
        BY <1>1, <1>2, Concatenated
      <4> QED
        BY <4>1, HeldBy
    <3> QED
      BY <2>5, <3>1, OneOrNone
  <2> QED
    BY <1>5, <2>3, <2>6 DEF Moved, MovedBy
<1> QED
  BY <1>6, <1>7 DEF Store

\* What the file and the papers have stays once and in order when one that
\* may write does.
LEMMA MovedKept ==
  ASSUME StoreInv, TypeOK', NEW p \in Papers, MovedBy(p),
         UNCHANGED <<draws, current, overlapped>>, ~overlapped => p = current
  PROVE  Once' /\ InOrder'
<1>1. Kept /\ Kept'
  <2>1. TypeOK' => Kept'
    BY KeptTypes, PTL
  <2> QED
    BY <2>1, KeptTypes DEF StoreInv, Inv
<1>2. PICK x \in Block : Moved(DrawsIn(file), Held, DrawsIn(file'), Held', p, x)
  BY DEF MovedBy
<1>3. OnceIn(DrawsIn(file'), Held', draws)
  BY <1>1, <1>2, MovedOnce DEF Kept, StoreInv, Once
<1>4. ~overlapped => OrderIn(DrawsIn(file'), Held', p)
  BY <1>1, <1>2, MovedInOrder DEF Kept, StoreInv, InOrder
<1> QED
  BY <1>3, <1>4 DEF Once, InOrder

LEMMA LostKept ==
  ASSUME StoreInv, TypeOK', Lost(DrawsIn(file), Held, DrawsIn(file'), Held'),
         current' \in {current, NoPaper}, UNCHANGED <<draws, overlapped>>
  PROVE  Once' /\ InOrder'
<1>1. Kept /\ Kept'
  <2>1. TypeOK' => Kept'
    BY KeptTypes, PTL
  <2> QED
    BY <2>1, KeptTypes DEF StoreInv, Inv
<1>2. OnceIn(DrawsIn(file'), Held', draws)
  BY <1>1, LostOnce DEF Kept, StoreInv, Once
<1>3. current \in Papers \union {NoPaper}
  BY DEF StoreInv, Inv, TypeOK
<1>4. ~overlapped => OrderIn(DrawsIn(file'), Held', current) /\ OrderIn(DrawsIn(file'), Held', NoPaper)
  BY <1>1, <1>3, LostInOrder DEF Kept, StoreInv, InOrder
<1> QED
  BY <1>2, <1>4 DEF Once, InOrder

LEMMA UnchangedKept ==
  ASSUME StoreInv, UNCHANGED <<file, buffer, storage, draws, current, overlapped>>
  PROVE  Once' /\ InOrder'
BY DEF StoreInv, Once, InOrder, Held

LEMMA SamePrefix ==
  ASSUME NEW f \in Seq(Piece), NEW g \in Seq(Piece), NEW o \in Nat,
         o <= Len(f), o <= Len(g), \A i \in 1..Len(f) : g[i] = f[i]
  PROVE  SubSeq(g, 1, o) = SubSeq(f, 1, o)
<1> DEFINE a == SubSeq(g, 1, o)
           b == SubSeq(f, 1, o)
<1>1. /\ a \in Seq(Piece) /\ b \in Seq(Piece) /\ Len(a) = o /\ Len(b) = o
      /\ \A i \in 1..o : a[i] = g[i] /\ b[i] = f[i]
  OBVIOUS
<1>2. \A i \in 1..o : g[i] = f[i]
  OBVIOUS
<1> HIDE DEF a, b
<1>3. a = b
  BY <1>1, <1>2, SeqEqual
<1> QED
  BY <1>3 DEF a, b

LEMMA OneLonger ==
  ASSUME NEW f \in Seq(Piece), NEW o \in Nat, o + 1 <= Len(f)
  PROVE  SubSeq(f, 1, o + 1) = SubSeq(f, 1, o) \o <<f[o + 1]>>
<1> DEFINE a == SubSeq(f, 1, o + 1)
           b == SubSeq(f, 1, o)
           x == f[o + 1]
<1>1. /\ a \in Seq(Piece) /\ b \in Seq(Piece) /\ Len(a) = o + 1 /\ Len(b) = o
      /\ \A i \in 1..o + 1 : a[i] = f[i]
      /\ \A i \in 1..o : b[i] = f[i]
      /\ x \in Piece
  OBVIOUS
<1> HIDE DEF a, b
<1>2. /\ b \o <<x>> \in Seq(Piece) /\ Len(b \o <<x>>) = o + 1
      /\ \A i \in 1..o : (b \o <<x>>)[i] = f[i]
      /\ (b \o <<x>>)[o + 1] = x
  BY <1>1
<1>3. \A i \in 1..o + 1 : (b \o <<x>>)[i] = a[i]
  <2>1. \A i \in 1..o + 1 : i \in 1..o \/ i = o + 1
    OBVIOUS
  <2> QED
    BY <1>1, <1>2, <2>1
<1> DEFINE c == b \o <<x>>
<1>4. c \in Seq(Piece) /\ Len(c) = Len(a) /\ \A i \in 1..Len(a) : a[i] = c[i]
  BY <1>1, <1>2, <1>3
<1> HIDE DEF c
<1>5. a = c
  BY <1>1, <1>4, SeqEqual
<1> QED
  BY <1>5 DEF a, b, c

LEMMA TwoParts ==
  ASSUME NEW f \in Seq(Piece), NEW n \in Nat, n <= Len(f)
  PROVE  /\ SubSeq(f, 1, n) \in Seq(Piece) /\ SubSeq(f, n + 1, Len(f)) \in Seq(Piece)
         /\ f = SubSeq(f, 1, n) \o SubSeq(f, n + 1, Len(f))
<1> DEFINE a == SubSeq(f, 1, n)
           b == SubSeq(f, n + 1, Len(f))
<1>1. /\ a \in Seq(Piece) /\ Len(a) = n /\ \A i \in 1..n : a[i] = f[i]
  OBVIOUS
<1>2. /\ b \in Seq(Piece) /\ Len(b) = Len(f) - n
      /\ \A i \in 1..Len(f) - n : b[i] = f[n + i]
  OBVIOUS
<1> HIDE DEF a, b
<1>3. /\ a \o b \in Seq(Piece) /\ Len(a \o b) = Len(f)
      /\ \A i \in 1..Len(f) : (a \o b)[i] = IF i <= n THEN a[i] ELSE b[i - n]
  BY <1>1, <1>2
<1>4. \A i \in 1..Len(f) : (a \o b)[i] = f[i]
  <2>1. \A i \in 1..Len(f) : i <= n \/ (i - n \in 1..Len(f) - n /\ n + (i - n) = i)
    OBVIOUS
  <2> QED
    BY <1>1, <1>2, <1>3, <2>1
<1> DEFINE c == a \o b
<1>5. c \in Seq(Piece) /\ Len(c) = Len(f) /\ \A i \in 1..Len(f) : f[i] = c[i]
  BY <1>3, <1>4
<1> HIDE DEF c
<1>6. f = c
  BY <1>5, SeqEqual
<1> QED
  BY <1>1, <1>2, <1>6 DEF a, b, c

LEMMA WholeSeq ==
  ASSUME NEW f \in Seq(Piece)
  PROVE  SubSeq(f, 1, Len(f)) = f
<1> DEFINE a == SubSeq(f, 1, Len(f))
<1>1. a \in Seq(Piece) /\ Len(a) = Len(f) /\ \A i \in 1..Len(f) : a[i] = f[i]
  OBVIOUS
<1> HIDE DEF a
<1>2. a = f
  BY <1>1, SeqEqual
<1> QED
  BY <1>2 DEF a

(***************************************************************************)
(* A client that was at the stream of its paper has what it had before.    *)
(***************************************************************************)
LEMMA GotKept ==
  ASSUME StoreInv, Grown,
         \A c \in Clients :
           streaming'[c] =>
             \/ /\ streaming[c] /\ streaming_offset'[c] = streaming_offset[c]
                /\ received'[c] = received[c]
             \/ ~wrapped' => received'[c] = DrawsIn(SubSeq(file', 1, streaming_offset'[c]))
  PROVE  Got'
<1> SUFFICES ASSUME ~wrapped', NEW c \in Clients, streaming'[c], streaming[c],
                    streaming_offset'[c] = streaming_offset[c], received'[c] = received[c]
             PROVE  received'[c] = DrawsIn(SubSeq(file', 1, streaming_offset'[c]))
  BY DEF Got
<1>1. ~wrapped
  BY DEF Grown
<1>2. /\ received[c] = DrawsIn(SubSeq(file, 1, streaming_offset[c]))
      /\ streaming_offset[c] <= Len(file)
  BY <1>1 DEF StoreInv, Got, Inv, Readable, NoneTorn
<1>3. /\ file \in Seq(Piece) /\ file' \in Seq(Piece)
      /\ streaming_offset[c] \in Nat /\ Len(file) \in Nat
      /\ \A i \in 1..Len(file) : file'[i] = file[i]
      /\ Len(file') \in Nat /\ Len(file') >= Len(file)
  BY WidthAssumption DEF StoreInv, Inv, TypeOK, Grown, Piece
<1>4. SubSeq(file', 1, streaming_offset[c]) = SubSeq(file, 1, streaming_offset[c])
  BY <1>2, <1>3, SamePrefix
<1> QED
  BY <1>2, <1>4

----------------------------------------------------------------------------
\* Writers says what it says of the papers also when only what they have
\* changes, or the clients at the stream.
LEMMA WritersKept ==
  ASSUME StoreInv, UNCHANGED <<opened, current, closing, overlapped, snapshot, shared_session>>,
         \A p \in Papers : /\ buffer'[p] # <<>> => buffer[p] # <<>> \/ p \in Living
                           /\ storage'[p] # <<>> => storage[p] # <<>>
  PROVE  Writers'
<1>1. Living' = Living
  BY DEF Living, Alive
<1> QED
  BY <1>1 DEF StoreInv, Writers

LEMMA SharedIsCurrent ==
  ASSUME StoreInv, NEW c \in Clients, shared_session[c] # NoPaper
  PROVE  /\ shared_session[c] = current /\ shared_session[c] \in Papers
         /\ shared_session[c] \in Living
<1>1. shared_session[c] \in Papers
  BY DEF StoreInv, Inv, TypeOK
<1>2. shared_session[c] \in Living
  BY <1>1 DEF Living, Alive
<1> QED
  BY <1>1, <1>2 DEF StoreInv, Writers

LEMMA StoreGet ==
  ASSUME StoreInv, Inv', NEW c \in Clients, Get(c)
  PROVE  StoreInv'
<1>1. TypeOK /\ Writers /\ Kept
  BY KeptTypes DEF StoreInv, Inv
<1>2. PICK p \in Papers :
        /\ Joined(c, p) /\ current' = p
        /\ \/ p \in Living /\ p = current /\ UNCHANGED <<opened, overlapped>>
           \/ Living = {} /\ p = opened + 1 /\ Create(p)
  <2>1. CASE Alive(current) /\ Joined(c, current) /\ UNCHANGED <<opened, current, overlapped>>
    <3>1. current \in Living
      BY <1>1, <2>1 DEF Alive, Living, TypeOK
    <3> QED
      BY <2>1, <3>1 DEF Living
  <2>2. CASE /\ ~Alive(current) /\ opened < MaxPapers /\ Create(opened + 1)
             /\ Joined(c, opened + 1)
    <3>1. opened + 1 \in Papers
      BY <1>1, <2>2, BoundsAssumption DEF TypeOK, Papers
    <3>2. Living = {}
      BY <1>1, <2>2 DEF Writers, Living
    <3> QED
      BY <2>2, <3>1, <3>2 DEF Create
  <2> QED
    BY <2>1, <2>2 DEF Get
<1>3. p # NoPaper /\ p \in Nat /\ opened \in Nat
  BY <1>1, NoPaperAssumption DEF Papers, TypeOK
<1>4. Held' = Held /\ file' = file /\ draws' = draws
  BY <1>2 DEF Joined, Held
<1>5. Living' = Living \union {p}
  <2>1. shared_session[c] = NoPaper /\ snapshot' = snapshot
    BY <1>2 DEF Get, Joined, ioVars
  <2>2. shared_session' = [shared_session EXCEPT ![c] = p]
    BY <1>2 DEF Joined
  <2>3. \A d \in Clients \ {c} : shared_session'[d] = shared_session[d]
    BY <1>1, <2>2 DEF TypeOK
  <2>4. shared_session'[c] = p
    BY <1>1, <2>2 DEF TypeOK
  <2> QED
    BY <1>3, <2>1, <2>3, <2>4, NoPaperAssumption DEF Living, Alive, Papers
<1>6. Once'
  BY <1>4 DEF StoreInv, Once
<1>7. ASSUME p \in Living, p = current, UNCHANGED <<opened, overlapped>>
      PROVE  Writers' /\ InOrder'
  <2>1. Living' = Living
    BY <1>5, <1>7
  <2>2. Writers'
    BY <1>1, <1>2, <1>7, <2>1 DEF Writers, Joined
  <2>3. InOrder'
    BY <1>2, <1>4, <1>7 DEF StoreInv, InOrder
  <2> QED
    BY <2>2, <2>3
<1>8. ASSUME Living = {}, p = opened + 1, Create(p)
      PROVE  Writers' /\ InOrder'
  <2>1. opened' = opened + 1 /\ overlapped' = (overlapped \/ closing # {})
    BY <1>8 DEF Create
  <2>2. Living' = {p}
    BY <1>5, <1>8
  <2>3. \A q \in closing : q <= opened /\ q \in Papers
    BY <1>1 DEF Writers, TypeOK
  <2>4. Writers'
    <3>1. current' \in 1..opened' \union {NoPaper}
      BY <1>2, <1>3, <1>8, <2>1
    <3>2. Living' \subseteq {current'}
      BY <1>2, <2>2
    <3>3. closing' = closing /\ UNCHANGED <<buffer, storage>>
      BY <1>2 DEF Joined
    <3>4. \A q \in closing' : q \notin Living' /\ q <= opened'
      BY <1>3, <1>8, <2>1, <2>2, <2>3, <3>3 DEF Papers
    <3>5. \A q \in Papers : buffer'[q] # <<>> => q \in Living' \union closing'
      BY <1>1, <1>5, <3>3 DEF Writers
    <3>6. \A q \in Papers : storage'[q] # <<>> => q <= opened'
      BY <1>1, <1>3, <2>1, <3>3 DEF Writers, Papers
    <3>7. ~overlapped' => closing' \subseteq {current'}
      BY <1>1, <2>1, <3>3 DEF TypeOK
    <3> QED
      BY <3>1, <3>2, <3>4, <3>5, <3>6, <3>7 DEF Writers
  <2>5. buffer[p] = <<>> /\ storage[p] = <<>>
    <3>1. p \notin closing /\ ~(p <= opened)
      BY <1>3, <1>8, <2>3
    <3> QED
      BY <1>1, <1>8, <3>1 DEF Writers
  <2>6. Held[p] = <<>>
    BY <2>5, HeldBy, DrawsOfOne, OneOrNone
  <2>7. DrawsIn(file) \o Held[p] = DrawsIn(file)
    BY <1>1, <2>6, OneOrNone DEF Kept
  <2>8. InOrder'
    BY <1>1, <1>2, <1>4, <2>1, <2>7 DEF StoreInv, InOrder, OrderIn, TypeOK
  <2> QED
    BY <2>4, <2>8
<1>9. Writers' /\ InOrder'
  BY <1>2, <1>7, <1>8
<1>10. Got'
  <2>1. Grown
    BY <1>2, Unwritten DEF Joined, StoreInv
  <2>2. \A d \in Clients \ {c} : /\ streaming'[d] = streaming[d] /\ received'[d] = received[d]
                                 /\ streaming_offset'[d] = streaming_offset[d]
    BY <1>1, <1>2 DEF Joined, TypeOK
  <2>3. received'[c] = <<>> /\ streaming_offset'[c] = 0
    BY <1>1, <1>2 DEF Joined, TypeOK
  <2>4. SubSeq(file', 1, 0) = <<>>
    OBVIOUS
  <2>5. received'[c] = DrawsIn(SubSeq(file', 1, streaming_offset'[c]))
    BY <2>3, <2>4, DrawsOfOne
  <2> QED
    BY <2>1, <2>2, <2>5, GotKept
<1> QED
  BY <1>6, <1>9, <1>10 DEF StoreInv

LEMMA StoreAddDraw ==
  ASSUME StoreInv, Inv', NEW c \in Clients, AddDraw(c)
  PROVE  StoreInv'
<1> DEFINE p == shared_session[c]
<1>1. TypeOK /\ Writers /\ Kept
  BY KeptTypes DEF StoreInv, Inv
<1>2. p = current /\ p \in Papers /\ p \in Living /\ p # NoPaper
  BY SharedIsCurrent DEF AddDraw
<1>3. draws \in Nat /\ draws + 1 \in Draw /\ draws' = draws + 1
  BY <1>1, BoundsAssumption DEF AddDraw, TypeOK, Draw
<1>4. storage'[p] = Append(storage[p], draws + 1) /\ \A q \in Papers \ {p} : storage'[q] = storage[q]
  BY <1>1, <1>2 DEF AddDraw, TypeOK
<1>5. UNCHANGED <<file, buffer, opened, current, closing, snapshot, shared_session, overlapped,
                  wrapped, streaming, streaming_offset, received>>
  BY DEF AddDraw, ioVars, clientVars
<1> HIDE DEF p
<1>6. Held'[p] = Held[p] \o <<draws + 1>>
  <2>1. DrawsIn(buffer[p]) \in Block /\ storage[p] \in Block
    <3>1. buffer[p] \in Seq(Piece) /\ storage[p] \in Block
      BY <1>1, <1>2 DEF TypeOK, Piece, Block
    <3> QED
      BY <3>1, DrawsOfOne
  <2>2. Append(storage[p], draws + 1) = storage[p] \o <<draws + 1>> /\ <<draws + 1>> \in Block
    BY <1>3, <2>1, AppendIsConcat, OneOrNone DEF Block
  <2>3. Held'[p] = DrawsIn(buffer[p]) \o (storage[p] \o <<draws + 1>>)
    BY <1>2, <1>4, <1>5, <2>2, HeldNext
  <2>4. Held[p] = DrawsIn(buffer[p]) \o storage[p]
    BY <1>2, HeldBy
  <2>5. (DrawsIn(buffer[p]) \o storage[p]) \o <<draws + 1>>
          = DrawsIn(buffer[p]) \o (storage[p] \o <<draws + 1>>)
    BY <2>1, <2>2, DrawsAssociate
  <2> QED
    BY <2>3, <2>4, <2>5
<1>7. \A q \in Papers \ {p} : Held'[q] = Held[q]
  BY <1>4, <1>5, HeldBy, HeldNext
<1>8. Held' \in [Papers -> Block]
  <2>1. TypeOK' => Kept'
    BY KeptTypes, PTL
  <2> QED
    BY <2>1 DEF Inv, Kept
<1>9. Once' /\ InOrder'
  <2>1. /\ OnceIn(DrawsIn(file), Held', draws + 1)
        /\ OrderIn(DrawsIn(file), Held, p) => OrderIn(DrawsIn(file), Held', p)
    BY <1>1, <1>2, <1>3, <1>6, <1>7, <1>8, DrawnOnce DEF Kept, StoreInv, Once
  <2> QED
    BY <1>2, <1>3, <1>5, <2>1 DEF StoreInv, Once, InOrder
<1>10. Writers'
  <2>1. \A q \in Papers : storage'[q] # <<>> => q <= opened
    BY <1>1, <1>2, <1>4 DEF Writers
  <2> QED
    BY <1>1, <1>5, <2>1 DEF Writers, Living, Alive
<1>11. Got'
  BY <1>5 DEF StoreInv, Got
<1> QED
  BY <1>9, <1>10, <1>11 DEF StoreInv

\* Whoever leaves last leaves the paper to be closed.
LEMMA StoreLeave ==
  ASSUME StoreInv, Inv', NEW c \in Clients, Leave(c)
  PROVE  StoreInv'
<1> DEFINE p == shared_session[c]
<1>1. TypeOK /\ Writers
  BY DEF StoreInv, Inv
<1>2. p = current /\ p \in Papers /\ p \in Living /\ p # NoPaper
  BY SharedIsCurrent DEF Leave
<1>3. /\ shared_session' = [shared_session EXCEPT ![c] = NoPaper]
      /\ closing' = IF snapshot # p /\ \A d \in Clients \ {c} : shared_session[d] # p
                    THEN closing \union {p} ELSE closing
      /\ UNCHANGED <<file, buffer, storage, draws, opened, current, snapshot, overlapped, wrapped,
                     streaming_offset, received>>
  BY DEF Leave, ioVars
<1>4. shared_session'[c] = NoPaper /\ \A d \in Clients \ {c} : shared_session'[d] = shared_session[d]
  BY <1>1, <1>3 DEF TypeOK
<1> HIDE DEF p
<1>5. Living' \subseteq Living
  BY <1>3, <1>4 DEF Living, Alive
<1>6. /\ p \in Living' => closing' = closing
      /\ p \notin Living' => closing' = closing \union {p}
  <2>1. p \in Living' <=> snapshot = p \/ \E d \in Clients \ {c} : shared_session[d] = p
    BY <1>2, <1>3, <1>4 DEF Living, Alive
  <2> QED
    BY <1>3, <2>1
<1>7. Writers'
  <2>1. \A q \in closing' : q \notin Living' /\ q <= opened
    <3>1. p <= opened
      BY <1>1, <1>2 DEF Writers
    <3>2. \A q \in closing : q \in Papers
      BY <1>1 DEF TypeOK
    <3> QED
      BY <1>1, <1>2, <1>5, <1>6, <3>1, <3>2 DEF Writers
  <2>2. \A q \in Papers : buffer[q] # <<>> => q \in Living' \union closing'
    BY <1>1, <1>2, <1>6 DEF Writers
  <2>3. ~overlapped => closing' \subseteq {current}
    BY <1>1, <1>2, <1>6 DEF Writers
  <2> QED
    BY <1>1, <1>3, <1>5, <2>1, <2>2, <2>3 DEF Writers
<1>8. Once' /\ InOrder'
  BY <1>3, UnchangedKept
<1>9. Got'
  <2>1. Grown
    BY <1>3, Unwritten DEF StoreInv
  <2>2. \A d \in Clients : streaming'[d] => streaming[d]
    BY <1>1 DEF Leave, TypeOK
  <2> QED
    BY <1>3, <2>1, <2>2, GotKept
<1> QED
  BY <1>7, <1>8, <1>9 DEF StoreInv

LEMMA StoreClose ==
  ASSUME StoreInv, Inv', NEW p \in Papers, Close(p)
  PROVE  StoreInv'
<1>1. TypeOK /\ Writers /\ TypeOK'
  BY DEF StoreInv, Inv
<1>2. /\ p \in closing /\ closing' = closing \ {p} /\ SeekEnd(p)
      /\ UNCHANGED <<draws, opened, current, storage, snapshot, shared_session, overlapped,
                     streaming, streaming_offset, received>>
  BY DEF Close, SeekEnd, ioVars, clientVars
<1>3. Once' /\ InOrder'
  <2>1. ~overlapped => p = current
    BY <1>1, <1>2 DEF Writers
  <2> QED
    BY <1>1, <1>2, <2>1, SoughtMoved, MovedKept
<1>4. Writers'
  <2>1. buffer'[p] = <<>> /\ \A q \in Papers \ {p} : buffer'[q] = buffer[q]
    BY <1>1, <1>2 DEF SeekEnd, TypeOK
  <2> QED
    BY <1>1, <1>2, <2>1 DEF Writers, Living, Alive
<1>5. Got'
  BY <1>1, <1>2, SoughtEnd, GotKept
<1> QED
  BY <1>3, <1>4, <1>5 DEF StoreInv

LEMMA StoreSought ==
  ASSUME StoreInv, TypeOK', NEW p \in Papers, p = current, SeekEnd(p),
         UNCHANGED <<draws, opened, current, storage, closing, snapshot, shared_session, overlapped>>
  PROVE  Grown /\ Once' /\ InOrder' /\ Writers'
<1>1. TypeOK /\ Writers
  BY DEF StoreInv, Inv
<1>2. Once' /\ InOrder'
  BY <1>1, SoughtMoved, MovedKept
<1>3. Grown
  BY <1>1, SoughtEnd
<1>4. Writers'
  <2>1. buffer'[p] = <<>> /\ \A q \in Papers \ {p} : buffer'[q] = buffer[q]
    BY <1>1 DEF SeekEnd, TypeOK
  <2> QED
    BY <2>1, WritersKept
<1> QED
  BY <1>2, <1>3, <1>4

LEMMA StoreStored ==
  ASSUME StoreInv, TypeOK', NEW p \in Papers, p = current, p \in Living, Store(p),
         UNCHANGED <<draws, opened, current, closing, snapshot, shared_session, overlapped>>
  PROVE  Grown /\ Once' /\ InOrder' /\ Writers'
<1>1. TypeOK /\ Writers
  BY DEF StoreInv, Inv
<1>2. Once' /\ InOrder'
  BY <1>1, StoredMoved, MovedKept
<1>3. Grown
  BY <1>1, Stored
<1>4. Writers'
  <2>1. \A q \in Papers \ {p} : buffer'[q] = buffer[q]
    BY <1>1 DEF Store, TypeOK
  <2>2. storage'[p] = <<>> /\ \A q \in Papers \ {p} : storage'[q] = storage[q]
    BY <1>1 DEF Store, TypeOK
  <2> QED
    BY <2>1, <2>2, WritersKept
<1> QED
  BY <1>2, <1>3, <1>4

----------------------------------------------------------------------------
LEMMA StoreStreamBlock ==
  ASSUME StoreInv, Inv', NEW c \in Clients, StreamBlock(c)
  PROVE  StoreInv'
<1> DEFINE p == shared_session[c]
           o == streaming_offset[c]
<1>1. TypeOK /\ TypeOK'
  BY DEF StoreInv, Inv
<1>2. p \in Papers /\ p = current
  <2>1. p # NoPaper
    BY NoPaperAssumption DEF StoreInv, Inv, HasPaper, StreamBlock, Streaming, Papers
  <2> QED
    BY <2>1, SharedIsCurrent
<1>3. Grown /\ Once' /\ InOrder' /\ Writers'
  BY <1>1, <1>2, StoreSought DEF StreamBlock, Streaming, ioVars
<1>4. /\ o < Length /\ file'[o + 1] # Torn
      /\ received' = [received EXCEPT ![c] = @ \o file'[o + 1]]
      /\ streaming_offset' = [streaming_offset EXCEPT ![c] = (o + 1) % Width]
      /\ streaming[c]
  BY DEF StreamBlock, Streaming
<1>5. /\ file' \in Seq(Piece) /\ Len(file') \in Nat /\ o \in Nat /\ Len(file) \in Nat
      /\ file \in Seq(Piece)
  <2>1. o \in 0..Width - 1
    BY <1>1 DEF TypeOK
  <2>2. file \in Seq(Piece) /\ file' \in Seq(Piece)
    BY <1>1 DEF TypeOK, Piece
  <2> HIDE DEF o
  <2> QED
    BY <2>1, <2>2, WidthAssumption
<1>6. o + 1 \in 1..Len(file')
  <2>1. Len(file') % Width <= Len(file') /\ Len(file') % Width \in 0..Width - 1
    BY <1>5, Remainder
  <2> QED
    BY <1>4, <1>5, <2>1, WidthAssumption DEF Length
<1>7. ASSUME ~wrapped'
      PROVE  received'[c] = DrawsIn(SubSeq(file', 1, streaming_offset'[c]))
  <2>1. ~wrapped /\ Len(file') < Width
    BY <1>3, <1>7 DEF Grown
  <2>2. (o + 1) % Width = o + 1
    <3> HIDE DEF o
    <3>1. o + 1 \in Nat /\ o + 1 < Width
      BY <1>5, <1>6, <2>1, WidthAssumption
    <3> QED
      BY <3>1, Remainder
  <2>3. streaming_offset'[c] = o + 1 /\ received'[c] = received[c] \o file'[o + 1]
    BY <1>1, <1>4, <2>2 DEF TypeOK
  <2>4. received[c] = DrawsIn(SubSeq(file, 1, o)) /\ o <= Len(file)
    BY <1>4, <2>1 DEF StoreInv, Got, Inv, Readable, NoneTorn
  <2>5. SubSeq(file', 1, o) = SubSeq(file, 1, o)
    <3>1. Len(file') >= Len(file) /\ \A i \in 1..Len(file) : file'[i] = file[i]
      BY <1>3 DEF Grown
    <3> HIDE DEF o
    <3>2. o <= Len(file')
      BY <1>5, <2>4, <3>1
    <3> QED
      BY <1>5, <2>4, <3>1, <3>2, SamePrefix
  <2>6. SubSeq(file', 1, o + 1) = SubSeq(file', 1, o) \o <<file'[o + 1]>>
    <3> HIDE DEF o
    <3>1. o + 1 <= Len(file')
      BY <1>5, <1>6
    <3> QED
      BY <1>5, <3>1, OneLonger
  <2>7. SubSeq(file', 1, o) \in Seq(Piece) /\ <<file'[o + 1]>> \in Seq(Piece)
        /\ file'[o + 1] \in Block
    BY <1>4, <1>5, <1>6 DEF Piece
  <2>8. DrawsIn(SubSeq(file', 1, o + 1)) = DrawsIn(SubSeq(file', 1, o)) \o file'[o + 1]
    BY <2>6, <2>7, DrawsOfBoth, DrawsOfOne
  <2> QED
    BY <2>3, <2>4, <2>5, <2>8
<1>8. \A d \in Clients \ {c} : /\ streaming'[d] = streaming[d] /\ received'[d] = received[d]
                               /\ streaming_offset'[d] = streaming_offset[d]
  BY <1>1 DEF StreamBlock, TypeOK
<1>9. Got'
  BY <1>3, <1>7, <1>8, GotKept
<1> QED
  BY <1>3, <1>9 DEF StoreInv

LEMMA StoreStreamTorn ==
  ASSUME StoreInv, Inv', NEW c \in Clients, StreamTorn(c)
  PROVE  StoreInv'
<1> DEFINE p == shared_session[c]
<1>1. TypeOK /\ TypeOK'
  BY DEF StoreInv, Inv
<1>2. p \in Papers /\ p = current
  <2>1. p # NoPaper
    BY NoPaperAssumption DEF StoreInv, Inv, HasPaper, StreamTorn, Streaming, Papers
  <2> QED
    BY <2>1, SharedIsCurrent
<1>3. Grown /\ Once' /\ InOrder' /\ Writers'
  BY <1>1, <1>2, StoreSought DEF StreamTorn, Streaming, ioVars
<1>4. \A d \in Clients : streaming'[d] => streaming[d]
  BY <1>1 DEF StreamTorn, TypeOK
<1>5. Got'
  BY <1>3, <1>4, GotKept DEF StreamTorn
<1> QED
  BY <1>3, <1>5 DEF StoreInv

LEMMA StoreStreamFails ==
  ASSUME StoreInv, Inv', NEW c \in Clients, StreamFails(c)
  PROVE  StoreInv'
<1>1. UNCHANGED <<file, buffer, storage, draws, opened, current, closing, snapshot,
                  shared_session, overlapped, wrapped, streaming_offset, received>>
  BY DEF StreamFails, Streaming, ioVars
<1>2. Once' /\ InOrder' /\ Writers'
  BY <1>1, UnchangedKept, WritersKept
<1>3. Grown
  BY <1>1, Unwritten DEF StoreInv
<1>4. \A d \in Clients : streaming'[d] => streaming[d]
  BY DEF StreamFails, TypeOK, StoreInv, Inv
<1>5. Got'
  BY <1>1, <1>3, <1>4, GotKept
<1> QED
  BY <1>2, <1>5 DEF StoreInv

LEMMA StoreStreamEnd ==
  ASSUME StoreInv, Inv', NEW c \in Clients, StreamEnd(c)
  PROVE  StoreInv'
<1> DEFINE p == shared_session[c]
<1>1. TypeOK /\ TypeOK'
  BY DEF StoreInv, Inv
<1>2. p \in Papers /\ p = current /\ p \in Living
  <2>1. p # NoPaper
    BY NoPaperAssumption DEF StoreInv, Inv, HasPaper, StreamEnd, Streaming, Papers
  <2> QED
    BY <2>1, SharedIsCurrent
<1>3. UNCHANGED <<draws, opened, current, closing, snapshot, shared_session, overlapped>>
  BY DEF StreamEnd, Streaming, ioVars
<1>4. (SeekEnd(p) /\ UNCHANGED storage) \/ Store(p)
  BY DEF StreamEnd
<1>5. Grown /\ Once' /\ InOrder' /\ Writers'
  BY <1>1, <1>2, <1>3, <1>4, StoreSought, StoreStored
<1>6. /\ \A d \in Clients \ {c} : received'[d] = received[d]
      /\ \A d \in Clients : streaming'[d] => streaming[d] /\ d # c
      /\ streaming_offset' = streaming_offset
  BY <1>1 DEF StreamEnd, TypeOK
<1>7. Got'
  BY <1>5, <1>6, GotKept
<1> QED
  BY <1>5, <1>7 DEF StoreInv

LEMMA StoreStoreAll ==
  ASSUME StoreInv, Inv', StoreAll
  PROVE  StoreInv'
<1>1. TypeOK /\ TypeOK' /\ Kept /\ Kept'
  <2>1. TypeOK' => Kept'
    BY KeptTypes, PTL
  <2> QED
    BY <2>1, KeptTypes DEF StoreInv, Inv
<1>2. UNCHANGED <<draws, opened, current, closing, snapshot, shared_session, overlapped,
                  streaming, streaming_offset, received>>
  BY DEF StoreAll, clientVars
<1>3. Grown /\ Once' /\ InOrder' /\ Writers'
  <2>1. ASSUME snapshot # NoPaper, Store(snapshot)
        PROVE  Grown /\ Once' /\ InOrder' /\ Writers'
    <3>1. snapshot \in Papers /\ snapshot \in Living
      BY <1>1, <2>1 DEF TypeOK, Living, Alive
    <3>2. snapshot = current
      BY <3>1 DEF StoreInv, Writers
    <3> QED
      BY <1>1, <1>2, <2>1, <3>1, <3>2, StoreStored
  <2>2. ASSUME snapshot # NoPaper, StoreFails(snapshot)
        PROVE  Grown /\ Once' /\ InOrder' /\ Writers'
    <3>1. snapshot \in Papers /\ UNCHANGED <<file, buffer, wrapped>>
      BY <1>1, <2>2 DEF TypeOK, StoreFails
    <3>2. /\ storage'[snapshot] = <<>>
          /\ \A q \in Papers \ {snapshot} : storage'[q] = storage[q]
      BY <1>1, <2>2 DEF StoreFails, TypeOK
    <3>3. ASSUME NEW q \in Papers
          PROVE  \E x \in Block : Held[q] = Held'[q] \o x
      <4>1. DrawsIn(buffer[q]) \in Block /\ storage[q] \in Block /\ Held[q] \in Block
        <5>1. buffer[q] \in Seq(Piece) /\ storage[q] \in Block
          BY <1>1 DEF TypeOK, Piece, Block
        <5> QED
          BY <1>1, <5>1, DrawsOfOne DEF Kept
      <4>2. CASE q = snapshot
        <5>1. Held'[q] = DrawsIn(buffer[q])
          BY <3>1, <3>2, <4>1, <4>2, HeldNext, OneOrNone
        <5>2. Held[q] = Held'[q] \o storage[q]
          BY <5>1, HeldBy
        <5> QED
          BY <4>1, <5>2
      <4>3. CASE q # snapshot
        <5>1. Held'[q] = Held[q]
          BY <3>1, <3>2, <4>3, HeldBy, HeldNext
        <5>2. Held[q] = Held'[q] \o <<>> /\ <<>> \in Block
          BY <4>1, <5>1, OneOrNone
        <5> QED
          BY <5>2
      <4> QED
        BY <4>2, <4>3
    <3>4. DrawsIn(file) = DrawsIn(file') \o <<>> /\ <<>> \in Block
      BY <1>1, <3>1, OneOrNone DEF Kept
    <3>5. Lost(DrawsIn(file), Held, DrawsIn(file'), Held')
      BY <3>3, <3>4 DEF Lost
    <3>6. Once' /\ InOrder'
      BY <1>1, <1>2, <3>5, LostKept
    <3>7. Grown
      BY <3>1, Unwritten DEF StoreInv
    <3>8. Writers'
      BY <1>2, <3>1, <3>2, WritersKept
    <3> QED
      BY <3>6, <3>7, <3>8
  <2>3. ASSUME UNCHANGED <<file, buffer, storage, wrapped>>
        PROVE  Grown /\ Once' /\ InOrder' /\ Writers'
    BY <1>2, <2>3, UnchangedKept, WritersKept, Unwritten DEF StoreInv
  <2> QED
    BY <2>1, <2>2, <2>3 DEF StoreAll
<1>4. Got'
  BY <1>2, <1>3, GotKept
<1> QED
  BY <1>3, <1>4 DEF StoreInv

\* What leaves the list and has no client either is left to be closed.
LEMMA StoreClearList ==
  ASSUME StoreInv, Inv', ClearList
  PROVE  StoreInv'
<1> DEFINE gone == {snapshot} \ ({NoPaper} \union {shared_session[c] : c \in Clients})
<1>1. TypeOK /\ TypeOK' /\ Writers
  BY DEF StoreInv, Inv
<1>2. /\ UNCHANGED <<file, buffer, wrapped, draws, opened, current, storage, shared_session,
                     overlapped, streaming, streaming_offset, received>>
      /\ snapshot' = NoPaper /\ closing' = closing \union gone
  BY DEF ClearList, clientVars
<1>3. Living' = Living \ gone
  BY <1>1, <1>2, NoPaperAssumption DEF Living, Alive, Writers, TypeOK, Papers
<1>4. gone \subseteq Living
  BY <1>1 DEF Living, Alive, TypeOK
<1> HIDE DEF gone
<1>5. \A q \in gone : q = current /\ q \in Papers /\ q <= opened
  <2>1. \A q \in gone : q \in Papers /\ q = current
    BY <1>1, <1>4 DEF Writers, Living
  <2>2. current \in Papers => current <= opened
    BY <1>1, NoPaperAssumption DEF Writers, TypeOK, Papers
  <2> QED
    BY <2>1, <2>2
<1>6. Writers'
  <2>1. \A q \in closing' : q \notin Living' /\ q <= opened'
    BY <1>1, <1>2, <1>3, <1>5 DEF Writers
  <2>2. \A q \in Papers : buffer'[q] # <<>> => q \in Living' \union closing'
    BY <1>1, <1>2, <1>3 DEF Writers
  <2>3. ~overlapped' => closing' \subseteq {current'}
    BY <1>1, <1>2, <1>5 DEF Writers
  <2> QED
    BY <1>1, <1>2, <1>3, <2>1, <2>2, <2>3 DEF Writers
<1>7. Once' /\ InOrder'
  BY <1>2, UnchangedKept
<1>8. Got'
  BY <1>2, Unwritten, GotKept DEF StoreInv
<1> QED
  BY <1>6, <1>7, <1>8 DEF StoreInv

\* The list is empty when another is made.
NoList == io = "List" => snapshot = NoPaper

LEMMA StoreNewList ==
  ASSUME StoreInv, Inv', NoList, NewList
  PROVE  StoreInv'
<1>1. TypeOK /\ Writers
  BY DEF StoreInv, Inv
<1>2. /\ UNCHANGED <<file, buffer, wrapped, draws, opened, current, closing, storage,
                     shared_session, overlapped, streaming, streaming_offset, received>>
      /\ snapshot = NoPaper
      /\ snapshot' = IF \E c \in Clients : shared_session[c] = current THEN current ELSE NoPaper
  BY DEF NewList, NoList, clientVars
<1>3. Living' = Living
  BY <1>1, <1>2 DEF Living, Alive
<1>4. Writers'
  BY <1>1, <1>2, <1>3 DEF Writers
<1>5. Once' /\ InOrder'
  BY <1>2, UnchangedKept
<1>6. Got'
  BY <1>2, Unwritten, GotKept DEF StoreInv
<1> QED
  BY <1>4, <1>5, <1>6 DEF StoreInv

LEMMA NoListNext ==
  ASSUME NoList, [Next]_vars
  PROVE  NoList'
BY DEF NoList, Next, Get, Joined, AddDraw, Leave, StreamBlock, StreamTorn, StreamFails, StreamEnd,
   Streaming, Close, StoreAll, ClearList, NewList, Killed, PowerLost, Restarted, vars, ioVars

LEMMA StoreRestarted ==
  ASSUME StoreInv, Inv', Restarted, \E x \in Block : DrawsIn(file) = DrawsIn(file') \o x
  PROVE  StoreInv'
<1>1. TypeOK /\ TypeOK' /\ Kept /\ Writers
  BY KeptTypes DEF StoreInv, Inv
<1>2. \A q \in Papers : buffer'[q] = <<>> /\ storage'[q] = <<>>
  BY DEF Restarted
<1>3. \A q \in Papers : Held'[q] = <<>>
  BY <1>2, HeldNext, DrawsOfOne, OneOrNone
<1>4. \A q \in Papers : Held[q] \in Block /\ Held[q] = Held'[q] \o Held[q]
  BY <1>1, <1>3, OneOrNone DEF Kept
<1>5. Lost(DrawsIn(file), Held, DrawsIn(file'), Held')
  BY <1>4 DEF Lost
<1>6. Once' /\ InOrder'
  BY <1>1, <1>5, LostKept DEF Restarted
<1>7. Writers'
  <2>1. Living' = {}
    BY NoPaperAssumption DEF Living, Alive, Restarted, Papers
  <2> QED
    BY <1>2, <2>1 DEF Writers, Restarted
<1>8. Got'
  BY DEF Got, Restarted
<1> QED
  BY <1>6, <1>7, <1>8 DEF StoreInv

LEMMA StoreKilled ==
  ASSUME StoreInv, Inv', Killed
  PROVE  StoreInv'
<1>1. DrawsIn(file) = DrawsIn(file') \o <<>> /\ <<>> \in Block
  BY KeptTypes, OneOrNone DEF Killed, Kept, StoreInv, Inv
<1> QED
  BY <1>1, StoreRestarted DEF Killed

LEMMA StorePowerLost ==
  ASSUME StoreInv, Inv', PowerLost
  PROVE  StoreInv'
<1>1. PICK n \in durable..Len(file) :
        \/ file' = SubSeq(file, 1, n)
        \/ n < Len(file) /\ file' = Append(SubSeq(file, 1, n), Torn)
  BY DEF PowerLost
<1>2. file \in Seq(Piece) /\ Len(file) \in Nat /\ n \in Nat /\ n <= Len(file)
  BY <1>1 DEF StoreInv, Inv, TypeOK, Piece
<1> DEFINE a == SubSeq(file, 1, n)
           b == SubSeq(file, n + 1, Len(file))
<1>3. a \in Seq(Piece) /\ b \in Seq(Piece) /\ file = a \o b
  BY <1>2, TwoParts
<1>4. DrawsIn(file) = DrawsIn(a) \o DrawsIn(b) /\ DrawsIn(a) \in Block /\ DrawsIn(b) \in Block
  BY <1>3, DrawsOfBoth, DrawsOfOne
<1>5. DrawsIn(file') = DrawsIn(a)
  <2>1. CASE file' = a
    BY <2>1
  <2>2. CASE file' = Append(a, Torn)
    <3>1. Torn \in Piece /\ <<Torn>> \in Seq(Piece)
      BY DEF Piece
    <3> HIDE DEF a
    <3>2. file' = a \o <<Torn>>
      BY <1>3, <2>2, <3>1, AppendIsConcat
    <3>3. DrawsIn(file') = DrawsIn(a) \o <<>>
      BY <1>3, <3>1, <3>2, DrawsOfBoth, DrawsOfOne
    <3> QED
      BY <1>4, <3>3, OneOrNone
  <2> QED
    BY <1>1, <2>1, <2>2
<1> HIDE DEF a, b
<1> QED
  BY <1>4, <1>5, StoreRestarted DEF PowerLost

LEMMA StoreStutter ==
  ASSUME StoreInv, UNCHANGED vars
  PROVE  StoreInv'
<1>1. Inv'
  BY InvStutter DEF StoreInv
<1>2. Once' /\ InOrder' /\ Writers' /\ Got'
  BY UnchangedKept, WritersKept DEF vars, ioVars, clientVars, StoreInv, Got
<1> QED
  BY <1>1, <1>2 DEF StoreInv

LEMMA StoreNext ==
  ASSUME StoreInv, NoList, [Next]_vars
  PROVE  StoreInv'
<1>1. Inv'
  BY InvNext DEF StoreInv
<1> QED
  BY <1>1, StoreGet, StoreAddDraw, StoreLeave, StoreClose, StoreStreamBlock, StoreStreamTorn,
     StoreStreamFails, StoreStreamEnd, StoreStoreAll, StoreClearList, StoreNewList, StoreKilled,
     StorePowerLost, StoreStutter DEF Next

LEMMA StoreInit ==
  ASSUME Init
  PROVE  StoreInv
<1>1. Inv /\ TypeOK
  BY InvInit DEF Inv
<1>2. DrawsIn(file) = <<>>
  BY DrawsOfOne DEF Init
<1>3. \A p \in Papers : Held[p] = <<>>
  BY HeldBy, DrawsOfOne, OneOrNone DEF Init
<1>4. Once /\ InOrder
  BY <1>2, <1>3, OneOrNone DEF Once, OnceIn, InOrder, OrderIn, Init
<1>5. Writers
  BY NoPaperAssumption DEF Init, Writers, Living, Alive, Papers
<1>6. Got
  BY DEF Init, Got
<1> QED
  BY <1>1, <1>4, <1>5, <1>6 DEF StoreInv

LEMMA StoreAlways == Spec => []StoreInv
<1>1. Init => StoreInv /\ NoList
  BY StoreInit DEF Init, NoList
<1>2. StoreInv /\ NoList /\ [Next]_vars => (StoreInv /\ NoList)'
  BY StoreNext, NoListNext
<1> QED
  BY <1>1, <1>2, PTL DEF Spec

(***************************************************************************)
(* However papers come and go, whatever is killed or cut off: no draw is   *)
(* stored twice, and the file is in the order in which they were drawn,    *)
(* unless a paper was opened while another still had a block to write.     *)
(***************************************************************************)
THEOREM FileInOrder == Spec => []StoredInOrder
<1>1. StoreInv => StoredInOrder
  BY DEF StoreInv, Once, OnceIn, InOrder, OrderIn, StoredInOrder
<1> QED
  BY <1>1, StoreAlways, PTL

(***************************************************************************)
(* The step in which a client gets StreamSynced.                           *)
(***************************************************************************)
LEMMA SyncedStep ==
  ASSUME StoreInv, Inv', [Next]_vars, NEW c \in Clients,
         ~synced[c], synced'[c], ~overlapped, ~wrapped'
  PROVE  /\ received'[c] = DrawsIn(file' \o buffer'[shared_session[c]])
         /\ \A p \in Papers \ {shared_session[c]} : buffer'[p] = <<>>
<1> DEFINE p == shared_session[c]
           o == streaming_offset[c]
<1>1. TypeOK /\ Writers
  BY DEF StoreInv, Inv
<1>2. StreamEnd(c)
  <2>1. \A d \in Clients : Leave(d) \/ StreamEnd(d) => synced'[c] = synced[c] \/ d = c
    BY <1>1 DEF TypeOK, Leave, StreamEnd
  <2>2. ~Leave(c)
    BY <1>1 DEF Leave, TypeOK
  <2> QED
    BY <2>1, <2>2 DEF Next, Get, Joined, AddDraw, StreamBlock, StreamTorn, StreamFails, Close,
       StoreAll, ClearList, NewList, Killed, PowerLost, Restarted, vars, clientVars
<1>3. p \in Papers /\ p = current
  <2>1. p # NoPaper
    BY <1>2, NoPaperAssumption DEF StoreInv, Inv, HasPaper, StreamEnd, Streaming, Papers
  <2> QED
    BY <2>1, SharedIsCurrent
<1>4. /\ file \in Seq(Piece) /\ buffer[p] \in Seq(Piece) /\ file' \in Seq(Piece)
      /\ storage[p] \in Block /\ received[c] \in Block
      /\ Len(file) \in Nat /\ Len(buffer[p]) \in Nat /\ Len(file') \in Nat /\ o \in Nat
      /\ Len(file \o buffer[p]) = Len(file) + Len(buffer[p])
  <2>1. o \in 0..Width - 1
    BY <1>1 DEF TypeOK
  <2>2. /\ file \in Seq(Piece) /\ buffer[p] \in Seq(Piece) /\ file' \in Seq(Piece)
        /\ storage[p] \in Block /\ received[c] \in Block
    BY <1>1, <1>3 DEF TypeOK, Piece, Block, Inv
  <2> HIDE DEF o, p
  <2> QED
    BY <2>1, <2>2, WidthAssumption
<1>5. Grown /\ Len(file') >= Len(file) + Len(buffer[p])
  <2>1. CASE SeekEnd(p)
    BY <1>1, <1>3, <1>4, <2>1, SoughtEnd
  <2>2. CASE Store(p)
    BY <1>1, <1>3, <2>2, Stored
  <2> QED
    BY <1>2, <2>1, <2>2 DEF StreamEnd
<1>6. ~wrapped /\ Len(file') < Width
  BY <1>5 DEF Grown
<1>7. /\ received[c] = DrawsIn(SubSeq(file, 1, o)) /\ o <= Len(file)
  BY <1>2, <1>6 DEF StreamEnd, Streaming, StoreInv, Got, Inv, Readable, NoneTorn
<1>8. o >= Len(file \o buffer[p]) % Width
  BY <1>2 DEF StreamEnd
<1> HIDE DEF o
<1>9. o = Len(file) /\ Len(buffer[p]) = 0
  <2>1. Len(file) + Len(buffer[p]) < Width /\ Len(file) + Len(buffer[p]) \in Nat
    BY <1>4, <1>5, <1>6, WidthAssumption
  <2>2. (Len(file) + Len(buffer[p])) % Width = Len(file) + Len(buffer[p])
    BY <2>1, Remainder
  <2>3. o >= Len(file) + Len(buffer[p])
    BY <1>4, <1>8, <2>2
  <2> QED
    BY <1>4, <1>7, <2>3
<1>10. buffer[p] = <<>> /\ SubSeq(file, 1, o) = file /\ file \o <<>> = file
  BY <1>4, <1>9, EmptySeq, WholeSeq
<1>11. received'[c] = DrawsIn(file) \o storage[p]
  BY <1>1, <1>2, <1>7, <1>10 DEF StreamEnd, TypeOK
<1>12. received'[c] = DrawsIn(file' \o buffer'[p])
  <2>1. CASE storage[p] = <<>> /\ SeekEnd(p)
    <3>1. file' = file /\ buffer'[p] = <<>>
      BY <1>1, <1>3, <1>10, <2>1 DEF SeekEnd, Written, TypeOK
    <3>2. DrawsIn(file) \in Block
      BY <1>4, DrawsOfOne
    <3> QED
      BY <1>10, <1>11, <2>1, <3>1, <3>2, OneOrNone
  <2>2. CASE Store(p)
    <3>1. storage[p] \in Piece /\ <<storage[p]>> \in Seq(Piece)
      BY <1>4 DEF Piece
    <3>2. DrawsIn(file \o <<storage[p]>>) = DrawsIn(file) \o storage[p]
      <4> DEFINE b == <<storage[p]>>
      <4>1. b \in Seq(Piece) /\ DrawsIn(b) = storage[p]
        BY <1>4, <3>1, DrawsOfOne
      <4> HIDE DEF b
      <4>2. DrawsIn(file \o b) = DrawsIn(file) \o storage[p]
        <5>1. file \in Seq(Piece)
          BY <1>4
        <5>2. DrawsIn(file \o b) = DrawsIn(file) \o DrawsIn(b)
          BY <4>1, <5>1, DrawsOfBoth
        <5> QED
          BY <4>1, <5>2
      <4> QED
        BY <4>2 DEF b
    <3>3. CASE file' = file \o buffer[p] /\ buffer' = [buffer EXCEPT ![p] = <<storage[p]>>]
      <4>1. file' = file /\ buffer'[p] = <<storage[p]>>
        BY <1>1, <1>3, <1>10, <3>3 DEF TypeOK
      <4> QED
        BY <1>11, <3>2, <4>1
    <3>4. CASE /\ file' = file \o Append(buffer[p], storage[p])
               /\ buffer' = [buffer EXCEPT ![p] = <<>>]
      <4>1. buffer'[p] = <<>>
        BY <1>1, <1>3, <3>4 DEF TypeOK
      <4>2. Append(buffer[p], storage[p]) = <<storage[p]>>
        BY <1>4, <1>10
      <4>3. file' = file \o <<storage[p]>>
        BY <3>4, <4>2
      <4>4. file' \o <<>> = file'
        BY <1>4
      <4> QED
        BY <1>11, <3>2, <4>1, <4>3, <4>4
    <3> QED
      BY <2>2, <3>3, <3>4 DEF Store, Written
  <2> QED
    BY <1>2, <2>1, <2>2 DEF StreamEnd
<1>13. \A q \in Papers \ {p} : buffer'[q] = <<>>
  <2>1. \A q \in Papers \ {p} : buffer'[q] = buffer[q]
    BY <1>1, <1>2 DEF StreamEnd, SeekEnd, Store, TypeOK
  <2> QED
    BY <1>1, <1>3, <2>1 DEF Writers
<1> QED
  BY <1>12, <1>13

(***************************************************************************)
(* Whoever gets StreamSynced has just then all that is stored, and no      *)
(* other paper has anything in its buffer, unless one was opened too early *)
(* or the file is too long for its length.                                 *)
(***************************************************************************)
THEOREM SyncedHasAll == Spec => SyncedWithAll
<1>1. StoreInv /\ Inv' /\ [Next]_vars =>
        [\A c \in Clients :
           ~synced[c] /\ synced'[c] /\ ~overlapped /\ ~wrapped' =>
             /\ received'[c] = DrawsIn(file' \o buffer'[shared_session[c]])
             /\ \A p \in Papers \ {shared_session[c]} : buffer'[p] = <<>>]_vars
  BY SyncedStep
<1> QED
  BY <1>1, StoreAlways, InvAlways, PTL DEF Spec, SyncedWithAll
=============================================================================
