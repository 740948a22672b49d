----------------------------- MODULE LitmusProofs ---------------------------
(***************************************************************************)
(* Proofs about the coherence rig: what the benches' programs rely on, for *)
(* every number of words in a line, every set of lines and every delay     *)
(* between two accesses.                                                   *)
(***************************************************************************)
EXTENDS Litmus, TLAPS

-----------------------------------------------------------------------------
(* Types.                                                                  *)
Ops      == {"lw", "sw", "lr", "sc"}
States   == {"IDLE", "CHECK", "WAITM_RD", "SNOOP_WB", "SNOOP_INV"}
Msi      == {"I", "S", "M"}
Requests == [op : Ops, addr : Addr, val : Int] \cup {NoReq}
Snoops   == [on : BOOLEAN, write : BOOLEAN, way : Way, msi : Msi]
Cpu      == [pc : Nat \ {0}, issued : BOOLEAN, r : Int]

Registers ==
  {"state", "req", "rdata", "ready", "tag", "msi", "data", "fill_cnt", "fill_way", "last_way",
   "pending_write", "pend", "reserved", "reservation", "wb_cnt", "mem_addr", "mem_wdata",
   "read_req", "write_req"}

\* A cache: its control and its request, its lines, its refill and its transactions.
ControlOK(k) ==
  /\ DOMAIN k = Registers
  /\ k.state \in States /\ k.req \in Requests /\ k.rdata \in Int /\ k.ready \in BOOLEAN
LinesOK(k) ==
  /\ k.tag \in [Way -> Lines] /\ k.msi \in [Way -> Msi] /\ k.data \in [Way -> [Word -> Int]]
  /\ k.last_way \in Way /\ k.fill_way \in Way /\ k.fill_cnt \in Word /\ k.pending_write \in BOOLEAN
BusOK(k) ==
  /\ k.pend \in Snoops /\ k.wb_cnt \in Word
  /\ k.reserved \in BOOLEAN /\ k.reservation \in Addr
  /\ k.mem_addr \in Addr /\ k.mem_wdata \in Int /\ k.read_req \in BOOLEAN /\ k.write_req \in BOOLEAN
CacheOK(k) == ControlOK(k) /\ LinesOK(k) /\ BusOK(k)

TypeOK ==
  /\ prog \in Programs
  /\ cpu \in [Core -> Cpu]
  /\ l1 = [c \in Core |-> l1[c]]
  /\ \A c \in Core : CacheOK(l1[c])
  /\ mem \in [Addr -> Int] /\ rdata \in Int
  /\ tog \in [Core -> BOOLEAN]

LEMMA Zero == 0 \in Word /\ WORDS - 1 \in Word /\ WORDS - 1 # 0 /\ NoAddr \in Addr /\ NoAddr.line \in Lines
BY LineAssumption DEF Word, NoAddr, Addr

LEMMA RequestIs ==
  /\ NoReq.op = "none" /\ NoReq \notin [op : Ops, addr : Addr, val : Int]
  /\ \A r \in Requests : r = NoReq \/ (r.op \in Ops /\ r.addr \in Addr /\ r.val \in Int /\ r # NoReq)
BY DEF Requests, NoReq, Ops

\* The hits of a line are ways that hold it.
LEMMA HitFacts ==
  ASSUME NEW k, NEW line
  PROVE  /\ Hits(k, line) \subseteq Way /\ HitWay(k, line) \in Way
         /\ \A w \in Hits(k, line) : k.msi[w] # "I" /\ k.tag[w] = line
         /\ \A w \in Way : k.msi[w] # "I" /\ k.tag[w] = line => w \in Hits(k, line)
         /\ Hits(k, line) # {} => HitWay(k, line) \in Hits(k, line)
BY DEF Hits, HitWay, Way

-----------------------------------------------------------------------------
(* What an edge does to a cache: k is the cache before the edge, n after   *)
(* it, d is k with the assignments of every cycle.                         *)
Defaulted(k, d) ==
  /\ DOMAIN d = Registers
  /\ ~d.read_req /\ ~d.write_req /\ ~d.ready
  /\ d.state = k.state /\ d.rdata = k.rdata /\ d.tag = k.tag /\ d.msi = k.msi /\ d.data = k.data
  /\ d.fill_cnt = k.fill_cnt /\ d.fill_way = k.fill_way /\ d.last_way = k.last_way
  /\ d.pending_write = k.pending_write /\ d.reserved = k.reserved
  /\ d.reservation = k.reservation /\ d.wb_cnt = k.wb_cnt
  /\ d.mem_addr = k.mem_addr /\ d.mem_wdata = k.mem_wdata

LEMMA DefaultsAre ==
  ASSUME NEW c \in Core, NEW issue, NEW k, CacheOK(k),
         Latched(c, issue, k) \in Requests, Capture(c, k) \in Snoops
  PROVE  LET d == Defaults(c, issue, k) IN
         CacheOK(d) /\ Defaulted(k, d) /\ d.req = Latched(c, issue, k) /\ d.pend = Capture(c, k)
<1> DEFINE d == Defaults(c, issue, k)
<1>1. DOMAIN k = Registers
  BY DEF CacheOK, ControlOK
<1>2. /\ Defaulted(k, d) /\ d.req = Latched(c, issue, k) /\ d.pend = Capture(c, k)
      /\ d.read_req \in BOOLEAN /\ d.write_req \in BOOLEAN /\ d.ready \in BOOLEAN
  BY <1>1 DEF Defaults, Defaulted, Registers
<1> HIDE DEF d
<1>3. CacheOK(d)
  BY <1>2 DEF CacheOK, ControlOK, LinesOK, BusOK, Defaulted
<1> QED
  BY <1>2, <1>3 DEF d

LEMMA DoneIs ==
  ASSUME NEW d, DOMAIN d = Registers
  PROVE  LET n == Done(d) IN
         /\ DOMAIN n = Registers
         /\ n.ready /\ n.req = NoReq /\ n.state = "IDLE"
         /\ n.rdata = d.rdata /\ n.tag = d.tag /\ n.msi = d.msi /\ n.data = d.data
         /\ n.fill_cnt = d.fill_cnt /\ n.fill_way = d.fill_way /\ n.last_way = d.last_way
         /\ n.pending_write = d.pending_write /\ n.reserved = d.reserved
         /\ n.reservation = d.reservation /\ n.wb_cnt = d.wb_cnt /\ n.pend = d.pend
         /\ n.mem_addr = d.mem_addr /\ n.mem_wdata = d.mem_wdata
         /\ n.read_req = d.read_req /\ n.write_req = d.write_req
BY DEF Done, Registers

-----------------------------------------------------------------------------
\* Nothing was answered and no line changed.
Rests(k, n) ==
  /\ ~n.ready /\ ~n.write_req
  /\ n.rdata = k.rdata /\ n.reserved = k.reserved /\ n.reservation = k.reservation
  /\ n.tag = k.tag /\ n.msi = k.msi /\ n.data = k.data

\* The request is over.
Answers(n) == n.state = "IDLE" /\ n.ready /\ n.req = NoReq /\ ~n.read_req

\* A word of a way is stored, and written through.
Stores(k, n, way) ==
  LET addr == k.req.addr IN
  /\ n.data[way][addr.word] = k.req.val
  /\ n.msi[way] = "M" /\ \A w \in Way \ {way} : n.msi[w] = k.msi[w] /\ n.data[w] = k.data[w]
  /\ n.write_req /\ n.mem_addr = addr /\ n.mem_wdata = k.req.val

\* In what follows q is the request and p the snoop the edge latches.
\* From IDLE: a snoop is taken up first, then a request.
FromIdle(k, n, q, p) ==
  /\ Rests(k, n) /\ ~n.read_req /\ n.req = q
  /\ \/ k.pend.on /\ k.pend.write /\ n.state = "SNOOP_INV" /\ n.pend = p
     \/ k.pend.on /\ ~k.pend.write /\ k.pend.msi = "M" /\ n.state = "SNOOP_WB" /\ n.wb_cnt = 0
        /\ n.pend = p
     \/ k.pend.on /\ ~k.pend.write /\ k.pend.msi # "M" /\ n.state = "IDLE"
        /\ n.pend = [p EXCEPT !.on = FALSE]
     \/ ~k.pend.on /\ k.req # NoReq /\ n.state = "CHECK" /\ n.pend = p
     \/ ~k.pend.on /\ k.req = NoReq /\ n.state = "IDLE" /\ n.pend = p

FromCheck(k, n, p) ==
  LET addr == k.req.addr
      way  == HitWay(k, addr.line)
      kept == k.reserved /\ k.reservation = addr
  IN  /\ n.pend = p /\ n.tag = k.tag
      /\ \/ /\ k.req.op \in {"sw", "sc"} /\ Hits(k, addr.line) # {} /\ (k.req.op = "sc" => kept)
            /\ Answers(n) /\ Stores(k, n, way)
            /\ n.rdata = (IF k.req.op = "sc" THEN 0 ELSE k.rdata)
         \/ /\ k.req.op = "sc" /\ ~(Hits(k, addr.line) # {} /\ kept)
            /\ Answers(n) /\ n.rdata = 1 /\ ~n.write_req /\ n.msi = k.msi /\ n.data = k.data
         \/ /\ k.req.op \in {"lw", "lr"} /\ Hits(k, addr.line) # {}
            /\ Answers(n) /\ n.rdata = k.data[way][addr.word] /\ ~n.write_req
            /\ n.msi = k.msi /\ n.data = k.data
            /\ k.req.op = "lr" => n.reserved /\ n.reservation = addr
         \/ /\ k.req.op \in {"sw", "lw", "lr"} /\ Hits(k, addr.line) = {}
            /\ Rests(k, n) /\ n.state = "WAITM_RD" /\ n.req = k.req /\ n.read_req
            /\ n.fill_cnt = 0 /\ n.mem_addr = [addr EXCEPT !.word = 0]
            /\ n.pending_write = (k.req.op = "sw")

\* One word more, or the last one: the line is there.
FromRefill(c, k, n, p) ==
  LET addr == k.req.addr
      way  == k.fill_way
  IN  /\ n.pend = p
      /\ \/ /\ ~read_ack(c)
            /\ Rests(k, n) /\ n.state = "WAITM_RD" /\ n.req = k.req /\ n.read_req
            /\ n.fill_cnt = k.fill_cnt /\ n.fill_way = way /\ n.mem_addr = k.mem_addr
            /\ n.pending_write = k.pending_write
         \/ /\ read_ack(c) /\ k.fill_cnt # WORDS - 1
            /\ n.state = "WAITM_RD" /\ n.req = k.req /\ n.read_req /\ ~n.ready /\ ~n.write_req
            /\ n.rdata = k.rdata /\ n.tag = k.tag /\ n.msi = k.msi
            /\ n.reserved = k.reserved /\ n.reservation = k.reservation
            /\ n.data = [k.data EXCEPT ![way][k.fill_cnt] = rdata]
            /\ n.fill_cnt = k.fill_cnt + 1 /\ n.fill_way = way
            /\ n.mem_addr = [addr EXCEPT !.word = k.fill_cnt + 1]
            /\ n.pending_write = k.pending_write
         \/ /\ read_ack(c) /\ k.fill_cnt = WORDS - 1 /\ Answers(n)
            /\ n.tag = [k.tag EXCEPT ![way] = addr.line]
            /\ \A w \in Way \ {way} : n.msi[w] = k.msi[w] /\ n.data[w] = k.data[w]
            /\ \/ /\ k.pending_write /\ n.msi[way] = "M" /\ n.rdata = k.rdata
                  /\ n.write_req /\ n.mem_addr = addr /\ n.mem_wdata = k.req.val
               \/ /\ ~k.pending_write /\ n.msi[way] = "S" /\ ~n.write_req
                  /\ n.rdata = k.data[way][addr.word]
                  /\ n.data[way] = [k.data[way] EXCEPT ![WORDS - 1] = rdata]
                  /\ k.req.op = "lr" => n.reserved /\ n.reservation = addr

FromSnoopWb(c, k, n, q, p) ==
  /\ ~n.ready /\ ~n.read_req /\ n.req = q
  /\ n.rdata = k.rdata /\ n.tag = k.tag /\ n.data = k.data
  /\ \/ /\ k.write_req /\ ~write_ack(c)
        /\ Rests(k, n) /\ n.state = "SNOOP_WB" /\ n.pend = p /\ n.wb_cnt = k.wb_cnt
     \/ /\ ~(k.write_req /\ ~write_ack(c)) /\ k.wb_cnt = WORDS - 1
        /\ n.state = "IDLE" /\ ~n.write_req
        /\ n.reserved = k.reserved /\ n.reservation = k.reservation
        /\ n.msi = [k.msi EXCEPT ![k.pend.way] = "S"] /\ n.pend = [p EXCEPT !.on = FALSE]
     \/ /\ ~(k.write_req /\ ~write_ack(c)) /\ k.wb_cnt # WORDS - 1
        /\ n.state = "SNOOP_WB" /\ n.pend = p /\ n.msi = k.msi
        /\ n.reserved = k.reserved /\ n.reservation = k.reservation
        /\ n.wb_cnt = k.wb_cnt + 1 /\ n.write_req
        /\ n.mem_addr = [line |-> k.tag[k.pend.way], word |-> k.wb_cnt + 1]
        /\ n.mem_wdata = k.data[k.pend.way][k.wb_cnt + 1]

FromSnoopInv(k, n, q, p) ==
  /\ ~n.ready /\ ~n.read_req /\ ~n.write_req /\ n.state = "IDLE" /\ n.req = q
  /\ n.rdata = k.rdata /\ n.tag = k.tag /\ n.data = k.data
  /\ n.msi = [k.msi EXCEPT ![k.pend.way] = "I"] /\ n.pend = [p EXCEPT !.on = FALSE]

Moves(c, k, n, q, p) ==
  /\ k.state = "IDLE" => FromIdle(k, n, q, p)
  /\ k.state = "CHECK" => FromCheck(k, n, p)
  /\ k.state = "WAITM_RD" => FromRefill(c, k, n, p)
  /\ k.state = "SNOOP_WB" => FromSnoopWb(c, k, n, q, p)
  /\ k.state = "SNOOP_INV" => FromSnoopInv(k, n, q, p)

-----------------------------------------------------------------------------
LEMMA CaptureType ==
  ASSUME NEW c \in Core, NEW k, CacheOK(k), CacheOK(l1[1 - c])
  PROVE  Capture(c, k) \in Snoops
BY HitFacts DEF Capture, CacheOK, LinesOK, BusOK, Snoops, snooped

LEMMA IdleMoves ==
  ASSUME NEW k, NEW d, CacheOK(k), CacheOK(d), Defaulted(k, d), k.state = "IDLE"
  PROVE  LET n == Idle(k, d) IN CacheOK(n) /\ FromIdle(k, n, d.req, d.pend)
<1> DEFINE n == Idle(k, d)
<1>1. CASE k.pend.on /\ k.pend.write
  <2>1. n = [d EXCEPT !.state = "SNOOP_INV"]
    BY <1>1 DEF Idle
  <2> HIDE DEF n
  <2>2. CacheOK(n)
    BY <2>1 DEF CacheOK, ControlOK, LinesOK, BusOK, Registers, States
  <2>3. FromIdle(k, n, d.req, d.pend)
    BY <1>1, <2>1 DEF FromIdle, Rests, Defaulted, Registers
  <2> QED
    BY <2>2, <2>3 DEF n
<1>2. CASE k.pend.on /\ ~k.pend.write /\ k.pend.msi = "M"
  <2>1. n = [d EXCEPT !.state = "SNOOP_WB", !.wb_cnt = 0]
    BY <1>2 DEF Idle
  <2> HIDE DEF n
  <2>2. CacheOK(n)
    BY <2>1, Zero DEF CacheOK, ControlOK, LinesOK, BusOK, Registers, States
  <2>3. FromIdle(k, n, d.req, d.pend)
    BY <1>2, <2>1 DEF FromIdle, Rests, Defaulted, Registers
  <2> QED
    BY <2>2, <2>3 DEF n
<1>3. CASE k.pend.on /\ ~k.pend.write /\ k.pend.msi # "M"
  <2>1. n = [d EXCEPT !.pend.on = FALSE]
    BY <1>3 DEF Idle
  <2> HIDE DEF n
  <2>2. CacheOK(n) /\ n.pend = [d.pend EXCEPT !.on = FALSE]
    BY <2>1 DEF CacheOK, ControlOK, LinesOK, BusOK, Registers, Snoops
  <2>3. FromIdle(k, n, d.req, d.pend)
    BY <1>3, <2>1, <2>2 DEF FromIdle, Rests, Defaulted, Registers
  <2> QED
    BY <2>2, <2>3 DEF n
<1>4. CASE ~k.pend.on /\ k.req # NoReq
  <2>1. n = [d EXCEPT !.state = "CHECK"]
    BY <1>4 DEF Idle
  <2> HIDE DEF n
  <2>2. CacheOK(n)
    BY <2>1 DEF CacheOK, ControlOK, LinesOK, BusOK, Registers, States
  <2>3. FromIdle(k, n, d.req, d.pend)
    BY <1>4, <2>1 DEF FromIdle, Rests, Defaulted, Registers
  <2> QED
    BY <2>2, <2>3 DEF n
<1>5. CASE ~k.pend.on /\ k.req = NoReq
  <2>1. n = d
    BY <1>5 DEF Idle
  <2> HIDE DEF n
  <2>2. FromIdle(k, n, d.req, d.pend)
    BY <1>5, <2>1 DEF FromIdle, Rests, Defaulted, Registers
  <2> QED
    BY <2>1, <2>2 DEF n
<1> QED
  BY <1>1, <1>2, <1>3, <1>4, <1>5

\* A store into a way, and what is left of the cache.
LEMMA StoresIs ==
  ASSUME NEW k, NEW d, CacheOK(k), CacheOK(d), NEW way \in Way, k.req \in Requests, k.req # NoReq,
         d.msi = k.msi, d.data = k.data, ~d.read_req
  PROVE  LET n == Done(WriteThrough(d, way, k.req.addr, k.req.val)) IN
         /\ CacheOK(n) /\ Answers(n) /\ Stores(k, n, way)
         /\ n.pend = d.pend /\ n.tag = d.tag /\ n.rdata = d.rdata
<1> DEFINE m == WriteThrough(d, way, k.req.addr, k.req.val)
           n == Done(m)
<1>1. DOMAIN d = Registers
  BY DEF CacheOK, ControlOK
<1>2. k.req.addr \in Addr /\ k.req.val \in Int /\ k.req.addr.word \in Word
  BY RequestIs DEF Addr
<1>3. CacheOK(m) /\ ~m.read_req /\ Stores(k, m, way)
  <2>1. /\ DOMAIN m = Registers
        /\ m.data = [d.data EXCEPT ![way][k.req.addr.word] = k.req.val] /\ m.msi = [d.msi EXCEPT ![way] = "M"]
        /\ m.mem_addr = k.req.addr /\ m.mem_wdata = k.req.val /\ m.write_req
    BY <1>1 DEF WriteThrough, Registers
  <2>2. /\ m.state = d.state /\ m.req = d.req /\ m.rdata = d.rdata /\ m.ready = d.ready
        /\ m.tag = d.tag /\ m.fill_cnt = d.fill_cnt /\ m.fill_way = d.fill_way
        /\ m.last_way = d.last_way /\ m.pending_write = d.pending_write
        /\ m.reserved = d.reserved /\ m.reservation = d.reservation /\ m.wb_cnt = d.wb_cnt
        /\ m.pend = d.pend /\ m.read_req = d.read_req /\ m.write_req \in BOOLEAN
    BY <1>1 DEF WriteThrough, Registers
  <2> HIDE DEF m
  <2>3. m.data \in [Way -> [Word -> Int]] /\ m.msi \in [Way -> Msi]
    BY <1>2, <2>1 DEF CacheOK, LinesOK, Msi
  <2>4. CacheOK(m)
    BY <1>2, <2>1, <2>2, <2>3 DEF CacheOK, ControlOK, LinesOK, BusOK
  <2>5. Stores(k, m, way)
    BY <1>2, <2>1 DEF Stores, CacheOK, LinesOK
  <2> QED
    BY <2>2, <2>4, <2>5
<1>4. m.pend = d.pend /\ m.tag = d.tag /\ m.rdata = d.rdata /\ DOMAIN m = Registers
  BY <1>1 DEF WriteThrough, Registers
<1> HIDE DEF m
<1>5. /\ DOMAIN n = Registers
      /\ n.ready /\ n.req = NoReq /\ n.state = "IDLE"
      /\ n.rdata = m.rdata /\ n.tag = m.tag /\ n.msi = m.msi /\ n.data = m.data
      /\ n.fill_cnt = m.fill_cnt /\ n.fill_way = m.fill_way /\ n.last_way = m.last_way
      /\ n.pending_write = m.pending_write /\ n.reserved = m.reserved
      /\ n.reservation = m.reservation /\ n.wb_cnt = m.wb_cnt /\ n.pend = m.pend
      /\ n.mem_addr = m.mem_addr /\ n.mem_wdata = m.mem_wdata
      /\ n.read_req = m.read_req /\ n.write_req = m.write_req
  BY <1>4, DoneIs
<1>6. n.ready \in BOOLEAN
  BY <1>4 DEF Done, Registers
<1> HIDE DEF n
<1>7. CacheOK(n)
  BY <1>3, <1>5, <1>6 DEF CacheOK, ControlOK, LinesOK, BusOK, States, Requests
<1>8. Answers(n) /\ Stores(k, n, way)
  BY <1>3, <1>5 DEF Answers, Stores
<1>9. n.pend = d.pend /\ n.tag = d.tag /\ n.rdata = d.rdata
  BY <1>4, <1>5
<1> QED
  BY <1>7, <1>8, <1>9 DEF n, m

\* An answer without a store.
LEMMA DoneOK ==
  ASSUME NEW d, CacheOK(d), ~d.read_req
  PROVE  LET n == Done(d) IN
         /\ CacheOK(n) /\ Answers(n)
         /\ n.pend = d.pend /\ n.tag = d.tag /\ n.rdata = d.rdata /\ n.msi = d.msi /\ n.data = d.data
         /\ n.write_req = d.write_req /\ n.reserved = d.reserved /\ n.reservation = d.reservation
<1> DEFINE n == Done(d)
<1>1. DOMAIN d = Registers
  BY DEF CacheOK, ControlOK
<1>2. /\ DOMAIN n = Registers
      /\ n.ready /\ n.req = NoReq /\ n.state = "IDLE"
      /\ n.rdata = d.rdata /\ n.tag = d.tag /\ n.msi = d.msi /\ n.data = d.data
      /\ n.fill_cnt = d.fill_cnt /\ n.fill_way = d.fill_way /\ n.last_way = d.last_way
      /\ n.pending_write = d.pending_write /\ n.reserved = d.reserved
      /\ n.reservation = d.reservation /\ n.wb_cnt = d.wb_cnt /\ n.pend = d.pend
      /\ n.mem_addr = d.mem_addr /\ n.mem_wdata = d.mem_wdata
      /\ n.read_req = d.read_req /\ n.write_req = d.write_req
  BY <1>1, DoneIs
<1>3. n.ready \in BOOLEAN
  BY <1>1 DEF Done, Registers
<1> HIDE DEF n
<1>4. CacheOK(n)
  BY <1>2, <1>3 DEF CacheOK, ControlOK, LinesOK, BusOK, States, Requests
<1> QED
  BY <1>2, <1>4 DEF Answers, n

LEMMA CheckMoves ==
  ASSUME NEW k, NEW d, CacheOK(k), CacheOK(d), Defaulted(k, d), k.req # NoReq, d.req = k.req
  PROVE  LET n == Check(k, d) IN CacheOK(n) /\ FromCheck(k, n, d.pend)
<1> DEFINE n == Check(k, d)
           addr == k.req.addr
           way  == HitWay(k, addr.line)
           hit  == Hits(k, addr.line) # {}
           kept == k.reserved /\ k.reservation = addr
<1>1. k.req \in Requests /\ k.req.op \in Ops /\ addr \in Addr /\ addr.word \in Word /\ addr.line \in Lines
  BY RequestIs DEF CacheOK, ControlOK, Addr
<1>2. way \in Way
  BY HitFacts
<1>3. ~d.read_req /\ d.msi = k.msi /\ d.data = k.data /\ d.tag = k.tag /\ d.rdata = k.rdata /\ ~d.write_req
  BY DEF Defaulted
<1>4. k.data[way][addr.word] \in Int
  BY <1>1, <1>2 DEF CacheOK, LinesOK
<1> HIDE DEF way
<1>5. CASE k.req.op = "sc" /\ hit /\ kept
  <2> DEFINE m == Done(WriteThrough(d, way, addr, k.req.val))
  <2>1. n = [m EXCEPT !.reserved = FALSE, !.rdata = 0]
    BY <1>5 DEF Check, way
  <2>2. CacheOK(m) /\ Answers(m) /\ Stores(k, m, way) /\ m.pend = d.pend /\ m.tag = d.tag
    BY <1>1, <1>2, <1>3, StoresIs
  <2> HIDE DEF n, m
  <2>3. CacheOK(n)
    BY <2>1, <2>2 DEF CacheOK, ControlOK, LinesOK, BusOK, Registers
  <2>4. Answers(n) /\ Stores(k, n, way) /\ n.pend = d.pend /\ n.tag = k.tag /\ n.rdata = 0
    BY <1>3, <2>1, <2>2 DEF CacheOK, ControlOK, Registers, Answers, Stores
  <2>5. FromCheck(k, n, d.pend)
    BY <1>5, <2>4 DEF FromCheck, way
  <2> QED
    BY <2>3, <2>5 DEF n
<1>6. CASE k.req.op = "sc" /\ ~(hit /\ kept)
  <2> DEFINE m == Done(d)
  <2>1. n = [m EXCEPT !.reserved = FALSE, !.rdata = 1]
    BY <1>6 DEF Check, way
  <2>2. /\ CacheOK(m) /\ Answers(m) /\ m.pend = d.pend /\ m.tag = d.tag /\ m.msi = d.msi /\ m.data = d.data
        /\ m.write_req = d.write_req
    BY <1>3, DoneOK
  <2> HIDE DEF n, m
  <2>3. CacheOK(n)
    BY <2>1, <2>2 DEF CacheOK, ControlOK, LinesOK, BusOK, Registers
  <2>4. Answers(n) /\ n.pend = d.pend /\ n.tag = k.tag /\ n.rdata = 1 /\ n.msi = k.msi /\ n.data = k.data /\ ~n.write_req
    BY <1>3, <2>1, <2>2 DEF CacheOK, ControlOK, Registers, Answers
  <2>5. FromCheck(k, n, d.pend)
    BY <1>6, <2>4 DEF FromCheck
  <2> QED
    BY <2>3, <2>5 DEF n
<1>7. CASE k.req.op = "sw" /\ hit
  <2> DEFINE m == Done(WriteThrough(d, way, addr, k.req.val))
  <2>1. n = [m EXCEPT !.reserved = FALSE]
    BY <1>7 DEF Check, way
  <2>2. CacheOK(m) /\ Answers(m) /\ Stores(k, m, way) /\ m.pend = d.pend /\ m.tag = d.tag /\ m.rdata = d.rdata
    BY <1>1, <1>2, <1>3, StoresIs
  <2> HIDE DEF n, m
  <2>3. CacheOK(n)
    BY <2>1, <2>2 DEF CacheOK, ControlOK, LinesOK, BusOK, Registers
  <2>4. Answers(n) /\ Stores(k, n, way) /\ n.pend = d.pend /\ n.tag = k.tag /\ n.rdata = k.rdata
    BY <1>3, <2>1, <2>2 DEF CacheOK, ControlOK, Registers, Answers, Stores
  <2>5. FromCheck(k, n, d.pend)
    BY <1>7, <2>4 DEF FromCheck, way
  <2> QED
    BY <2>3, <2>5 DEF n
<1>8. CASE k.req.op \in {"lw", "lr"} /\ hit
  <2> DEFINE m == Done(d)
             res == k.reserved \/ k.req.op = "lr"
             rsv == IF k.req.op = "lr" THEN addr ELSE m.reservation
  <2>1. n = [m EXCEPT !.rdata = k.data[way][addr.word], !.reserved = res, !.reservation = rsv]
    BY <1>8 DEF Check, way
  <2>2. /\ CacheOK(m) /\ Answers(m) /\ m.pend = d.pend /\ m.tag = d.tag /\ m.msi = d.msi /\ m.data = d.data
        /\ m.write_req = d.write_req
    BY <1>3, DoneOK
  <2>3. res \in BOOLEAN /\ rsv \in Addr /\ (k.req.op = "lr" => res /\ rsv = addr)
    BY <1>1, <2>2 DEF CacheOK, BusOK
  <2> HIDE DEF n, m, res, rsv
  <2>4. CacheOK(n)
    BY <1>4, <2>1, <2>2, <2>3 DEF CacheOK, ControlOK, LinesOK, BusOK, Registers
  <2>5. /\ Answers(n) /\ n.pend = d.pend /\ n.tag = k.tag /\ n.msi = k.msi /\ n.data = k.data /\ ~n.write_req
        /\ n.rdata = k.data[way][addr.word] /\ n.reserved = res /\ n.reservation = rsv
    BY <1>3, <2>1, <2>2 DEF CacheOK, ControlOK, Registers, Answers
  <2>6. FromCheck(k, n, d.pend)
    BY <1>8, <2>3, <2>5 DEF FromCheck, way
  <2> QED
    BY <2>4, <2>6 DEF n
<1>9. CASE k.req.op \in {"sw", "lw", "lr"} /\ ~hit
  <2> DEFINE first == [addr EXCEPT !.word = 0]
             pw == k.req.op = "sw"
  <2>1. n = [d EXCEPT !.state = "WAITM_RD", !.fill_cnt = 0, !.fill_way = pick_way(k),
                      !.mem_addr = first, !.read_req = TRUE, !.pending_write = pw]
    BY <1>9 DEF Check, StartRefill
  <2>2. first \in Addr /\ pw \in BOOLEAN
    BY <1>1, Zero DEF Addr
  <2>3. pick_way(k) \in Way
    BY DEF pick_way, Way, CacheOK, LinesOK
  <2> HIDE DEF n, first, pw
  <2>4. CacheOK(n)
    BY <2>1, <2>2, <2>3, Zero DEF CacheOK, ControlOK, LinesOK, BusOK, Registers, States
  <2>5. /\ n.pend = d.pend /\ Rests(k, n) /\ n.state = "WAITM_RD" /\ n.read_req
        /\ n.fill_cnt = 0 /\ n.mem_addr = first /\ n.pending_write = pw /\ n.req = d.req
    BY <2>1 DEF Rests, Defaulted, Registers
  <2>6. FromCheck(k, n, d.pend)
    BY <1>3, <1>9, <2>5 DEF FromCheck, Rests, first, pw
  <2> QED
    BY <2>4, <2>6 DEF n
<1> QED
  BY <1>1, <1>5, <1>6, <1>7, <1>8, <1>9 DEF Ops

LEMMA RefillMoves ==
  ASSUME NEW c \in Core, NEW k, NEW d, CacheOK(k), CacheOK(d), Defaulted(k, d), k.req # NoReq,
         d.req = k.req, k.state = "WAITM_RD", rdata \in Int
  PROVE  LET n == Refill(c, k, d) IN CacheOK(n) /\ FromRefill(c, k, n, d.pend)
<1> DEFINE n == Refill(c, k, d)
           addr == k.req.addr
           way  == k.fill_way
<1>1. /\ k.req \in Requests /\ k.req.op \in Ops /\ addr \in Addr /\ addr.word \in Word /\ addr.line \in Lines
      /\ way \in Way /\ k.fill_cnt \in Word /\ k.req.val \in Int
  BY RequestIs DEF CacheOK, ControlOK, LinesOK, Addr
<1>2. CASE ~read_ack(c)
  <2>1. n = [d EXCEPT !.read_req = TRUE]
    BY <1>2 DEF Refill
  <2> HIDE DEF n
  <2>2. CacheOK(n)
    BY <2>1 DEF CacheOK, ControlOK, LinesOK, BusOK, Registers
  <2>3. FromRefill(c, k, n, d.pend)
    BY <1>2, <2>1 DEF FromRefill, Rests, Defaulted, Registers
  <2> QED
    BY <2>2, <2>3 DEF n
<1>3. CASE read_ack(c) /\ k.fill_cnt # WORDS - 1
  <2> DEFINE next == [addr EXCEPT !.word = k.fill_cnt + 1]
             cnt  == k.fill_cnt + 1
  <2>1. n = [d EXCEPT !.read_req = TRUE, !.data[way][k.fill_cnt] = rdata, !.fill_cnt = cnt, !.mem_addr = next]
    BY <1>3 DEF Refill
  <2>2. cnt \in Word
    BY <1>1, <1>3, LineAssumption DEF Word
  <2>3. next \in Addr
    BY <1>1, <2>2 DEF Addr
  <2> HIDE DEF n, next, cnt
  <2>4. n.data = [k.data EXCEPT ![way][k.fill_cnt] = rdata] /\ n.data \in [Way -> [Word -> Int]]
    BY <1>1, <2>1 DEF CacheOK, ControlOK, LinesOK, Registers, Defaulted
  <2>5. CacheOK(n)
    BY <2>1, <2>2, <2>3, <2>4 DEF CacheOK, ControlOK, LinesOK, BusOK, Registers
  <2>6. /\ n.pend = d.pend /\ n.state = "WAITM_RD" /\ n.req = k.req /\ n.read_req /\ ~n.ready /\ ~n.write_req
        /\ n.rdata = k.rdata /\ n.tag = k.tag /\ n.msi = k.msi
        /\ n.reserved = k.reserved /\ n.reservation = k.reservation
        /\ n.fill_cnt = cnt /\ n.fill_way = way /\ n.mem_addr = next
        /\ n.pending_write = k.pending_write
    BY <2>1 DEF Registers, Defaulted
  <2>7. FromRefill(c, k, n, d.pend)
    BY <1>3, <2>4, <2>6 DEF FromRefill, next, cnt
  <2> QED
    BY <2>5, <2>7 DEF n
<1>4. CASE read_ack(c) /\ k.fill_cnt = WORDS - 1
  <2> DEFINE line == [d EXCEPT !.tag[way] = addr.line, !.msi[way] = "S", !.last_way = way,
                               !.data[way][WORDS - 1] = rdata, !.pending_write = FALSE]
  <2>1. n = IF k.pending_write THEN Done(WriteThrough(line, way, addr, k.req.val))
            ELSE [Done(line) EXCEPT !.rdata = k.data[way][addr.word],
                                    !.reserved = k.reserved \/ k.req.op = "lr",
                                    !.reservation = IF k.req.op = "lr" THEN addr ELSE @]
    BY <1>4 DEF Refill, Filled
  <2>2. /\ line.tag = [k.tag EXCEPT ![way] = addr.line] /\ line.msi = [k.msi EXCEPT ![way] = "S"]
        /\ line.data = [k.data EXCEPT ![way][WORDS - 1] = rdata]
        /\ line.last_way = way /\ line.pending_write = FALSE
    BY DEF CacheOK, ControlOK, Registers, Defaulted
  <2>3. /\ DOMAIN line = Registers
        /\ line.state = d.state /\ line.req = d.req /\ line.rdata = d.rdata /\ line.ready = d.ready
        /\ line.fill_cnt = d.fill_cnt /\ line.fill_way = d.fill_way
        /\ line.reserved = d.reserved /\ line.reservation = d.reservation /\ line.wb_cnt = d.wb_cnt
        /\ line.pend = d.pend /\ line.read_req = d.read_req /\ line.write_req = d.write_req
        /\ line.mem_addr = d.mem_addr /\ line.mem_wdata = d.mem_wdata
    BY DEF CacheOK, ControlOK, Registers
  <2> HIDE DEF n, line
  <2>4. /\ line.tag \in [Way -> Lines] /\ line.msi \in [Way -> Msi] /\ line.data \in [Way -> [Word -> Int]]
    BY <1>1, <2>2, Zero DEF CacheOK, LinesOK, Msi
  <2>5. CacheOK(line)
    BY <1>1, <2>2, <2>3, <2>4 DEF CacheOK, ControlOK, LinesOK, BusOK
  <2>6. ~line.read_req /\ ~line.write_req /\ line.rdata = k.rdata
    BY <2>3 DEF Defaulted
  <2>7. /\ line.msi[way] = "S" /\ line.data[way] = [k.data[way] EXCEPT ![WORDS - 1] = rdata]
        /\ \A w \in Way \ {way} : line.msi[w] = k.msi[w] /\ line.data[w] = k.data[w]
    BY <1>1, <2>2 DEF CacheOK, LinesOK
  <2>8. CASE k.pending_write
    <3> DEFINE kk == [line EXCEPT !.req = k.req]
    <3>1. CacheOK(n) /\ Answers(n) /\ Stores([line EXCEPT !.req = k.req], n, way) /\ n.pend = line.pend /\ n.tag = line.tag /\ n.rdata = line.rdata
      <4> DEFINE m == [line EXCEPT !.req = k.req]
      <4>1. CacheOK(m) /\ m.req = k.req /\ m.msi = line.msi /\ m.data = line.data
        BY <1>1, <2>5 DEF CacheOK, ControlOK, LinesOK, BusOK, Registers
      <4>2. n = Done(WriteThrough(line, way, m.req.addr, m.req.val))
        BY <2>1, <2>8, <4>1
      <4> HIDE DEF m
      <4>3. /\ CacheOK(n) /\ Answers(n) /\ Stores(m, n, way)
            /\ n.pend = line.pend /\ n.tag = line.tag /\ n.rdata = line.rdata
        BY <1>1, <2>5, <2>6, <4>1, <4>2, StoresIs
      <4> QED
        BY <4>3 DEF m
    <3>2. /\ n.msi[way] = "M" /\ n.write_req /\ n.mem_addr = addr /\ n.mem_wdata = k.req.val
          /\ \A w \in Way \ {way} : n.msi[w] = line.msi[w] /\ n.data[w] = line.data[w]
      BY <2>3, <3>1 DEF Stores, CacheOK, ControlOK, Registers
    <3>3. FromRefill(c, k, n, d.pend)
      BY <1>4, <2>2, <2>3, <2>6, <2>7, <2>8, <3>1, <3>2 DEF FromRefill
    <3> QED
      BY <3>1, <3>3 DEF n
  <2>9. CASE ~k.pending_write
    <3> DEFINE m == Done(line)
               res == k.reserved \/ k.req.op = "lr"
               rsv == IF k.req.op = "lr" THEN addr ELSE m.reservation
               val == k.data[way][addr.word]
    <3>1. n = [m EXCEPT !.rdata = val, !.reserved = res, !.reservation = rsv]
      BY <2>1, <2>9
    <3>2. /\ CacheOK(m) /\ Answers(m) /\ m.pend = line.pend /\ m.tag = line.tag /\ m.msi = line.msi /\ m.data = line.data
          /\ m.write_req = line.write_req
      BY <2>5, <2>6, DoneOK
    <3>3. res \in BOOLEAN /\ rsv \in Addr /\ (k.req.op = "lr" => res /\ rsv = addr) /\ val \in Int
      BY <1>1, <3>2 DEF CacheOK, BusOK, LinesOK
    <3> HIDE DEF m, res, rsv, val
    <3>4. CacheOK(n)
      BY <3>1, <3>2, <3>3 DEF CacheOK, ControlOK, LinesOK, BusOK, Registers
    <3>5. /\ Answers(n) /\ n.pend = d.pend /\ n.tag = line.tag /\ n.msi = line.msi /\ n.data = line.data
          /\ ~n.write_req /\ n.rdata = val /\ n.reserved = res /\ n.reservation = rsv
      BY <2>3, <2>6, <3>1, <3>2 DEF CacheOK, ControlOK, Registers, Answers
    <3>6. FromRefill(c, k, n, d.pend)
      BY <1>4, <2>2, <2>7, <2>9, <3>3, <3>5 DEF FromRefill, val
    <3> QED
      BY <3>4, <3>6 DEF n
  <2> QED
    BY <2>8, <2>9
<1> QED
  BY <1>2, <1>3, <1>4

LEMMA SnoopWbMoves ==
  ASSUME NEW c \in Core, NEW k, NEW d, CacheOK(k), CacheOK(d), Defaulted(k, d), k.state = "SNOOP_WB"
  PROVE  LET n == SnoopWb(c, k, d) IN CacheOK(n) /\ FromSnoopWb(c, k, n, d.req, d.pend)
<1> DEFINE n == SnoopWb(c, k, d)
           way == k.pend.way
<1>1. way \in Way /\ k.wb_cnt \in Word
  BY DEF CacheOK, BusOK, Snoops
<1>2. CASE k.write_req /\ ~write_ack(c)
  <2>1. n = d
    BY <1>2 DEF SnoopWb
  <2> HIDE DEF n
  <2>2. FromSnoopWb(c, k, n, d.req, d.pend)
    BY <1>2, <2>1 DEF FromSnoopWb, Rests, Defaulted
  <2> QED
    BY <2>1, <2>2 DEF n
<1>3. CASE ~(k.write_req /\ ~write_ack(c)) /\ k.wb_cnt = WORDS - 1
  <2>1. n = [d EXCEPT !.msi[way] = "S", !.pend.on = FALSE, !.state = "IDLE"]
    BY <1>3 DEF SnoopWb
  <2> HIDE DEF n
  <2>2. n.msi = [k.msi EXCEPT ![way] = "S"] /\ n.pend = [d.pend EXCEPT !.on = FALSE] /\ n.state = "IDLE"
    BY <2>1 DEF CacheOK, ControlOK, Registers, Defaulted
  <2>3. n.msi \in [Way -> Msi] /\ n.pend \in Snoops
    <3>1. k.msi \in [Way -> Msi] /\ d.pend \in Snoops
      BY DEF CacheOK, LinesOK, BusOK
    <3>2. "S" \in Msi /\ FALSE \in BOOLEAN
      BY DEF Msi
    <3>3. n.msi \in [Way -> Msi]
      BY <1>1, <2>2, <3>1, <3>2
    <3>4. n.pend \in Snoops
      BY <2>2, <3>1, <3>2 DEF Snoops
    <3> QED
      BY <3>3, <3>4
  <2>4. CacheOK(n)
    BY <2>1, <2>2, <2>3 DEF CacheOK, ControlOK, LinesOK, BusOK, Registers, States
  <2>5. /\ ~n.ready /\ ~n.read_req /\ ~n.write_req /\ n.req = d.req
        /\ n.rdata = k.rdata /\ n.tag = k.tag /\ n.data = k.data
        /\ n.reserved = k.reserved /\ n.reservation = k.reservation
    BY <2>1 DEF CacheOK, ControlOK, Registers, Defaulted
  <2>6. FromSnoopWb(c, k, n, d.req, d.pend)
    BY <1>3, <2>2, <2>5 DEF FromSnoopWb
  <2> QED
    BY <2>4, <2>6 DEF n
<1>4. CASE ~(k.write_req /\ ~write_ack(c)) /\ k.wb_cnt # WORDS - 1
  <2> DEFINE cnt == k.wb_cnt + 1
             addr == [line |-> k.tag[way], word |-> cnt]
             val == k.data[way][cnt]
  <2>1. n = [d EXCEPT !.wb_cnt = cnt, !.write_req = TRUE, !.mem_addr = addr, !.mem_wdata = val]
    BY <1>4 DEF SnoopWb
  <2>2. cnt \in Word
    BY <1>1, <1>4, LineAssumption DEF Word
  <2>3. addr \in Addr /\ val \in Int
    BY <1>1, <2>2 DEF Addr, CacheOK, LinesOK
  <2> HIDE DEF n, cnt, addr, val
  <2>4. CacheOK(n)
    BY <2>1, <2>2, <2>3 DEF CacheOK, ControlOK, LinesOK, BusOK, Registers
  <2>5. /\ ~n.ready /\ ~n.read_req /\ n.write_req /\ n.req = d.req /\ n.state = "SNOOP_WB"
        /\ n.rdata = k.rdata /\ n.tag = k.tag /\ n.data = k.data /\ n.msi = k.msi /\ n.pend = d.pend
        /\ n.wb_cnt = cnt /\ n.mem_addr = addr /\ n.mem_wdata = val
        /\ n.reserved = k.reserved /\ n.reservation = k.reservation
    BY <2>1 DEF CacheOK, ControlOK, Registers, Defaulted
  <2>6. FromSnoopWb(c, k, n, d.req, d.pend)
    BY <1>4, <2>5 DEF FromSnoopWb, cnt, addr, val
  <2> QED
    BY <2>4, <2>6 DEF n
<1> QED
  BY <1>2, <1>3, <1>4

LEMMA SnoopInvMoves ==
  ASSUME NEW k, NEW d, CacheOK(k), CacheOK(d), Defaulted(k, d)
  PROVE  LET n == SnoopInv(k, d) IN CacheOK(n) /\ FromSnoopInv(k, n, d.req, d.pend)
<1> DEFINE n == SnoopInv(k, d)
           way == k.pend.way
           res == k.reserved /\ k.reservation.line # k.tag[way]
<1>1. way \in Way /\ res \in BOOLEAN
  BY DEF CacheOK, BusOK, Snoops
<1>2. n = [d EXCEPT !.msi[way] = "I", !.pend.on = FALSE, !.state = "IDLE", !.reserved = res]
  BY DEF SnoopInv
<1> HIDE DEF n, res
<1>3. n.msi = [k.msi EXCEPT ![way] = "I"] /\ n.pend = [d.pend EXCEPT !.on = FALSE] /\ n.state = "IDLE"
  BY <1>2 DEF CacheOK, ControlOK, Registers, Defaulted
<1>4. n.msi \in [Way -> Msi] /\ n.pend \in Snoops
  <2>1. k.msi \in [Way -> Msi] /\ d.pend \in Snoops
    BY DEF CacheOK, LinesOK, BusOK
  <2>2. "I" \in Msi /\ FALSE \in BOOLEAN
    BY DEF Msi
  <2>3. n.msi \in [Way -> Msi]
    BY <1>1, <1>3, <2>1, <2>2
  <2>4. n.pend \in Snoops
    BY <1>3, <2>1, <2>2 DEF Snoops
  <2> QED
    BY <2>3, <2>4
<1>5. CacheOK(n)
  BY <1>1, <1>2, <1>3, <1>4 DEF CacheOK, ControlOK, LinesOK, BusOK, Registers, States
<1>6. /\ ~n.ready /\ ~n.read_req /\ ~n.write_req /\ n.req = d.req
      /\ n.rdata = k.rdata /\ n.tag = k.tag /\ n.data = k.data
  BY <1>2 DEF CacheOK, ControlOK, Registers, Defaulted
<1>7. FromSnoopInv(k, n, d.req, d.pend)
  BY <1>3, <1>6 DEF FromSnoopInv
<1> QED
  BY <1>5, <1>7 DEF n

-----------------------------------------------------------------------------
(* A core and its cache.  The request is the core's access from the edge   *)
(* that takes it until the cache answers; while the cache refills it reads *)
(* the word it asks for, and what the memory shows at an acknowledge is    *)
(* that word.                                                              *)
RequestOK(c) ==
  LET k == l1[c] IN
  /\ cpu[c].issued => ~Halted(c)
  /\ k.ready => cpu[c].issued
  /\ ~cpu[c].issued \/ k.ready => k.req = NoReq
  /\ cpu[c].issued /\ ~k.ready =>
       k.req = [op |-> Access(c).op, addr |-> Access(c).addr, val |-> Stored(c)]

RefillOK(c) ==
  LET k == l1[c] IN
  /\ k.state \in {"CHECK", "WAITM_RD"} => k.req # NoReq
  /\ k.state = "WAITM_RD" <=> k.read_req
  /\ k.read_req => /\ ~k.write_req
                   /\ k.mem_addr = [k.req.addr EXCEPT !.word = k.fill_cnt]
                   /\ k.pending_write = (k.req.op = "sw") /\ k.req.op # "sc"
                   /\ Hits(k, k.req.addr.line) = {}
  /\ tog[c] => k.read_req /\ rdata = mem[k.mem_addr]

\* A snoop that waits names a line the cache holds.
SnoopOK(c) ==
  LET k == l1[c] IN
  /\ k.state \in {"SNOOP_WB", "SNOOP_INV"} => k.pend.on
  /\ k.pend.on => k.msi[k.pend.way] # "I"

Shape == \A c \in Core : RequestOK(c) /\ RefillOK(c) /\ SnoopOK(c)

RigInv == TypeOK /\ Shape

LEMMA Others == \A c \in Core : 1 - c \in Core
BY DEF Core

LEMMA AccessType ==
  ASSUME TypeOK, NEW c \in Core, ~Halted(c)
  PROVE  Access(c) \in Accesses /\ Stored(c) \in Int
<1>1. prog[c] \in Seq(Accesses)
  BY ProgramAssumption DEF TypeOK
<1>2. cpu[c].pc \in Nat \ {0} /\ cpu[c].r \in Int
  BY DEF TypeOK, Cpu
<1>3. Len(prog[c]) \in Nat
  BY <1>1
<1>4. cpu[c].pc \in 1..Len(prog[c])
  BY <1>2, <1>3 DEF Halted
<1>5. Access(c) \in Accesses
  BY <1>1, <1>4 DEF Access
<1> QED
  BY <1>2, <1>5 DEF Stored, Accesses

\* While the cache works on a request, the core presents no other.
LEMMA Engaged ==
  ASSUME Shape, NEW c \in Core, l1[c].req # NoReq
  PROVE  cpu[c].issued /\ ~l1[c].ready /\ ~Ready(c)
BY DEF Shape, RequestOK, Ready

LEMMA LatchedType ==
  ASSUME RigInv, NEW c \in Core, NEW i, i => Ready(c)
  PROVE  Latched(c, i, l1[c]) \in Requests
<1>1. l1[c].req \in Requests
  BY DEF RigInv, TypeOK, CacheOK, ControlOK
<1>2. CASE i
  <2>1. Access(c) \in Accesses /\ Stored(c) \in Int
    BY <1>2, AccessType DEF RigInv, Ready
  <2> QED
    BY <1>2, <2>1 DEF Latched, Accesses, Requests, Ops
<1> QED
  BY <1>1, <1>2 DEF Latched

LEMMA Edge ==
  ASSUME RigInv, NEW issue \in [Core -> BOOLEAN], Clock(issue), NEW c \in Core
  PROVE  /\ CacheOK(l1'[c])
         /\ Moves(c, l1[c], l1'[c], Latched(c, issue[c], l1[c]), Capture(c, l1[c]))
<1> DEFINE k == l1[c]
           q == Latched(c, issue[c], k)
           p == Capture(c, k)
           d == Defaults(c, issue[c], k)
           n == l1'[c]
<1>1. n = CacheEdge(c, issue[c]) /\ (issue[c] => Ready(c))
  BY DEF Clock
<1>2. CacheOK(k) /\ CacheOK(l1[1 - c]) /\ rdata \in Int
  BY Others DEF RigInv, TypeOK
<1>3. q \in Requests
  BY <1>1, LatchedType
<1>4. p \in Snoops
  BY <1>2, CaptureType
<1>5. CacheOK(d) /\ Defaulted(k, d) /\ d.req = q /\ d.pend = p
  BY <1>2, <1>3, <1>4, DefaultsAre
<1>6. k.state \in States
  BY <1>2 DEF CacheOK, ControlOK
<1>7. k.state \in {"CHECK", "WAITM_RD"} => k.req # NoReq /\ q = k.req
  <2>1. k.state \in {"CHECK", "WAITM_RD"} => k.req # NoReq
    BY DEF RigInv, Shape, RefillOK
  <2> QED
    BY <1>1, <2>1, Engaged DEF RigInv, Latched
<1> HIDE DEF d, q, p
<1>8. CASE k.state = "IDLE"
  <2>1. n = Idle(k, d)
    BY <1>1, <1>8 DEF CacheEdge, d
  <2>2. CacheOK(n) /\ FromIdle(k, n, d.req, d.pend)
    BY <1>2, <1>5, <1>8, <2>1, IdleMoves
  <2> QED
    BY <1>5, <1>8, <2>2 DEF Moves, q, p
<1>9. CASE k.state = "CHECK"
  <2>1. n = Check(k, d)
    BY <1>1, <1>9 DEF CacheEdge, d
  <2>2. CacheOK(n) /\ FromCheck(k, n, d.pend)
    BY <1>2, <1>5, <1>7, <1>9, <2>1, CheckMoves
  <2> QED
    BY <1>5, <1>9, <2>2 DEF Moves, q, p
<1>10. CASE k.state = "WAITM_RD"
  <2>1. n = Refill(c, k, d)
    BY <1>1, <1>10 DEF CacheEdge, d
  <2>2. CacheOK(n) /\ FromRefill(c, k, n, d.pend)
    BY <1>2, <1>5, <1>7, <1>10, <2>1, RefillMoves
  <2> QED
    BY <1>5, <1>10, <2>2 DEF Moves, q, p
<1>11. CASE k.state = "SNOOP_WB"
  <2>1. n = SnoopWb(c, k, d)
    BY <1>1, <1>11 DEF CacheEdge, d
  <2>2. CacheOK(n) /\ FromSnoopWb(c, k, n, d.req, d.pend)
    BY <1>2, <1>5, <1>11, <2>1, SnoopWbMoves
  <2> QED
    BY <1>5, <1>11, <2>2 DEF Moves, q, p
<1>12. CASE k.state = "SNOOP_INV"
  <2>1. n = SnoopInv(k, d)
    BY <1>1, <1>12 DEF CacheEdge, d
  <2>2. CacheOK(n) /\ FromSnoopInv(k, n, d.req, d.pend)
    BY <1>2, <1>5, <1>12, <2>1, SnoopInvMoves
  <2> QED
    BY <1>5, <1>12, <2>2 DEF Moves, q, p
<1> QED
  BY <1>6, <1>8, <1>9, <1>10, <1>11, <1>12 DEF States

LEMMA RigStarts == Init => RigInv
<1> SUFFICES ASSUME Init PROVE RigInv
  OBVIOUS
<1>1. CacheOK(Reset) /\ Reset.state = "IDLE" /\ Reset.req = NoReq /\ ~Reset.ready /\ ~Reset.read_req
  BY Zero DEF Reset, CacheOK, ControlOK, LinesOK, BusOK, Registers, States, Requests, Msi, NoSnoop, Snoops, Way
<1> HIDE DEF Reset
<1>2. TypeOK
  BY <1>1 DEF Init, TypeOK, Cpu
<1>3. Shape
  <2>1. \A c \in Core : l1[c] = Reset /\ ~cpu[c].issued /\ ~tog[c]
    BY DEF Init
  <2>2. Reset.pend.on = FALSE
    BY DEF Reset, NoSnoop
  <2> QED
    BY <1>1, <2>1, <2>2 DEF Shape, RequestOK, RefillOK, SnoopOK
<1> QED
  BY <1>2, <1>3 DEF RigInv

LEMMA TypesStep == RigInv /\ [Next]_vars => TypeOK'
<1> SUFFICES ASSUME RigInv, [Next]_vars PROVE TypeOK'
  OBVIOUS
<1>1. CASE UNCHANGED vars
  BY <1>1 DEF RigInv, TypeOK, vars
<1>2. ASSUME NEW issue \in [Core -> BOOLEAN], Clock(issue) PROVE TypeOK'
  <2>1. \A c \in Core : CacheOK(l1'[c])
    BY <1>2, Edge
  <2>2. l1' = [c \in Core |-> l1'[c]] /\ prog' = prog
    BY <1>2 DEF Clock
  <2>3. grant \in Core /\ CacheOK(owned)
    BY DEF RigInv, TypeOK, grant, owned, Core
  <2>4. owned.mem_addr \in Addr /\ owned.mem_wdata \in Int
    BY <2>3 DEF CacheOK, BusOK
  <2>5. mem' \in [Addr -> Int] /\ rdata' \in Int
    BY <1>2, <2>4 DEF Clock, DataBram, RigInv, TypeOK
  <2>6. tog' \in [Core -> BOOLEAN]
    <3>1. tog' = [c \in Core |-> l1[c].read_req /\ grant = c /\ ~tog[c]]
      BY <1>2 DEF Clock, Toggles
    <3>2. \A c \in Core : (l1[c].read_req /\ grant = c /\ ~tog[c]) \in BOOLEAN
      OBVIOUS
    <3> QED
      BY <3>1, <3>2
  <2>7. ASSUME NEW c \in Core PROVE cpu'[c] \in Cpu
    <3>1. cpu'[c] = CpuEdge(c, issue[c]) /\ (issue[c] => Ready(c)) /\ issue[c] \in BOOLEAN
      BY <1>2 DEF Clock
    <3>2. cpu[c] \in Cpu /\ l1[c].rdata \in Int
      BY DEF RigInv, TypeOK, CacheOK, ControlOK
    <3>3. CASE issue[c]
      BY <3>1, <3>2, <3>3 DEF CpuEdge, Cpu
    <3>4. CASE ~issue[c] /\ cpu[c].issued /\ l1[c].ready
      <4>1. Access(c) \in Accesses
        BY <3>4, AccessType DEF RigInv, Shape, RequestOK
      <4>2. Result(c) \in Int
        BY <3>2 DEF Result, Cpu
      <4>3. Onward(c, Result(c)) \in Nat \ {0}
        BY <3>2, <4>1 DEF Onward, Accesses, Cpu
      <4> QED
        BY <3>1, <3>4, <4>2, <4>3 DEF CpuEdge, Cpu
    <3>5. CASE ~issue[c] /\ ~(cpu[c].issued /\ l1[c].ready)
      BY <3>1, <3>2, <3>5 DEF CpuEdge
    <3> QED
      BY <3>3, <3>4, <3>5
  <2>8. cpu' = [c \in Core |-> cpu'[c]]
    BY <1>2 DEF Clock
  <2>9. cpu' \in [Core -> Cpu]
    BY <2>7, <2>8
  <2> QED
    BY <2>1, <2>2, <2>5, <2>6, <2>9 DEF TypeOK, RigInv
<1> QED
  BY <1>1, <1>2 DEF Next

\* What the core does at an edge, and what its request is after it.
LEMMA CoreMoves ==
  ASSUME RigInv, NEW issue \in [Core -> BOOLEAN], Clock(issue), NEW c \in Core
  PROVE  /\ prog' = prog
         /\ \/ /\ issue[c] /\ Ready(c)
               /\ cpu'[c].pc = cpu[c].pc /\ cpu'[c].issued /\ cpu'[c].r = cpu[c].r
            \/ /\ ~issue[c] /\ cpu[c].issued /\ l1[c].ready
               /\ cpu'[c].pc = Onward(c, Result(c)) /\ ~cpu'[c].issued /\ cpu'[c].r = Result(c)
            \/ /\ ~issue[c] /\ ~(cpu[c].issued /\ l1[c].ready) /\ cpu'[c] = cpu[c]
<1>1. cpu'[c] = CpuEdge(c, issue[c]) /\ (issue[c] => Ready(c)) /\ issue[c] \in BOOLEAN /\ prog' = prog
  BY DEF Clock
<1>2. cpu[c] \in Cpu
  BY DEF RigInv, TypeOK
<1> QED
  BY <1>1, <1>2 DEF CpuEdge, Cpu

LEMMA RequestStep ==
  ASSUME RigInv, NEW issue \in [Core -> BOOLEAN], Clock(issue), NEW c \in Core
  PROVE  RequestOK(c)'
<1> DEFINE k == l1[c]
           n == l1'[c]
           q == Latched(c, issue[c], k)
           p == Capture(c, k)
<1>1. Moves(c, k, n, q, p) /\ k.state \in States
  BY Edge DEF RigInv, TypeOK, CacheOK, ControlOK
<1>2. RequestOK(c) /\ RefillOK(c)
  BY DEF RigInv, Shape
<1>3. k.req # NoReq => cpu[c].issued /\ ~k.ready /\ ~issue[c]
  BY Engaged DEF RigInv, Clock
<1>4. /\ prog' = prog
      /\ \/ /\ issue[c] /\ ~Halted(c) /\ ~cpu[c].issued
            /\ cpu'[c].pc = cpu[c].pc /\ cpu'[c].issued /\ cpu'[c].r = cpu[c].r
         \/ /\ ~issue[c] /\ cpu[c].issued /\ k.ready /\ ~cpu'[c].issued
         \/ /\ ~issue[c] /\ ~(cpu[c].issued /\ k.ready) /\ cpu'[c] = cpu[c]
  BY CoreMoves DEF Ready
<1>5. q = (IF issue[c] THEN [op |-> Access(c).op, addr |-> Access(c).addr, val |-> Stored(c)] ELSE k.req)
  BY DEF Latched
<1>6. cpu'[c].pc = cpu[c].pc /\ cpu'[c].r = cpu[c].r =>
        Access(c)' = Access(c) /\ Stored(c)' = Stored(c) /\ Halted(c)' = Halted(c)
  BY <1>4 DEF Access, Stored, Halted
<1> HIDE DEF q, p, n, k
<1>7. CASE n.ready
  <2>1. k.req # NoReq /\ n.req = NoReq
    <3>1. k.state \in {"CHECK", "WAITM_RD"}
      BY <1>1, <1>7 DEF Moves, States, FromIdle, FromSnoopWb, FromSnoopInv, Rests
    <3>2. n.req = NoReq
      BY <1>1, <1>7, <3>1 DEF Moves, FromCheck, FromRefill, Answers, Rests
    <3> QED
      BY <1>2, <3>1, <3>2 DEF RefillOK, k
  <2>2. cpu'[c] = cpu[c] /\ cpu[c].issued
    BY <1>3, <1>4, <2>1
  <2> QED
    BY <1>2, <1>4, <1>6, <1>7, <2>1, <2>2 DEF RequestOK, n
<1>8. CASE ~n.ready
  <2>1. n.req = q
    <3>1. k.state \in {"CHECK", "WAITM_RD"} => n.req = k.req /\ q = k.req
      BY <1>1, <1>2, <1>3, <1>5, <1>8 DEF Moves, FromCheck, FromRefill, Answers, Rests, RefillOK, k
    <3> QED
      BY <1>1, <3>1 DEF Moves, States, FromIdle, FromSnoopWb, FromSnoopInv
  <2> QED
    BY <1>2, <1>3, <1>4, <1>5, <1>6, <1>8, <2>1 DEF RequestOK, n, k
<1> QED
  BY <1>7, <1>8

LEMMA RefillStep ==
  ASSUME RigInv, NEW issue \in [Core -> BOOLEAN], Clock(issue), NEW c \in Core
  PROVE  RefillOK(c)'
<1> DEFINE k == l1[c]
           n == l1'[c]
           q == Latched(c, issue[c], k)
           p == Capture(c, k)
<1>1. Moves(c, k, n, q, p) /\ k.state \in States
  BY Edge DEF RigInv, TypeOK, CacheOK, ControlOK
<1>2. RefillOK(c)
  BY DEF RigInv, Shape
<1>3. k.req # NoReq => q = k.req
  BY Engaged DEF RigInv, Clock, Latched
<1> HIDE DEF q, p, n
<1>4. n.state \in {"CHECK", "WAITM_RD"} => n.req # NoReq
  BY <1>1, <1>2, <1>3 DEF Moves, States, FromIdle, FromCheck, FromRefill, FromSnoopWb, FromSnoopInv, Answers, RefillOK
<1>5. n.state = "WAITM_RD" <=> n.read_req
  BY <1>1 DEF Moves, States, FromIdle, FromCheck, FromRefill, FromSnoopWb, FromSnoopInv, Answers
<1>6. ASSUME n.read_req
      PROVE  /\ ~n.write_req
             /\ n.mem_addr = [n.req.addr EXCEPT !.word = n.fill_cnt]
             /\ n.pending_write = (n.req.op = "sw") /\ n.req.op # "sc"
             /\ Hits(n, n.req.addr.line) = {}
  <2>1. CASE k.state = "CHECK"
    BY <1>1, <1>2, <1>6, <2>1 DEF Moves, FromCheck, Answers, Rests, Hits
  <2>2. CASE k.state = "WAITM_RD"
    BY <1>1, <1>2, <1>6, <2>2 DEF Moves, FromRefill, Answers, Rests, Hits, RefillOK
  <2> QED
    BY <1>1, <1>6, <2>1, <2>2 DEF Moves, States, FromIdle, FromSnoopWb, FromSnoopInv
<1>7. ASSUME tog'[c] PROVE n.read_req /\ rdata' = mem'[n.mem_addr]
  <2>1. k.read_req /\ grant = c /\ ~tog[c]
    BY <1>7 DEF Clock, Toggles
  <2>2. ~read_ack(c) /\ k.state = "WAITM_RD" /\ ~k.write_req /\ owned = k
    BY <1>2, <2>1 DEF read_ack, RefillOK, owned
  <2>3. n.read_req /\ n.mem_addr = k.mem_addr
    BY <1>1, <2>2 DEF Moves, FromRefill
  <2> QED
    BY <2>2, <2>3 DEF Clock, DataBram
<1> QED
  BY <1>4, <1>5, <1>6, <1>7 DEF RefillOK, n

LEMMA SnoopStep ==
  ASSUME RigInv, NEW issue \in [Core -> BOOLEAN], Clock(issue), NEW c \in Core
  PROVE  SnoopOK(c)'
<1> DEFINE k == l1[c]
           n == l1'[c]
           q == Latched(c, issue[c], k)
           p == Capture(c, k)
<1>1. Moves(c, k, n, q, p) /\ CacheOK(k) /\ CacheOK(n) /\ p \in Snoops
  BY Edge, Others, CaptureType DEF RigInv, TypeOK
<1>2. k.state \in States /\ k.msi \in [Way -> Msi] /\ k.pend \in Snoops /\ k.fill_way \in Way
  BY <1>1 DEF CacheOK, ControlOK, LinesOK, BusOK
<1>3. SnoopOK(c)
  BY DEF RigInv, Shape
<1>4. p.on => k.msi[p.way] # "I"
  <2>1. CASE p = k.pend
    BY <1>3, <2>1 DEF SnoopOK
  <2>2. CASE p # k.pend
    <3>1. /\ p.way = HitWay(k, snooped(c).mem_addr.line)
          /\ Hits(k, snooped(c).mem_addr.line) # {}
      BY <2>2 DEF Capture
    <3> QED
      BY <3>1, HitFacts
  <2> QED
    BY <2>1, <2>2
<1>5. k.pend.on => p.on
  BY DEF Capture
<1>6. p.way \in Way /\ [p EXCEPT !.on = FALSE].on = FALSE
  BY <1>1 DEF Snoops
<1> HIDE DEF q, p, n
<1>7. CASE k.state = "IDLE"
  BY <1>1, <1>3, <1>4, <1>5, <1>6, <1>7 DEF Moves, FromIdle, Rests, SnoopOK, n
<1>8. CASE k.state = "CHECK"
  <2>1. FromCheck(k, n, p)
    BY <1>1, <1>8 DEF Moves
  <2>2. n.pend = p /\ n.state \in {"IDLE", "WAITM_RD"}
    BY <2>1 DEF FromCheck, Answers
  <2>3. \A w \in Way : n.msi[w] = k.msi[w] \/ n.msi[w] = "M"
    BY <2>1, HitFacts DEF FromCheck, Rests, Stores
  <2> QED
    BY <1>4, <1>6, <2>2, <2>3 DEF SnoopOK, n
<1>9. CASE k.state = "WAITM_RD"
  <2>1. FromRefill(c, k, n, p)
    BY <1>1, <1>9 DEF Moves
  <2>2. n.pend = p /\ n.state \in {"IDLE", "WAITM_RD"}
    BY <2>1 DEF FromRefill, Answers
  <2>3. \A w \in Way : n.msi[w] = k.msi[w] \/ n.msi[w] \in {"S", "M"}
    BY <2>1 DEF FromRefill, Rests
  <2> QED
    BY <1>4, <1>6, <2>2, <2>3 DEF SnoopOK, n
<1>10. CASE k.state = "SNOOP_WB"
  <2>1. FromSnoopWb(c, k, n, q, p)
    BY <1>1, <1>10 DEF Moves
  <2>2. \/ n.state = "SNOOP_WB" /\ n.pend = p /\ n.msi = k.msi
        \/ n.state = "IDLE" /\ ~n.pend.on
    BY <1>6, <2>1 DEF FromSnoopWb, Rests
  <2>3. p.on
    BY <1>3, <1>5, <1>10 DEF SnoopOK
  <2> QED
    BY <1>4, <2>2, <2>3 DEF SnoopOK, n
<1>11. CASE k.state = "SNOOP_INV"
  BY <1>1, <1>6, <1>11 DEF Moves, FromSnoopInv, SnoopOK, n
<1> QED
  BY <1>2, <1>7, <1>8, <1>9, <1>10, <1>11 DEF States

LEMMA RigStep == RigInv /\ [Next]_vars => RigInv'
<1> SUFFICES ASSUME RigInv, [Next]_vars PROVE RigInv'
  OBVIOUS
<1>1. TypeOK'
  BY TypesStep
<1>2. CASE UNCHANGED vars
  <2>1. UNCHANGED <<prog, cpu, l1, mem, rdata, tog>> /\ Shape
    BY <1>2 DEF vars, RigInv
  <2>2. ASSUME NEW c \in Core PROVE RequestOK(c)' /\ RefillOK(c)' /\ SnoopOK(c)'
    <3>1. RequestOK(c) /\ RefillOK(c) /\ SnoopOK(c)
      BY <2>1 DEF Shape
    <3>2. RequestOK(c)'
      BY <2>1, <3>1 DEF RequestOK, Halted, Access, Stored
    <3>3. RefillOK(c)'
      BY <2>1, <3>1 DEF RefillOK, Hits
    <3>4. SnoopOK(c)'
      BY <2>1, <3>1 DEF SnoopOK
    <3> QED
      BY <3>2, <3>3, <3>4
  <2> QED
    BY <1>1, <2>2 DEF RigInv, Shape
<1>3. ASSUME NEW issue \in [Core -> BOOLEAN], Clock(issue) PROVE RigInv'
  BY <1>1, <1>3, RequestStep, RefillStep, SnoopStep DEF RigInv, Shape
<1> QED
  BY <1>2, <1>3 DEF Next

\* For all programs: the registers keep their types, and each cache works on its core's request.
THEOREM RigKeepsShape == Spec => []RigInv
BY RigStarts, RigStep, PTL DEF Spec

-----------------------------------------------------------------------------
(* What an edge means to a program: its answers, the words on the bus, the *)
(* lines a cache holds, the memory.                                        *)
Pulse(c, a, v) == l1[c].write_req /\ l1[c].mem_addr = a /\ l1[c].mem_wdata = v

\* The access of c is over: what it stored, or where its word comes from.
Answer(c) ==
  LET k == l1[c]
      n == l1'[c]
      a == Access(c)
      held == Hits(k, a.addr.line) # {}
      kept == k.reserved /\ k.reservation = a.addr
  IN  \/ a.op = "sw" /\ Pulse(c, a.addr, Stored(c))' /\ n.rdata = k.rdata
      \/ a.op = "sc" /\ held /\ kept /\ Pulse(c, a.addr, Stored(c))' /\ n.rdata = 0
      \/ a.op = "sc" /\ ~(held /\ kept) /\ ~n.write_req /\ n.rdata = 1
      \/ /\ a.op \in {"lw", "lr"} /\ ~n.write_req /\ Hits(n, a.addr.line) # {}
         /\ a.op = "lr" => n.reserved /\ n.reservation = a.addr
         /\ \/ held /\ n.rdata = k.data[HitWay(k, a.addr.line)][a.addr.word] /\ n.data = k.data
            \/ /\ k.read_req /\ read_ack(c) /\ k.fill_cnt = WORDS - 1
               /\ n.rdata = k.data[k.fill_way][a.addr.word]

LEMMA AnswerIs ==
  ASSUME RigInv, NEW issue \in [Core -> BOOLEAN], Clock(issue), NEW c \in Core, l1'[c].ready
  PROVE  /\ cpu[c].issued /\ ~l1[c].ready /\ cpu'[c] = cpu[c] /\ ~Halted(c)
         /\ Access(c)' = Access(c) /\ Stored(c)' = Stored(c)
         /\ l1[c].req.addr = Access(c).addr /\ l1[c].state \in {"CHECK", "WAITM_RD"}
         /\ Answer(c)
<1> DEFINE k == l1[c]
           n == l1'[c]
           q == Latched(c, issue[c], k)
           p == Capture(c, k)
<1>1. Moves(c, k, n, q, p) /\ k.state \in States /\ CacheOK(k)
  BY Edge DEF RigInv, TypeOK, CacheOK, ControlOK
<1>2. RequestOK(c) /\ RefillOK(c)
  BY DEF RigInv, Shape
<1> HIDE DEF q, p
<1>3. k.state \in {"CHECK", "WAITM_RD"}
  BY <1>1 DEF Moves, States, FromIdle, FromSnoopWb, FromSnoopInv, Rests
<1>4. k.req # NoReq
  BY <1>2, <1>3 DEF RefillOK
<1>5. cpu[c].issued /\ ~k.ready /\ ~Ready(c)
  BY <1>4, Engaged DEF RigInv
<1>6. cpu'[c] = cpu[c] /\ prog' = prog
  BY <1>5, CoreMoves
<1>7. Access(c)' = Access(c) /\ Stored(c)' = Stored(c) /\ ~Halted(c)
  BY <1>2, <1>5, <1>6 DEF Access, Stored, RequestOK
<1>8. k.req.op = Access(c).op /\ k.req.addr = Access(c).addr /\ k.req.val = Stored(c)
  BY <1>2, <1>5 DEF RequestOK
<1>9. Access(c).op \in Ops /\ HitWay(k, k.req.addr.line) \in Way /\ k.fill_way \in Way
  BY <1>7, AccessType, HitFacts, <1>1 DEF RigInv, Accesses, Ops, CacheOK, LinesOK
<1>10. CASE k.state = "CHECK"
  <2>1. FromCheck(k, n, p)
    BY <1>1, <1>10 DEF Moves
  <2>2. k.req.op \in {"lw", "lr"} /\ Hits(k, k.req.addr.line) # {} /\ n.msi = k.msi /\ n.tag = k.tag
          => Hits(n, k.req.addr.line) # {}
    BY DEF Hits
  <2>3. Answer(c)
    BY <1>7, <1>8, <2>1, <2>2 DEF FromCheck, Answer, Answers, Stores, Rests, Pulse
  <2> QED
    BY <1>3, <1>5, <1>6, <1>7, <1>8, <2>3
<1>11. CASE k.state = "WAITM_RD"
  <2>1. FromRefill(c, k, n, p)
    BY <1>1, <1>11 DEF Moves
  <2>2. read_ack(c) /\ k.fill_cnt = WORDS - 1 /\ k.read_req /\ k.pending_write = (k.req.op = "sw") /\ k.req.op # "sc"
    BY <1>2, <1>11, <2>1 DEF FromRefill, RefillOK, Rests
  <2>3. n.tag = [k.tag EXCEPT ![k.fill_way] = k.req.addr.line]
    BY <2>1, <2>2 DEF FromRefill, Rests
  <2>4. n.tag[k.fill_way] = k.req.addr.line
    BY <1>1, <1>9, <2>3 DEF CacheOK, LinesOK
  <2>5. n.msi[k.fill_way] # "I" => Hits(n, k.req.addr.line) # {}
    BY <1>9, <2>4, HitFacts
  <2>6. Answer(c)
    BY <1>7, <1>8, <1>9, <2>1, <2>2, <2>5 DEF FromRefill, Answer, Rests, Pulse, Ops
  <2> QED
    BY <1>3, <1>5, <1>6, <1>7, <1>8, <2>6
<1> QED
  BY <1>3, <1>10, <1>11

\* A cache writes when it answers a store, or the words of a line from the second on.
LEMMA WritesAre ==
  ASSUME RigInv, NEW issue \in [Core -> BOOLEAN], Clock(issue), NEW c \in Core, l1'[c].write_req
  PROVE  \/ l1'[c].ready /\ l1[c].state \in {"CHECK", "WAITM_RD"}
         \/ /\ ~l1'[c].ready /\ l1[c].state = "SNOOP_WB" /\ l1'[c].state = "SNOOP_WB"
            /\ l1'[c].mem_addr.word # 0 /\ l1'[c].mem_addr.line = l1[c].tag[l1[c].pend.way]
            /\ l1'[c].mem_wdata = l1[c].data[l1[c].pend.way][l1'[c].mem_addr.word]
<1> DEFINE k == l1[c]
           n == l1'[c]
           q == Latched(c, issue[c], k)
           p == Capture(c, k)
<1>1. Moves(c, k, n, q, p) /\ k.state \in States /\ k.wb_cnt \in Word
  BY Edge DEF RigInv, TypeOK, CacheOK, ControlOK, BusOK
<1> HIDE DEF q, p, n, k
<1>2. k.state \notin {"IDLE", "SNOOP_INV"}
  BY <1>1 DEF Moves, FromIdle, FromSnoopInv, Rests, n
<1>3. k.state \in {"CHECK", "WAITM_RD"} => n.ready
  BY <1>1 DEF Moves, FromCheck, FromRefill, Rests, Answers, n
<1>4. k.state = "SNOOP_WB" =>
        /\ ~n.ready /\ n.state = "SNOOP_WB"
        /\ n.mem_addr = [line |-> k.tag[k.pend.way], word |-> k.wb_cnt + 1]
        /\ n.mem_wdata = k.data[k.pend.way][k.wb_cnt + 1]
  BY <1>1 DEF Moves, FromSnoopWb, Rests, n
<1>5. k.wb_cnt + 1 # 0
  BY <1>1 DEF Word
<1> QED
  BY <1>1, <1>2, <1>3, <1>4, <1>5 DEF States, n, k

\* A line appears in a cache when the refill for it ends.
LEMMA LinesAre ==
  ASSUME RigInv, NEW issue \in [Core -> BOOLEAN], Clock(issue), NEW c \in Core, NEW l,
         Hits(l1[c], l) = {}, Hits(l1'[c], l) # {}
  PROVE  l1'[c].ready /\ l = Access(c).addr.line /\ l1[c].read_req
<1> DEFINE k == l1[c]
           n == l1'[c]
           q == Latched(c, issue[c], k)
           p == Capture(c, k)
<1>1. Moves(c, k, n, q, p) /\ k.state \in States /\ CacheOK(k)
  BY Edge DEF RigInv, TypeOK, CacheOK, ControlOK
<1> HIDE DEF q, p
<1>2. PICK w \in Way : n.msi[w] # "I" /\ n.tag[w] = l
  BY DEF Hits
<1>3. ~(k.msi[w] # "I" /\ k.tag[w] = l)
  BY HitFacts
<1>4. k.msi[w] \in Msi /\ k.pend.way \in Way /\ k.msi \in [Way -> Msi] /\ k.tag \in [Way -> Lines] /\ k.fill_way \in Way
  BY <1>1 DEF CacheOK, LinesOK, BusOK, Snoops
<1>5. CASE k.state = "IDLE"
  BY <1>1, <1>2, <1>3, <1>5 DEF Moves, FromIdle, Rests
<1>6. CASE k.state = "SNOOP_INV"
  BY <1>1, <1>2, <1>3, <1>4, <1>6 DEF Moves, FromSnoopInv
<1>7. CASE k.state = "SNOOP_WB"
  <2>1. k.msi[k.pend.way] # "I"
    BY <1>7 DEF RigInv, Shape, SnoopOK
  <2>2. n.tag = k.tag /\ (n.msi = k.msi \/ n.msi = [k.msi EXCEPT ![k.pend.way] = "S"])
    BY <1>1, <1>7 DEF Moves, FromSnoopWb, Rests
  <2> QED
    BY <1>2, <1>3, <1>4, <2>1, <2>2
<1>8. CASE k.state = "CHECK"
  <2> DEFINE way == HitWay(k, k.req.addr.line)
  <2>1. FromCheck(k, n, p)
    BY <1>1, <1>8 DEF Moves
  <2> HIDE DEF k, n
  <2>2. n.msi = k.msi \/ (Hits(k, k.req.addr.line) # {} /\ \A v \in Way \ {way} : n.msi[v] = k.msi[v])
    BY <2>1 DEF FromCheck, Rests, Stores
  <2>3. n.tag = k.tag
    BY <2>1 DEF FromCheck
  <2>4. Hits(k, k.req.addr.line) # {} => way \in Way /\ k.msi[way] # "I"
    BY HitFacts
  <2> QED
    BY <1>2, <1>3, <2>2, <2>3, <2>4
<1>9. CASE k.state = "WAITM_RD"
  <2>0. FromRefill(c, k, n, p)
    BY <1>1, <1>9 DEF Moves
  <2>1. n.ready /\ n.tag = [k.tag EXCEPT ![k.fill_way] = k.req.addr.line]
        /\ \A v \in Way \ {k.fill_way} : n.msi[v] = k.msi[v]
    <3> HIDE DEF k, n
    <3>1. ~(n.msi = k.msi /\ n.tag = k.tag)
      BY <1>2, <1>3
    <3> QED
      BY <2>0, <3>1 DEF FromRefill, Rests, Answers
  <2>2. l = k.req.addr.line
    BY <1>2, <1>3, <1>4, <2>1
  <2> QED
    BY <1>9, <2>1, <2>2, AnswerIs DEF RigInv, Shape, RefillOK
<1> QED
  BY <1>1, <1>5, <1>6, <1>7, <1>8, <1>9 DEF States

LEMMA MemoryStep ==
  ASSUME RigInv, NEW issue \in [Core -> BOOLEAN], Clock(issue)
  PROVE  /\ \A a \in Addr : \/ mem'[a] = mem[a]
                            \/ \E c \in Core : /\ grant = c /\ l1[c].write_req /\ l1[c].mem_addr = a
                                               /\ mem'[a] = l1[c].mem_wdata
         /\ \A c \in Core, a \in Addr, v \in Int :
              Pulse(c, a, v) /\ (c = 1 => ~l1[0].write_req /\ ~l1[0].read_req) => mem'[a] = v
<1>1. mem' = IF owned.write_req THEN [mem EXCEPT ![owned.mem_addr] = owned.mem_wdata] ELSE mem
  BY DEF Clock, DataBram
<1>2. grant \in Core /\ owned = l1[grant]
  BY DEF grant, owned, Core
<1>3. mem \in [Addr -> Int]
  BY DEF RigInv, TypeOK
<1>4. ASSUME NEW a \in Addr
      PROVE  mem'[a] = mem[a] \/ \E c \in Core : /\ grant = c /\ l1[c].write_req /\ l1[c].mem_addr = a
                                                 /\ mem'[a] = l1[c].mem_wdata
  BY <1>1, <1>2, <1>3
<1>5. ASSUME NEW c \in Core, NEW a \in Addr, NEW v \in Int,
             Pulse(c, a, v), c = 1 => ~l1[0].write_req /\ ~l1[0].read_req
      PROVE  mem'[a] = v
  <2>1. grant = c
    BY <1>5 DEF grant, Pulse, Core
  <2> QED
    BY <1>1, <1>2, <1>3, <1>5, <2>1 DEF Pulse
<1> QED
  BY <1>4, <1>5

\* The access of c at n is over.
Over(c, n) == cpu[c].pc > n \/ (cpu[c].pc = n /\ l1[c].ready)

LEMMA OverComes ==
  ASSUME RigInv, NEW issue \in [Core -> BOOLEAN], Clock(issue), NEW c \in Core, NEW n \in Nat \ {0},
         ~Halted(c) => Access(c).want = -1 \/ Access(c).back = 1,
         ~Over(c, n), Over(c, n)'
  PROVE  cpu[c].pc = n /\ l1'[c].ready
<1>1. cpu[c].pc \in Nat \ {0}
  BY DEF RigInv, TypeOK, Cpu
<1>2. cpu'[c].pc > cpu[c].pc => l1[c].ready /\ cpu'[c].pc \in {cpu[c].pc + 1, 1}
  <2>1. cpu[c].issued => ~Halted(c)
    BY DEF RigInv, Shape, RequestOK
  <2>2. ~Halted(c) => Onward(c, Result(c)) \in {cpu[c].pc + 1, 1}
    BY DEF Onward
  <2>3. cpu'[c].pc = cpu[c].pc \/ (cpu[c].issued /\ l1[c].ready /\ cpu'[c].pc = Onward(c, Result(c)))
    BY CoreMoves
  <2> QED
    BY <1>1, <2>1, <2>2, <2>3
<1>3. l1'[c].ready => cpu'[c] = cpu[c]
  BY AnswerIs
<1>4. cpu'[c].pc \in Nat \ {0}
  BY TypesStep DEF Next, TypeOK, Cpu
<1> QED
  BY <1>1, <1>2, <1>3, <1>4 DEF Over

LEMMA OverStays ==
  ASSUME RigInv, NEW issue \in [Core -> BOOLEAN], Clock(issue), NEW c \in Core, NEW n \in Nat \ {0},
         ~Halted(c) => Access(c).want = -1, Over(c, n)
  PROVE  Over(c, n)'
<1>1. cpu[c].pc \in Nat \ {0}
  BY DEF RigInv, TypeOK, Cpu
<1>2. cpu'[c].pc = cpu[c].pc \/ (l1[c].ready /\ cpu'[c].pc = cpu[c].pc + 1)
  BY CoreMoves DEF Onward, RigInv, Shape, RequestOK
<1>3. cpu[c].issued /\ l1[c].ready => cpu'[c].pc = cpu[c].pc + 1
  BY CoreMoves DEF Onward, RigInv, Shape, RequestOK, Ready
<1>4. l1[c].ready => cpu[c].issued
  BY DEF RigInv, Shape, RequestOK
<1> QED
  BY <1>1, <1>2, <1>3, <1>4 DEF Over

LEMMA PendIs ==
  ASSUME RigInv, NEW issue \in [Core -> BOOLEAN], Clock(issue), NEW c \in Core
  PROVE  /\ l1'[c].pend \in {Capture(c, l1[c]), [Capture(c, l1[c]) EXCEPT !.on = FALSE]}
         /\ l1'[c].pend.on => Capture(c, l1[c]).on
         /\ ~l1[1 - c].write_req /\ ~l1[1 - c].read_req => Capture(c, l1[c]) = l1[c].pend
<1> DEFINE k == l1[c]
           n == l1'[c]
           q == Latched(c, issue[c], k)
           p == Capture(c, k)
<1>1. Moves(c, k, n, q, p) /\ k.state \in States /\ p \in Snoops
  BY Edge, Others, CaptureType DEF RigInv, TypeOK, CacheOK, ControlOK
<1>2. ~l1[1 - c].write_req /\ ~l1[1 - c].read_req => p = k.pend
  BY DEF Capture, snooped
<1> HIDE DEF p, q, k, n
<1>3. n.pend \in {p, [p EXCEPT !.on = FALSE]}
  BY <1>1 DEF Moves, States, FromIdle, FromCheck, FromRefill, FromSnoopWb, FromSnoopInv, Rests
<1>4. n.pend.on => p.on
  BY <1>1, <1>3 DEF Snoops
<1> QED
  BY <1>2, <1>3, <1>4 DEF p, k, n

-----------------------------------------------------------------------------
(* One core stores, the other only reads.                                  *)
Cell(l, w) == [line |-> l, word |-> w]

\* A cache that has modified nothing has nothing to write.
Clean(c) ==
  LET k == l1[c] IN
  /\ \A w \in Way : k.msi[w] # "M"
  /\ k.pend.msi # "M" /\ k.state # "SNOOP_WB" /\ ~k.write_req

LEMMA CleanStays ==
  ASSUME RigInv, NEW issue \in [Core -> BOOLEAN], Clock(issue), NEW c \in Core, Clean(c),
         l1'[c].ready => Access(c).op \in {"lw", "lr"}
  PROVE  Clean(c)'
<1> DEFINE k == l1[c]
           n == l1'[c]
           q == Latched(c, issue[c], k)
           p == Capture(c, k)
<1>1. Moves(c, k, n, q, p) /\ CacheOK(k) /\ p \in Snoops
  BY Edge, Others, CaptureType DEF RigInv, TypeOK
<1>2. k.state \in States /\ k.pend.way \in Way /\ k.msi \in [Way -> Msi]
  BY <1>1 DEF CacheOK, ControlOK, LinesOK, BusOK, Snoops
<1>3. n.pend \in {p, [p EXCEPT !.on = FALSE]}
  BY PendIs
<1>4. p.msi # "M"
  <2>1. CASE p = k.pend
    BY <2>1 DEF Clean
  <2>2. CASE p # k.pend
    <3>1. p.msi = k.msi[HitWay(k, snooped(c).mem_addr.line)]
      BY <2>2 DEF Capture
    <3> QED
      BY <3>1, HitFacts DEF Clean
  <2> QED
    BY <2>1, <2>2
<1>5. n.pend.msi # "M"
  BY <1>1, <1>3, <1>4 DEF Snoops
<1>6. ~n.write_req
  BY WritesAre, AnswerIs DEF Clean, Answer
\* A load leaves the line as it is, or brings it unmodified.
<1>12. n.ready => /\ k.state \in {"CHECK", "WAITM_RD"} /\ k.req.op \in {"lw", "lr"}
                  /\ k.pending_write => k.state = "CHECK"
  <2>1. SUFFICES ASSUME n.ready PROVE /\ k.state \in {"CHECK", "WAITM_RD"} /\ k.req.op \in {"lw", "lr"}
                                      /\ k.pending_write => k.state = "CHECK"
    OBVIOUS
  <2>2. cpu[c].issued /\ ~k.ready /\ k.state \in {"CHECK", "WAITM_RD"}
    BY <2>1, AnswerIs
  <2>3. k.req.op = Access(c).op
    <3>1. k.req = [op |-> Access(c).op, addr |-> Access(c).addr, val |-> Stored(c)]
      BY <2>2 DEF RigInv, Shape, RequestOK
    <3> QED
      BY <3>1
  <2>4. k.state = "WAITM_RD" => k.pending_write = (k.req.op = "sw")
    BY DEF RigInv, Shape, RefillOK
  <2> QED
    BY <2>1, <2>2, <2>3, <2>4
<1> HIDE DEF p, q, n
<1>7. (\A w \in Way : k.msi[w] # "M") /\ k.pend.msi # "M" /\ k.state # "SNOOP_WB"
  BY DEF n, Clean
<1>8. CASE k.state = "IDLE"
  BY <1>1, <1>5, <1>6, <1>7, <1>8 DEF Moves, FromIdle, Rests, Clean, n
<1>9. CASE k.state = "CHECK"
  BY <1>1, <1>5, <1>6, <1>7, <1>9, <1>12 DEF Moves, FromCheck, Answers, Rests, Clean, n
<1>10. CASE k.state = "WAITM_RD"
  BY <1>1, <1>5, <1>6, <1>7, <1>10, <1>12 DEF Moves, FromRefill, Answers, Rests, Clean, n
<1>11. CASE k.state = "SNOOP_INV"
  <2>1. n.state = "IDLE" /\ n.msi = [k.msi EXCEPT ![k.pend.way] = "I"]
    BY <1>1, <1>11 DEF Moves, FromSnoopInv
  <2>2. \A w \in Way : n.msi[w] # "M"
    BY <1>2, <1>7, <2>1
  <2> QED
    BY <1>5, <1>6, <2>1, <2>2 DEF Clean, n
<1> QED
  BY <1>2, <1>7, <1>8, <1>9, <1>10, <1>11 DEF States

\* A core that only reads modifies nothing.
LEMMA ReaderStaysClean ==
  ASSUME RigInv, NEW issue \in [Core -> BOOLEAN], Clock(issue), Reads(prog[1]), Clean(1)
  PROVE  Clean(1)'
<1>1. 1 \in Core /\ cpu[1].pc \in Nat \ {0} /\ prog[1] \in Seq(Accesses)
  BY ProgramAssumption DEF RigInv, TypeOK, Cpu, Core
<1>2. l1'[1].ready => Access(1).op \in {"lw", "lr"}
  <2>1. SUFFICES ASSUME l1'[1].ready PROVE Access(1).op \in {"lw", "lr"}
    OBVIOUS
  <2>2. ~Halted(1)
    BY <1>1, <2>1, AnswerIs
  <2>3. cpu[1].pc \in 1..Len(prog[1]) /\ DOMAIN prog[1] = 1..Len(prog[1])
    BY <1>1, <2>2 DEF Halted
  <2> QED
    BY <2>3 DEF Reads, Access
<1> QED
  BY <1>1, <1>2, CleanStays

\* No cache holds a line twice.
Single(c) == \A l \in Lines : \A v, w \in Hits(l1[c], l) : v = w

\* Core 0's store or store-conditional to word w is in memory, or the memory takes it at
\* the next edge.
Landed(w) == mem[Cell("x", w)] = 1 \/ (l1[0].ready /\ Pulse(0, Cell("x", w), 1))

\* What core 0 writes to word w of its line is a one.
WritesOne(w) == l1[0].write_req /\ l1[0].mem_addr = Cell("x", w) => l1[0].mem_wdata = 1

\* Core 1 reads any lines in any order.  Core 0 meets read snoops only: they cost its line
\* no word and no reservation.
Undisturbed == Clean(1) /\ ~l1[0].pend.write /\ l1[0].state # "SNOOP_INV"

Kept == Hits(l1[0], "x") # {}

\* A write-back of core 0's line writes word 1, so from its second store on the line
\* must hold it.
StoreLands ==
  prog[0] = tb_2store[0] =>
    /\ Over(0, 1) => Landed(0)
    /\ Over(0, 2) => /\ Landed(1) /\ WritesOne(1)
                     /\ \A w \in Hits(l1[0], "x") : l1[0].data[w][1] = 1

\* Between the two accesses the reservation stands.
ConditionalLands ==
  prog[0] = tb_lrsc[0] =>
    /\ Over(0, 1) /\ ~Over(0, 2) => l1[0].reserved /\ l1[0].reservation = Cell("x", 0)
    /\ Over(0, 2) => Landed(0)
    /\ cpu[0].pc = 2 /\ l1[0].ready => l1[0].rdata = 0
    /\ cpu[0].pc > 2 => cpu[0].r = 0

\* The programs of the two benches for core 0, and any that loads for core 1.
Watched == prog[0] \in {tb_2store[0], tb_lrsc[0]} /\ Reads(prog[1])

LandInv ==
  Watched =>
    /\ Undisturbed /\ Single(0) /\ WritesOne(0)
    /\ Over(0, 1) => Kept
    /\ StoreLands /\ ConditionalLands

\* Which lines an edge leaves in a cache, and what it leaves of the reservation.
LEMMA LinesMove ==
  ASSUME RigInv, NEW issue \in [Core -> BOOLEAN], Clock(issue), NEW c \in Core
  PROVE  LET k == l1[c]
             n == l1'[c] IN
         /\ n.ready /\ k.read_req =>
              /\ n.tag = [k.tag EXCEPT ![k.fill_way] = k.req.addr.line]
              /\ \A w \in Way \ {k.fill_way} : n.msi[w] = k.msi[w]
         /\ ~(n.ready /\ k.read_req) =>
              /\ n.tag = k.tag
              /\ \A w \in Way : n.msi[w] # "I" => k.msi[w] # "I"
              /\ k.state # "SNOOP_INV" => \A w \in Way : k.msi[w] # "I" => n.msi[w] # "I"
         /\ ~n.ready /\ k.state # "SNOOP_INV" =>
              /\ n.reserved = k.reserved /\ n.reservation = k.reservation
              /\ ~k.read_req => n.data = k.data
<1> DEFINE k == l1[c]
           n == l1'[c]
           q == Latched(c, issue[c], k)
           p == Capture(c, k)
<1>1. Moves(c, k, n, q, p) /\ k.state \in States /\ CacheOK(k)
  BY Edge DEF RigInv, TypeOK, CacheOK, ControlOK
<1>2. k.msi \in [Way -> Msi] /\ k.pend.way \in Way
  BY <1>1 DEF CacheOK, LinesOK, BusOK, Snoops
<1>3. (k.state = "WAITM_RD" <=> k.read_req) /\ (k.state = "SNOOP_WB" => k.msi[k.pend.way] # "I")
  BY DEF RigInv, Shape, RefillOK, SnoopOK
<1> HIDE DEF p, q, k, n
<1>4. CASE k.state = "IDLE"
  BY <1>1, <1>3, <1>4 DEF Moves, FromIdle, Rests, k, n
<1>5. CASE k.state = "CHECK"
  <2>1. FromCheck(k, n, p) /\ ~k.read_req
    BY <1>1, <1>3, <1>5 DEF Moves
  <2>2. \A w \in Way : n.msi[w] # "I" <=> k.msi[w] # "I"
    BY <2>1, HitFacts DEF FromCheck, Rests, Stores
  <2>3. n.tag = k.tag /\ (~n.ready => Rests(k, n))
    BY <2>1 DEF FromCheck, Answers
  <2> QED
    BY <1>5, <2>1, <2>2, <2>3 DEF Rests, k, n
<1>6. CASE k.state = "WAITM_RD"
  <2>1. FromRefill(c, k, n, p) /\ k.read_req
    BY <1>1, <1>3, <1>6 DEF Moves
  <2>2. n.ready => /\ n.tag = [k.tag EXCEPT ![k.fill_way] = k.req.addr.line]
                   /\ \A w \in Way \ {k.fill_way} : n.msi[w] = k.msi[w]
    BY <2>1 DEF FromRefill, Rests
  <2>3. ~n.ready => /\ n.tag = k.tag /\ n.msi = k.msi
                    /\ n.reserved = k.reserved /\ n.reservation = k.reservation
    BY <2>1 DEF FromRefill, Rests, Answers
  <2> QED
    BY <2>1, <2>2, <2>3 DEF k, n
<1>7. CASE k.state = "SNOOP_WB"
  <2>1. FromSnoopWb(c, k, n, q, p) /\ ~k.read_req
    BY <1>1, <1>3, <1>7 DEF Moves
  <2>2. n.msi = k.msi \/ n.msi = [k.msi EXCEPT ![k.pend.way] = "S"]
    BY <2>1 DEF FromSnoopWb, Rests
  <2>3. \A w \in Way : n.msi[w] # "I" <=> k.msi[w] # "I"
    BY <1>2, <1>3, <1>7, <2>2
  <2>4. /\ n.tag = k.tag /\ n.data = k.data
        /\ n.reserved = k.reserved /\ n.reservation = k.reservation
    BY <2>1 DEF FromSnoopWb, Rests
  <2> QED
    BY <2>1, <2>3, <2>4 DEF k, n
<1>8. CASE k.state = "SNOOP_INV"
  <2>1. ~n.ready /\ n.tag = k.tag /\ n.msi = [k.msi EXCEPT ![k.pend.way] = "I"]
    BY <1>1, <1>8 DEF Moves, FromSnoopInv
  <2>2. \A w \in Way : n.msi[w] # "I" => k.msi[w] # "I"
    BY <1>2, <2>1
  <2> QED
    BY <1>8, <2>1, <2>2 DEF k, n
<1> QED
  BY <1>1, <1>4, <1>5, <1>6, <1>7, <1>8 DEF States

LEMMA SingleStays ==
  ASSUME RigInv, NEW issue \in [Core -> BOOLEAN], Clock(issue), NEW c \in Core, Single(c)
  PROVE  Single(c)'
<1> DEFINE k == l1[c]
           n == l1'[c]
<1>1. SUFFICES ASSUME NEW l \in Lines, NEW v \in Hits(n, l), NEW w \in Hits(n, l), v # w PROVE FALSE
  BY DEF Single
<1>2. v \in Way /\ w \in Way /\ n.msi[v] # "I" /\ n.msi[w] # "I" /\ n.tag[v] = l /\ n.tag[w] = l
  BY HitFacts
<1>3. CacheOK(k) /\ RefillOK(c)
  BY DEF RigInv, TypeOK, Shape
<1>4. k.tag \in [Way -> Lines] /\ k.fill_way \in Way /\ (k.read_req => Hits(k, k.req.addr.line) = {})
  BY <1>3 DEF CacheOK, LinesOK, RefillOK
<1>5. CASE ~(n.ready /\ k.read_req)
  <2>1. v \in Hits(k, l) /\ w \in Hits(k, l)
    BY <1>2, <1>5, LinesMove DEF Hits
  <2> QED
    BY <1>1, <2>1 DEF Single
\* The line that comes was in no way, and it comes into one.
<1>6. CASE n.ready /\ k.read_req
  <2>1. /\ n.tag = [k.tag EXCEPT ![k.fill_way] = k.req.addr.line]
        /\ \A u \in Way \ {k.fill_way} : n.msi[u] = k.msi[u]
    BY <1>6, LinesMove
  <2>2. PICK u \in {v, w} : u # k.fill_way
    BY <1>1
  <2>3. k.msi[u] # "I" /\ k.tag[u] = l
    BY <1>2, <1>4, <2>1, <2>2
  <2>4. \/ n.tag[k.fill_way] = l /\ l = k.req.addr.line
        \/ v # k.fill_way /\ w # k.fill_way /\ k.msi[v] # "I" /\ k.tag[v] = l /\ k.msi[w] # "I" /\ k.tag[w] = l
    BY <1>2, <1>4, <2>1
  <2>5. CASE l = k.req.addr.line
    BY <1>2, <1>4, <1>6, <2>2, <2>3, <2>5, HitFacts
  <2>6. CASE v \in Hits(k, l) /\ w \in Hits(k, l)
    BY <1>1, <2>6 DEF Single
  <2> QED
    BY <1>2, <2>4, <2>5, <2>6, HitFacts
<1> QED
  BY <1>5, <1>6

\* Core 0 meets no invalidation.
LEMMA UndisturbedStays ==
  ASSUME RigInv, NEW issue \in [Core -> BOOLEAN], Clock(issue), Reads(prog[1]), Undisturbed
  PROVE  Undisturbed'
<1> DEFINE k == l1[0]
           n == l1'[0]
           q == Latched(0, issue[0], k)
           p == Capture(0, k)
<1>1. 0 \in Core /\ 1 - 0 = 1 /\ 1 \in Core
  BY DEF Core
<1>2. Clean(1)'
  BY ReaderStaysClean DEF Undisturbed
<1>3. ~p.write
  BY <1>1 DEF Capture, snooped, Undisturbed, Clean
<1>4. p \in Snoops
  BY <1>1, CaptureType DEF RigInv, TypeOK
<1>5. n.pend \in {p, [p EXCEPT !.on = FALSE]}
  BY <1>1, PendIs
<1>6. ~n.pend.write
  BY <1>3, <1>4, <1>5 DEF Snoops
<1>7. Moves(0, k, n, q, p) /\ k.state \in States
  BY <1>1, Edge DEF RigInv, TypeOK, CacheOK, ControlOK
<1>8. ~k.pend.write /\ k.state # "SNOOP_INV"
  BY DEF Undisturbed
<1> HIDE DEF p, q, k, n
<1>9. n.state # "SNOOP_INV"
  BY <1>7, <1>8 DEF Moves, States, FromIdle, FromCheck, FromRefill, FromSnoopWb, Answers, Rests
<1> QED
  BY <1>2, <1>6, <1>9 DEF Undisturbed, n

\* What has landed stays.
LEMMA LandedStays ==
  ASSUME RigInv, Undisturbed, NEW issue \in [Core -> BOOLEAN], Clock(issue),
         NEW w \in Word, WritesOne(w), "x" \in Lines, Landed(w)
  PROVE  Landed(w)'
<1>1. Cell("x", w) \in Addr /\ 0 \in Core /\ 1 \in Int
  BY DEF Cell, Addr, Core
<1>2. CASE Pulse(0, Cell("x", w), 1)
  BY <1>1, <1>2, MemoryStep DEF Landed
<1>3. CASE mem[Cell("x", w)] = 1
  BY <1>1, <1>3, MemoryStep DEF Landed, Undisturbed, Clean, WritesOne, Core
<1> QED
  BY <1>2, <1>3 DEF Landed

LEMMA LandNames ==
  ASSUME RigInv, "x" \in Lines, Watched
  PROVE  /\ Halted(0) <=> cpu[0].pc > 2
         /\ ~Halted(0) => cpu[0].pc \in {1, 2} /\ Access(0).want = -1 /\ Access(0).addr.line = "x"
         /\ prog[0] = tb_2store[0] =>
              \A i \in {1, 2} : cpu[0].pc = i =>
                Access(0).op = "sw" /\ Access(0).addr = Cell("x", i - 1) /\ Stored(0) = 1
         /\ prog[0] = tb_lrsc[0] =>
              /\ cpu[0].pc = 1 => Access(0).op = "lr" /\ Access(0).addr = Cell("x", 0)
              /\ cpu[0].pc = 2 => Access(0).op = "sc" /\ Access(0).addr = Cell("x", 0) /\ Stored(0) = 1
         /\ tb_2store[0] # tb_lrsc[0]
<1>1. cpu[0].pc \in Nat \ {0} /\ 0 \in Core /\ 1 \in Core
  BY DEF RigInv, TypeOK, Cpu, Core
<1>2. /\ tb_2store[0] = <<Store("x", 0, 1), Store("x", 1, 1)>>
      /\ tb_lrsc[0] = <<LoadReserved("x", 0), StoreConditional("x", 0, 1)>>
  BY <1>1 DEF tb_2store, tb_lrsc, Both
<1>3. Len(tb_2store[0]) = 2 /\ Len(tb_lrsc[0]) = 2
  BY <1>2
<1>4. \A i \in {1, 2} :
        /\ tb_2store[0][i].op = "sw" /\ tb_2store[0][i].addr = Cell("x", i - 1)
        /\ tb_2store[0][i].imm = 1 /\ tb_2store[0][i].acc = FALSE /\ tb_2store[0][i].want = -1
  BY <1>2 DEF Store, Access3, Cell
<1>5. /\ LoadReserved("x", 0).op = "lr" /\ LoadReserved("x", 0).addr = Cell("x", 0) /\ LoadReserved("x", 0).want = -1
      /\ StoreConditional("x", 0, 1).op = "sc" /\ StoreConditional("x", 0, 1).addr = Cell("x", 0)
      /\ StoreConditional("x", 0, 1).imm = 1 /\ StoreConditional("x", 0, 1).acc = FALSE
      /\ StoreConditional("x", 0, 1).want = -1
  BY DEF LoadReserved, StoreConditional, Access3, Cell
<1>6. /\ tb_lrsc[0][1] = LoadReserved("x", 0) /\ tb_lrsc[0][2] = StoreConditional("x", 0, 1)
      /\ tb_2store[0] # tb_lrsc[0]
  <2>1. tb_lrsc[0][1] = LoadReserved("x", 0) /\ tb_lrsc[0][2] = StoreConditional("x", 0, 1)
    BY <1>2
  <2> QED
    BY <1>4, <1>5, <2>1
<1>7. (Halted(0) <=> cpu[0].pc > 2) /\ (~Halted(0) => cpu[0].pc \in {1, 2})
  <2>1. Len(prog[0]) = 2
    BY <1>3 DEF Watched
  <2> QED
    BY <1>1, <2>1 DEF Halted
<1>8. \A i \in {0, 1} : Cell("x", i).line = "x"
  BY DEF Cell
<1>9. CASE prog[0] = tb_2store[0]
  BY <1>4, <1>6, <1>7, <1>8, <1>9 DEF Access, Stored
<1>10. CASE prog[0] = tb_lrsc[0]
  BY <1>5, <1>6, <1>7, <1>8, <1>10 DEF Access, Stored
<1> QED
  BY <1>9, <1>10 DEF Watched

\* An answer to core 0 is one to its store, its load or its store-conditional.
LEMMA LandAnswer ==
  ASSUME RigInv, "x" \in Lines, Watched, NEW issue \in [Core -> BOOLEAN], Clock(issue), l1'[0].ready
  PROVE  /\ ~l1[0].ready /\ cpu'[0] = cpu[0] /\ cpu[0].pc \in {1, 2} /\ Answer(0)
         /\ Access(0).addr.line = "x"
         /\ prog[0] = tb_2store[0] => Pulse(0, Cell("x", cpu[0].pc - 1), 1)'
         /\ prog[0] = tb_lrsc[0] => /\ cpu[0].pc = 1 => ~l1'[0].write_req
                                    /\ l1'[0].write_req => Pulse(0, Cell("x", 0), 1)'
<1>1. /\ ~l1[0].ready /\ cpu'[0] = cpu[0] /\ ~Halted(0) /\ Answer(0)
      /\ Access(0)' = Access(0) /\ Stored(0)' = Stored(0)
  BY AnswerIs DEF Core
<1>2. cpu[0].pc \in {1, 2} /\ Access(0).addr.line = "x"
  BY <1>1, LandNames
<1>3. ASSUME prog[0] = tb_2store[0] PROVE Pulse(0, Cell("x", cpu[0].pc - 1), 1)'
  <2>1. Access(0).op = "sw" /\ Access(0).addr = Cell("x", cpu[0].pc - 1) /\ Stored(0) = 1
    BY <1>2, <1>3, LandNames
  <2> QED
    BY <1>1, <2>1 DEF Answer, Pulse
<1>4. ASSUME prog[0] = tb_lrsc[0]
      PROVE  /\ cpu[0].pc = 1 => ~l1'[0].write_req
             /\ l1'[0].write_req => Pulse(0, Cell("x", 0), 1)'
  <2>1. CASE cpu[0].pc = 1
    BY <1>1, <1>4, <2>1, LandNames DEF Answer
  <2>2. CASE cpu[0].pc = 2
    <3>1. Access(0).op = "sc" /\ Access(0).addr = Cell("x", 0) /\ Stored(0) = 1
      BY <1>4, <2>2, LandNames
    <3> QED
      BY <1>1, <2>2, <3>1 DEF Answer, Pulse
  <2> QED
    BY <1>2, <2>1, <2>2
<1> QED
  BY <1>1, <1>2, <1>3, <1>4

\* After a store the line is there, and a line that was there before holds the word.
LEMMA StoreHeld ==
  ASSUME RigInv, NEW issue \in [Core -> BOOLEAN], Clock(issue), NEW c \in Core,
         l1'[c].ready, Access(c).op = "sw"
  PROVE  LET k == l1[c]
             a == Access(c).addr IN
         /\ Hits(l1'[c], a.line) # {}
         /\ Hits(k, a.line) # {} =>
              /\ HitWay(k, a.line) \in Hits(l1'[c], a.line)
              /\ l1'[c].data[HitWay(k, a.line)][a.word] = Stored(c)
<1> DEFINE k == l1[c]
           n == l1'[c]
           a == Access(c).addr
           q == Latched(c, issue[c], k)
           p == Capture(c, k)
<1>1. Moves(c, k, n, q, p) /\ CacheOK(k)
  BY Edge DEF RigInv, TypeOK
<1>2. k.state \in {"CHECK", "WAITM_RD"} /\ cpu[c].issued /\ ~k.ready
  BY AnswerIs
<1>3. k.req.op = "sw" /\ k.req.addr = a /\ k.req.val = Stored(c)
  <2>1. k.req = [op |-> Access(c).op, addr |-> a, val |-> Stored(c)]
    BY <1>2 DEF RigInv, Shape, RequestOK
  <2> QED
    BY <2>1
<1>4. k.tag \in [Way -> Lines] /\ k.fill_way \in Way
  BY <1>1 DEF CacheOK, LinesOK
<1> HIDE DEF p, q, n, k, a
<1>5. n.ready
  BY DEF n
<1>6. CASE k.state = "CHECK"
  <2>1. FromCheck(k, n, p)
    BY <1>1, <1>6 DEF Moves
  <2>2. Hits(k, a.line) # {} /\ Stores(k, n, HitWay(k, a.line)) /\ n.tag = k.tag
    BY <1>3, <1>5, <2>1 DEF FromCheck, Rests
  <2>3. HitWay(k, a.line) \in Way /\ k.tag[HitWay(k, a.line)] = a.line
    BY <2>2, HitFacts
  <2>4. HitWay(k, a.line) \in Hits(n, a.line)
    BY <2>2, <2>3, HitFacts DEF Stores
  <2> QED
    BY <1>3, <2>2, <2>4 DEF Stores, n, k, a
<1>7. CASE k.state = "WAITM_RD"
  <2>1. FromRefill(c, k, n, p)
    BY <1>1, <1>7 DEF Moves
  <2>2. k.pending_write /\ Hits(k, a.line) = {}
    BY <1>3, <1>7 DEF RigInv, Shape, RefillOK, k
  <2>3. n.tag = [k.tag EXCEPT ![k.fill_way] = a.line] /\ n.msi[k.fill_way] = "M"
    BY <1>3, <1>5, <2>1, <2>2 DEF FromRefill, Rests
  <2>4. k.fill_way \in Hits(n, a.line)
    BY <1>4, <2>3, HitFacts
  <2> QED
    BY <2>2, <2>4 DEF n, k, a
<1> QED
  BY <1>2, <1>6, <1>7 DEF k

\* Core 0's writes to word 0 are its store's or its store-conditional's.
LEMMA WritesOneStays ==
  ASSUME RigInv, "x" \in Lines, Watched, NEW issue \in [Core -> BOOLEAN], Clock(issue)
  PROVE  WritesOne(0)'
<1>1. CASE l1'[0].ready
  <2>1. l1'[0].write_req => \E w \in {0, 1} : Pulse(0, Cell("x", w), 1)'
    BY <1>1, LandAnswer DEF Watched
  <2> QED
    BY <2>1 DEF WritesOne, Pulse
<1>2. CASE ~l1'[0].ready
  <2>1. l1'[0].write_req => l1'[0].mem_addr.word # 0
    BY <1>2, WritesAre DEF Core
  <2> QED
    BY <2>1 DEF WritesOne, Cell
<1> QED
  BY <1>1, <1>2

\* The line core 0 has used stays with it.
LEMMA KeptStays ==
  ASSUME RigInv, "x" \in Lines, Watched, Undisturbed, NEW issue \in [Core -> BOOLEAN], Clock(issue)
  PROVE  /\ Kept => ~l1[0].read_req /\ Kept'
         /\ Over(0, 1) => Over(0, 1)'
         /\ (Over(0, 1) => Kept) => (Over(0, 1)' => Kept')
<1>1. 0 \in Core
  BY DEF Core
<1>2. ASSUME Kept PROVE ~l1[0].read_req
  <2>1. SUFFICES ASSUME l1[0].read_req PROVE FALSE
    OBVIOUS
  <2>2. RefillOK(0) /\ RequestOK(0)
    BY <1>1 DEF RigInv, Shape
  <2>3. l1[0].req # NoReq /\ Hits(l1[0], l1[0].req.addr.line) = {}
    BY <2>1, <2>2 DEF RefillOK
  <2>4. l1[0].req = [op |-> Access(0).op, addr |-> Access(0).addr, val |-> Stored(0)] /\ ~Halted(0)
    BY <2>2, <2>3 DEF RequestOK
  <2>5. l1[0].req.addr.line = "x"
    BY <2>4, LandNames
  <2> QED
    BY <1>2, <2>3, <2>5 DEF Kept
<1>3. ASSUME Kept PROVE Kept'
  <2>1. PICK w \in Way : l1[0].msi[w] # "I" /\ l1[0].tag[w] = "x"
    BY <1>3, HitFacts DEF Kept
  <2>2. l1'[0].tag = l1[0].tag /\ l1'[0].msi[w] # "I"
    BY <1>1, <1>2, <1>3, <2>1, LinesMove DEF Undisturbed
  <2> QED
    BY <2>1, <2>2, HitFacts DEF Kept
<1>4. ~Halted(0) => Access(0).want = -1
  BY LandNames
<1>5. Over(0, 1) => Over(0, 1)'
  BY <1>1, <1>4, OverStays
<1>6. ~Over(0, 1) /\ Over(0, 1)' => Kept'
  <2> SUFFICES ASSUME ~Over(0, 1), Over(0, 1)' PROVE Kept'
    OBVIOUS
  <2>1. cpu[0].pc = 1 /\ l1'[0].ready
    BY <1>1, <1>4, OverComes
  <2>2. Answer(0) /\ Access(0).addr.line = "x" /\ l1[0].state \in {"CHECK", "WAITM_RD"}
    BY <1>1, <2>1, AnswerIs, LandAnswer
  <2>3. CASE prog[0] = tb_lrsc[0]
    BY <2>1, <2>2, <2>3, LandNames DEF Answer, Kept
  <2>4. CASE prog[0] = tb_2store[0]
    <3>1. Access(0).op = "sw"
      BY <2>1, <2>4, LandNames
    <3> QED
      BY <1>1, <2>1, <2>2, <3>1, StoreHeld DEF Kept
  <2> QED
    BY <2>3, <2>4 DEF Watched
<1> QED
  BY <1>2, <1>3, <1>5, <1>6

\* When both accesses are over, core 0's cache answers nothing and its line is as it was.
LEMMA AfterBoth ==
  ASSUME RigInv, "x" \in Lines, Watched, Undisturbed, Kept, Over(0, 2),
         NEW issue \in [Core -> BOOLEAN], Clock(issue)
  PROVE  /\ ~l1'[0].ready /\ Over(0, 2)'
         /\ Hits(l1'[0], "x") \subseteq Hits(l1[0], "x") /\ l1'[0].data = l1[0].data
<1>1. 0 \in Core
  BY DEF Core
<1>2. ~l1'[0].ready
  BY LandAnswer DEF Over
<1>3. Over(0, 2)'
  BY <1>1, OverStays, LandNames
<1>4. /\ l1'[0].tag = l1[0].tag /\ l1'[0].data = l1[0].data
      /\ \A w \in Way : l1'[0].msi[w] # "I" => l1[0].msi[w] # "I"
  BY <1>1, <1>2, KeptStays, LinesMove DEF Undisturbed
<1> QED
  BY <1>2, <1>3, <1>4 DEF Hits

LEMMA StoreLandsStep ==
  ASSUME RigInv, "x" \in Lines, Watched, LandInv, NEW issue \in [Core -> BOOLEAN], Clock(issue), Single(0)'
  PROVE  StoreLands'
<1> SUFFICES ASSUME prog[0] = tb_2store[0] PROVE StoreLands'
  BY DEF StoreLands, Clock
<1>1. 0 \in Core /\ 0 \in Word /\ 1 \in Word
  BY LineAssumption DEF Core, Word
<1>2. /\ Undisturbed /\ Single(0) /\ WritesOne(0) /\ (Over(0, 1) => Kept)
      /\ Over(0, 1) => Landed(0)
      /\ Over(0, 2) => /\ Landed(1) /\ WritesOne(1)
                       /\ \A w \in Hits(l1[0], "x") : l1[0].data[w][1] = 1
  BY DEF LandInv, StoreLands
<1>3. ~Halted(0) => Access(0).want = -1
  BY LandNames
<1>4. Over(0, 2) => Over(0, 1)
  BY <1>1 DEF Over, RigInv, TypeOK, Cpu
<1>5. ASSUME Over(0, 1)' PROVE Landed(0)'
  <2>1. CASE Over(0, 1)
    BY <1>1, <1>2, <2>1, LandedStays
  <2>2. CASE ~Over(0, 1)
    <3>1. cpu[0].pc = 1 /\ l1'[0].ready
      BY <1>1, <1>3, <1>5, <2>2, OverComes
    <3> QED
      BY <3>1, LandAnswer DEF Landed
  <2> QED
    BY <2>1, <2>2
\* The second store: it finds the line, and writes it and the memory.
<1>6. ASSUME ~Over(0, 2), Over(0, 2)'
      PROVE  /\ Landed(1)' /\ WritesOne(1)'
             /\ \A w \in Hits(l1'[0], "x") : l1'[0].data[w][1] = 1
  <2>1. cpu[0].pc = 2 /\ l1'[0].ready
    BY <1>1, <1>3, <1>6, OverComes
  <2>2. Pulse(0, Cell("x", 1), 1)' /\ Kept
    BY <1>2, <2>1, LandAnswer DEF Over
  <2>3. Access(0).op = "sw" /\ Access(0).addr = Cell("x", 1) /\ Stored(0) = 1
    BY <2>1, LandNames
  <2>4. /\ HitWay(l1[0], "x") \in Hits(l1'[0], "x")
        /\ l1'[0].data[HitWay(l1[0], "x")][1] = 1
    BY <1>1, <2>1, <2>2, <2>3, StoreHeld DEF Kept, Cell
  <2>5. \A w \in Hits(l1'[0], "x") : w = HitWay(l1[0], "x")
    BY <2>4 DEF Single
  <2> QED
    BY <2>1, <2>2, <2>4, <2>5 DEF Landed, WritesOne, Pulse
\* A write-back after it writes the same.
<1>7. ASSUME Over(0, 2)
      PROVE  /\ Landed(1)' /\ WritesOne(1)'
             /\ \A w \in Hits(l1'[0], "x") : l1'[0].data[w][1] = 1
  <2>1. Landed(1)'
    BY <1>1, <1>2, <1>7, LandedStays
  <2>2. ~l1'[0].ready /\ Hits(l1'[0], "x") \subseteq Hits(l1[0], "x") /\ l1'[0].data = l1[0].data
    BY <1>2, <1>4, <1>7, AfterBoth
  <2>3. WritesOne(1)'
    <3>1. SUFFICES ASSUME l1'[0].write_req, l1'[0].mem_addr = Cell("x", 1) PROVE l1'[0].mem_wdata = 1
      BY DEF WritesOne
    <3>2. /\ l1[0].state = "SNOOP_WB" /\ l1[0].tag[l1[0].pend.way] = "x"
          /\ l1'[0].mem_wdata = l1[0].data[l1[0].pend.way][1]
      BY <1>1, <2>2, <3>1, WritesAre DEF Cell
    <3>3. l1[0].pend.way \in Way /\ l1[0].msi[l1[0].pend.way] # "I"
      BY <1>1, <3>2 DEF RigInv, Shape, SnoopOK, TypeOK, CacheOK, BusOK, Snoops
    <3>4. l1[0].pend.way \in Hits(l1[0], "x")
      BY <3>2, <3>3, HitFacts
    <3> QED
      BY <1>2, <1>7, <3>2, <3>4
  <2> QED
    BY <1>2, <1>7, <2>1, <2>2, <2>3
<1> QED
  BY <1>5, <1>6, <1>7 DEF StoreLands

LEMMA ConditionalStep ==
  ASSUME RigInv, "x" \in Lines, Watched, LandInv, NEW issue \in [Core -> BOOLEAN], Clock(issue)
  PROVE  ConditionalLands'
<1> SUFFICES ASSUME prog[0] = tb_lrsc[0] PROVE ConditionalLands'
  BY DEF ConditionalLands, Clock
<1>1. 0 \in Core /\ 0 \in Word
  BY LineAssumption DEF Core, Word
<1>2. /\ Undisturbed /\ WritesOne(0) /\ (Over(0, 1) => Kept)
      /\ Over(0, 1) /\ ~Over(0, 2) => l1[0].reserved /\ l1[0].reservation = Cell("x", 0)
      /\ Over(0, 2) => Landed(0)
      /\ cpu[0].pc = 2 /\ l1[0].ready => l1[0].rdata = 0
      /\ cpu[0].pc > 2 => cpu[0].r = 0
  BY DEF LandInv, ConditionalLands
<1>3. ~Halted(0) => Access(0).want = -1
  BY LandNames
\* The load reserves the word.
<1>4. ASSUME l1'[0].ready, cpu[0].pc = 1
      PROVE  l1'[0].reserved /\ l1'[0].reservation = Cell("x", 0)
  BY <1>4, LandAnswer, LandNames DEF Answer
\* The store finds the reservation and the line.
<1>5. ASSUME l1'[0].ready, cpu[0].pc = 2
      PROVE  l1'[0].rdata = 0 /\ Pulse(0, Cell("x", 0), 1)'
  <2>1. ~l1[0].ready /\ Answer(0) /\ Access(0)' = Access(0) /\ Stored(0)' = Stored(0)
    BY <1>1, <1>5, AnswerIs
  <2>2. Over(0, 1) /\ ~Over(0, 2)
    BY <1>5, <2>1 DEF Over
  <2>3. Access(0).op = "sc" /\ Access(0).addr = Cell("x", 0) /\ Stored(0) = 1
    BY <1>5, LandNames
  <2>4. Access(0).addr.line = "x"
    BY <2>3 DEF Cell
  <2> QED
    BY <1>2, <2>1, <2>2, <2>3, <2>4 DEF Answer, Pulse, Kept
<1>6. ASSUME Over(0, 1)', ~Over(0, 2)'
      PROVE  l1'[0].reserved /\ l1'[0].reservation = Cell("x", 0)
  <2>1. ~Over(0, 2)
    BY <1>1, <1>3, <1>6, OverStays
  <2>2. CASE ~Over(0, 1)
    BY <1>1, <1>3, <1>4, <1>6, <2>2, OverComes
  <2>3. CASE Over(0, 1)
    <3>1. ~l1'[0].ready
      <4>1. SUFFICES ASSUME l1'[0].ready PROVE FALSE
        OBVIOUS
      <4>2. cpu[0].pc = 2 /\ cpu'[0] = cpu[0]
        BY <2>3, <4>1, LandAnswer DEF Over
      <4> QED
        BY <1>6, <4>1, <4>2 DEF Over
    <3>2. l1'[0].reserved = l1[0].reserved /\ l1'[0].reservation = l1[0].reservation
      BY <1>1, <1>2, <3>1, LinesMove DEF Undisturbed
    <3> QED
      BY <1>2, <2>1, <2>3, <3>2
  <2> QED
    BY <2>2, <2>3
<1>7. ASSUME Over(0, 2)' PROVE Landed(0)'
  <2>1. CASE Over(0, 2)
    BY <1>1, <1>2, <2>1, LandedStays
  <2>2. CASE ~Over(0, 2)
    <3>1. cpu[0].pc = 2 /\ l1'[0].ready
      BY <1>1, <1>3, <1>7, <2>2, OverComes
    <3> QED
      BY <1>5, <3>1 DEF Landed
  <2> QED
    BY <2>1, <2>2
<1>8. cpu'[0].pc = 2 /\ l1'[0].ready => l1'[0].rdata = 0
  BY <1>5, LandAnswer
<1>9. cpu'[0].pc > 2 => cpu'[0].r = 0
  <2>1. cpu[0].pc \in Nat \ {0} /\ cpu'[0].pc \in Nat \ {0}
    BY <1>1, TypesStep DEF RigInv, TypeOK, Cpu, Next
  <2>2. cpu[0].issued => ~Halted(0)
    BY <1>1 DEF RigInv, Shape, RequestOK
  <2>3. cpu[0].pc = 2 => Access(0).op = "sc"
    BY LandNames
  <2>4. CASE cpu[0].issued /\ l1[0].ready /\ cpu'[0].pc = Onward(0, Result(0)) /\ cpu'[0].r = Result(0)
    BY <1>2, <1>3, <2>1, <2>2, <2>3, <2>4, LandNames DEF Onward, Result
  <2>5. CASE cpu'[0].pc = cpu[0].pc /\ cpu'[0].r = cpu[0].r
    BY <1>2, <2>5
  <2> QED
    BY <1>1, <2>4, <2>5, CoreMoves
<1> QED
  BY <1>6, <1>7, <1>8, <1>9 DEF ConditionalLands

\* tb_lrsc.cpp and tb_2store.cpp with a second core that only reads, the lines it likes,
\* in any order and at any pace: when core 0 is done its stores are in memory, and its
\* SC.W has succeeded, whatever its cache had to write back for the other's refills.
THEOREM StoresSurviveReaders == ASSUME "x" \in Lines PROVE Spec => []StoresLand
<1> DEFINE Inv == RigInv /\ LandInv
<1>1. Init => Inv
  <2> SUFFICES ASSUME Init PROVE Inv
    OBVIOUS
  <2>1. RigInv
    BY RigStarts
  <2>2. /\ cpu[0].pc = 1 /\ l1[0] = Reset /\ l1[1] = Reset
    BY DEF Init, Core
  <2>3. /\ ~Reset.ready /\ ~Reset.write_req /\ Reset.state = "IDLE"
        /\ ~Reset.pend.write /\ Reset.pend.msi = "I" /\ \A w \in Way : Reset.msi[w] = "I"
    BY DEF Reset, NoSnoop
  <2>4. ~Over(0, 1) /\ ~Over(0, 2)
    BY <2>2, <2>3 DEF Over
  <2>5. Undisturbed /\ WritesOne(0)
    BY <2>2, <2>3 DEF Undisturbed, Clean, WritesOne
  <2>6. Single(0)
    BY <2>2, <2>3, HitFacts DEF Single
  <2> QED
    BY <2>1, <2>2, <2>3, <2>4, <2>5, <2>6 DEF LandInv, StoreLands, ConditionalLands
<1>2. Inv /\ [Next]_vars => Inv'
  <2> SUFFICES ASSUME Inv, [Next]_vars PROVE Inv'
    OBVIOUS
  <2>1. RigInv'
    BY RigStep
  <2>2. CASE UNCHANGED vars
    BY <2>1, <2>2 DEF vars, LandInv, Watched, Undisturbed, Clean, Single, Kept, StoreLands, ConditionalLands,
                      WritesOne, Over, Landed, Pulse, Hits
  <2>3. ASSUME NEW issue \in [Core -> BOOLEAN], Clock(issue) PROVE Inv'
    <3>1. SUFFICES ASSUME Watched PROVE LandInv'
      BY <2>1, <2>3 DEF LandInv, Watched, Clock
    <3>2. Undisturbed /\ Single(0) /\ (Over(0, 1) => Kept)
      BY <3>1 DEF LandInv
    <3>3. Undisturbed' /\ Single(0)'
      BY <2>3, <3>1, <3>2, UndisturbedStays, SingleStays DEF Watched, Core
    <3>4. WritesOne(0)' /\ (Over(0, 1)' => Kept')
      BY <2>3, <3>1, <3>2, WritesOneStays, KeptStays
    <3>5. StoreLands' /\ ConditionalLands'
      BY <2>3, <3>1, <3>3, StoreLandsStep, ConditionalStep
    <3> QED
      BY <3>3, <3>4, <3>5 DEF LandInv
  <2> QED
    BY <2>2, <2>3 DEF Next
<1>3. Inv => StoresLand
  <2> SUFFICES ASSUME Inv, Watched, Halted(0)
               PROVE  /\ prog[0] = tb_2store[0] => \A w \in {0, 1} : mem[Cell("x", w)] = 1
                      /\ prog[0] = tb_lrsc[0] => cpu[0].r = 0 /\ mem[Cell("x", 0)] = 1
    BY DEF StoresLand, LrscFails, StoresFail, Watched, Cell
  <2>1. cpu[0].pc > 2 /\ ~l1[0].ready
    BY LandNames DEF RigInv, Shape, RequestOK, Core
  <2>2. Over(0, 1) /\ Over(0, 2)
    BY <2>1 DEF Over, RigInv, TypeOK, Cpu, Core
  <2> QED
    BY <2>1, <2>2 DEF LandInv, StoreLands, ConditionalLands, Landed
<1> QED
  BY <1>1, <1>2, <1>3, PTL DEF Spec

-----------------------------------------------------------------------------
(* Store buffering.                                                        *)

Own(c)    == IF c = 0 THEN "x" ELSE "y"
Theirs(c) == Own(1 - c)
Full(l)   == mem[Cell(l, 0)] = 1
Sends(c)  == Pulse(c, Cell(Own(c), 0), 1)
Sent0     == Full("x") \/ Sends(0)

\* Core c has read a zero in the other's line, and may still be refilling it.
SawZero(c) ==
  \/ /\ cpu[c].pc = 2 /\ l1[c].read_req /\ l1[c].fill_cnt > 0
     /\ l1[c].data[l1[c].fill_way][0] = 0
  \/ cpu[c].pc = 2 /\ l1[c].ready /\ l1[c].rdata = 0
  \/ cpu[c].pc > 2 /\ cpu[c].r = 0

\* Words 0 of the two lines: each core writes its own, and it writes a one.
OwnOnes(c) ==
  l1[c].write_req /\ l1[c].mem_addr.word = 0 /\ l1[c].mem_addr.line \in {"x", "y"} =>
    l1[c].mem_addr.line = Own(c) /\ l1[c].mem_wdata = 1

\* Core 0's store is never lost.  Core 1's is, when core 0 owns the bus: then core 0 is
\* still fetching its line, and its own store comes before anything core 1 reads.
SbInv ==
  prog = tb_litmus_sb =>
    /\ \A c \in Core : OwnOnes(c) /\ (~Over(c, 2) => Hits(l1[c], Theirs(c)) = {})
    /\ Sent0 \/ (~Over(0, 1) /\ Clean(0))
    /\ Over(1, 1) => Full("y") \/ Sends(1) \/ Sent0 \/ l1[0].read_req
    /\ SawZero(1) => Full("y")
    /\ ~(SawZero(0) /\ SawZero(1))

LitmusLines == {"x", "y", "done"} \subseteq Lines

LEMMA SbNames ==
  ASSUME RigInv, prog = tb_litmus_sb, NEW c \in Core
  PROVE  /\ Halted(c) <=> cpu[c].pc > 3
         /\ ~Halted(c) => cpu[c].pc \in {1, 2, 3} /\ Access(c).want = -1
         /\ cpu[c].pc = 1 => Access(c).op = "sw" /\ Access(c).addr = Cell(Own(c), 0) /\ Stored(c) = 1
         /\ cpu[c].pc = 2 => Access(c).op = "lw" /\ Access(c).addr = Cell(Theirs(c), 0)
         /\ cpu[c].pc = 3 => Access(c).op = "sw" /\ Access(c).addr.line = "done"
         /\ Own(c) \in {"x", "y"} /\ Theirs(c) \in {"x", "y"} /\ Own(c) # Theirs(c)
<1>1. cpu[c].pc \in Nat \ {0}
  BY DEF RigInv, TypeOK, Cpu
<1>2. Own(c) = (IF c = 0 THEN "x" ELSE "y") /\ Theirs(c) = (IF c = 0 THEN "y" ELSE "x")
  BY DEF Own, Theirs, Core
<1>3. prog[c] = <<Store(Own(c), 0, 1), Load(Theirs(c), 0), Record("done", c, 0)>>
  BY <1>2 DEF tb_litmus_sb, Both, Core
<1>4. Len(prog[c]) = 3
  BY <1>3
<1>5. /\ prog[c][1].op = "sw" /\ prog[c][1].addr = Cell(Own(c), 0) /\ prog[c][1].imm = 1
      /\ prog[c][1].acc = FALSE /\ prog[c][1].want = -1
  BY <1>3 DEF Store, Access3, Cell
<1>6. prog[c][2].op = "lw" /\ prog[c][2].addr = Cell(Theirs(c), 0) /\ prog[c][2].want = -1
  BY <1>3 DEF Load, Access3, Cell
<1>7. prog[c][3].op = "sw" /\ prog[c][3].addr.line = "done" /\ prog[c][3].want = -1
  <2> DEFINE a == Access3("sw", "done", c)
             s == [a EXCEPT !.imm = 0]
  <2>1. a = [op |-> "sw", addr |-> [line |-> "done", word |-> c], imm |-> 0,
             acc |-> FALSE, want |-> -1, back |-> 0]
    BY DEF Access3
  <2>2. prog[c][3] = [s EXCEPT !.acc = TRUE]
    BY <1>3 DEF Record, Store
  <2> HIDE DEF a
  <2>3. a.op = "sw" /\ a.addr.line = "done" /\ a.want = -1
    BY <2>1
  <2>4. s.op = a.op /\ s.addr = a.addr /\ s.want = a.want /\ DOMAIN s = DOMAIN a
    BY <2>1
  <2>5. {"op", "addr", "want", "acc"} \subseteq DOMAIN a
    BY <2>1
  <2> HIDE DEF s
  <2> QED
    BY <2>2, <2>3, <2>4, <2>5
<1>8. (Halted(c) <=> cpu[c].pc > 3) /\ (~Halted(c) => cpu[c].pc \in {1, 2, 3})
  BY <1>1, <1>4 DEF Halted
<1>9. Own(c) \in {"x", "y"} /\ Theirs(c) \in {"x", "y"} /\ Own(c) # Theirs(c)
  BY <1>2
<1> QED
  BY <1>5, <1>6, <1>7, <1>8, <1>9 DEF Access, Stored

\* What an answer of the program is.
LEMMA SbAnswer ==
  ASSUME RigInv, prog = tb_litmus_sb, NEW issue \in [Core -> BOOLEAN], Clock(issue), NEW c \in Core,
         l1'[c].ready
  PROVE  /\ cpu'[c] = cpu[c] /\ ~l1[c].ready /\ cpu[c].pc \in {1, 2, 3} /\ Answer(c)
         /\ cpu[c].pc = 1 => Sends(c)'
         /\ cpu[c].pc = 2 => ~l1'[c].write_req
         /\ cpu[c].pc = 3 => l1'[c].mem_addr.line = "done"
<1>1. /\ cpu'[c] = cpu[c] /\ ~l1[c].ready /\ ~Halted(c) /\ Answer(c)
      /\ Access(c)' = Access(c) /\ Stored(c)' = Stored(c)
  BY AnswerIs
<1>2. cpu[c].pc \in {1, 2, 3}
  BY <1>1, SbNames
<1>3. cpu[c].pc = 1 => Sends(c)'
  <2>1. Own(c)' = Own(c)
    BY DEF Own
  <2> QED
    BY <1>1, <2>1, SbNames DEF Answer, Sends, Pulse
<1>4. cpu[c].pc = 2 => ~l1'[c].write_req
  BY <1>1, SbNames DEF Answer
<1>5. cpu[c].pc = 3 => l1'[c].mem_addr.line = "done"
  BY <1>1, SbNames DEF Answer, Pulse
<1> QED
  BY <1>1, <1>2, <1>3, <1>4, <1>5

LEMMA SbOwnOnes ==
  ASSUME RigInv, prog = tb_litmus_sb, NEW issue \in [Core -> BOOLEAN], Clock(issue), NEW c \in Core
  PROVE  OwnOnes(c)'
<1>1. Own(c)' = Own(c)
  BY DEF Own
<1>2. CASE l1'[c].ready
  <2>1. cpu[c].pc \in {1, 2, 3}
    BY <1>2, SbAnswer
  <2>2. CASE cpu[c].pc = 1
    <3>1. Sends(c)'
      BY <1>2, <2>2, SbAnswer
    <3> QED
      BY <1>1, <3>1 DEF OwnOnes, Sends, Pulse, Cell
  <2>3. CASE cpu[c].pc = 2
    BY <1>2, <2>3, SbAnswer DEF OwnOnes
  <2>4. CASE cpu[c].pc = 3
    BY <1>2, <2>4, SbAnswer DEF OwnOnes
  <2> QED
    BY <2>1, <2>2, <2>3, <2>4
<1>3. CASE ~l1'[c].ready
  BY <1>3, WritesAre DEF OwnOnes
<1> QED
  BY <1>2, <1>3

LEMMA SbLines ==
  ASSUME RigInv, SbInv, prog = tb_litmus_sb, NEW issue \in [Core -> BOOLEAN], Clock(issue), NEW c \in Core,
         ~Over(c, 2)'
  PROVE  Hits(l1'[c], Theirs(c)) = {}
<1>1. ~Over(c, 2)
  BY OverStays, SbNames
<1>2. Hits(l1[c], Theirs(c)) = {}
  BY <1>1 DEF SbInv
<1>3. SUFFICES ASSUME Hits(l1'[c], Theirs(c)) # {} PROVE FALSE
  OBVIOUS
<1>4. l1'[c].ready /\ Access(c).addr.line = Theirs(c)
  BY <1>2, <1>3, LinesAre
<1>5. cpu'[c].pc = cpu[c].pc /\ cpu[c].pc \in {1, 2, 3}
  BY <1>4, SbAnswer
<1>6. cpu[c].pc = 2 \/ cpu[c].pc = 3
  <2>1. CASE cpu[c].pc = 1
    <3>1. Access(c).addr = Cell(Own(c), 0) /\ Own(c) # Theirs(c)
      BY <2>1, SbNames
    <3>2. Access(c).addr.line = Own(c)
      BY <3>1 DEF Cell
    <3> QED
      BY <1>4, <3>1, <3>2
  <2> QED
    BY <1>5, <2>1
<1> QED
  BY <1>4, <1>5, <1>6 DEF Over

\* Core c reads the zero at the edge that takes word 0 of the line.
LEMMA SawComes ==
  ASSUME RigInv, SbInv, prog = tb_litmus_sb, NEW issue \in [Core -> BOOLEAN], Clock(issue), NEW c \in Core,
         SawZero(c)', ~SawZero(c)
  PROVE  grant = c /\ l1[c].read_req /\ cpu[c].pc = 2 /\ mem[Cell(Theirs(c), 0)] = 0
<1> DEFINE k == l1[c]
           n == l1'[c]
<1>0. cpu[c].pc \in Nat \ {0} /\ cpu'[c].pc \in Nat \ {0}
  BY TypesStep DEF RigInv, TypeOK, Cpu, Next
<1>1. CASE cpu'[c].pc = 2 /\ n.read_req /\ n.fill_cnt > 0 /\ n.data[n.fill_way][0] = 0
  <2>1. ~n.ready
    <3>1. RigInv'
      BY RigStep DEF Next
    <3>2. n.state = "WAITM_RD" /\ n.req # NoReq
      BY <1>1, <3>1 DEF RigInv, Shape, RefillOK
    <3> QED
      BY <3>1, <3>2 DEF RigInv, Shape, RequestOK
  <2>2. k.state = "WAITM_RD" /\ FromRefill(c, k, n, Capture(c, k)) /\ CacheOK(k)
    <3>1. Moves(c, k, n, Latched(c, issue[c], k), Capture(c, k)) /\ k.state \in States /\ CacheOK(k)
      BY Edge DEF RigInv, TypeOK, CacheOK, ControlOK
    <3> HIDE DEF k, n
    <3>2. k.state = "WAITM_RD"
      BY <1>1, <3>1 DEF Moves, States, FromIdle, FromCheck, FromSnoopWb, FromSnoopInv, Answers
    <3> QED
      BY <3>1, <3>2 DEF Moves, k, n
  <2>3. k.read_req /\ k.req # NoReq /\ RefillOK(c)
    BY <2>2 DEF RigInv, Shape, RefillOK
  <2>4. cpu'[c] = cpu[c] /\ cpu[c].issued /\ k.req.addr = Cell(Theirs(c), 0)
    <3>1. cpu[c].issued /\ ~k.ready /\ ~Ready(c)
      BY <2>3, Engaged DEF RigInv
    <3>2. cpu'[c] = cpu[c]
      BY <3>1, CoreMoves
    <3>3. k.req = [op |-> Access(c).op, addr |-> Access(c).addr, val |-> Stored(c)]
      BY <3>1 DEF RigInv, Shape, RequestOK
    <3>4. Access(c).addr = Cell(Theirs(c), 0)
      BY <1>1, <3>2, SbNames
    <3> QED
      BY <3>1, <3>2, <3>3, <3>4
  <2>5. CASE read_ack(c) /\ k.fill_cnt = 0
    <3>1. tog[c] /\ grant = c
      BY <2>5 DEF read_ack
    <3>2. rdata = mem[Cell(Theirs(c), 0)]
      BY <2>3, <2>4, <2>5, <3>1 DEF RefillOK, Cell
    <3>3. n.data = [k.data EXCEPT ![k.fill_way][0] = rdata] /\ n.fill_way = k.fill_way
      BY <2>1, <2>2, <2>5 DEF FromRefill, Answers
    <3>4. n.data[n.fill_way][0] = rdata
      BY <2>2, <3>3, Zero DEF CacheOK, LinesOK
    <3> QED
      BY <1>1, <2>3, <2>4, <3>1, <3>2, <3>4
  <2>6. CASE ~(read_ack(c) /\ k.fill_cnt = 0)
    <3>1. k.fill_cnt > 0 /\ k.data[k.fill_way][0] = 0
      <4>0. k.fill_cnt \in Nat /\ k.data \in [Way -> [Word -> Int]] /\ k.fill_way \in Way /\ 0 \in Word
        BY <2>2, Zero DEF CacheOK, LinesOK, Word
      <4> HIDE DEF k, n
      <4>1. CASE ~read_ack(c)
        BY <1>1, <2>2, <4>1 DEF FromRefill, Rests
      <4>2. CASE read_ack(c)
        <5>1. n.data = [k.data EXCEPT ![k.fill_way][k.fill_cnt] = rdata] /\ n.fill_way = k.fill_way
          BY <2>1, <2>2, <4>2 DEF FromRefill, Answers
        <5> QED
          BY <1>1, <2>6, <4>0, <4>2, <5>1
      <4> QED
        BY <4>1, <4>2
    <3> QED
      BY <1>1, <2>3, <2>4, <3>1 DEF SawZero
  <2> QED
    BY <2>5, <2>6
<1>2. CASE cpu'[c].pc = 2 /\ n.ready /\ n.rdata = 0
  <2>1. cpu'[c] = cpu[c] /\ ~k.ready /\ Answer(c)
    BY <1>2, SbAnswer
  <2>2. cpu[c].pc = 2 /\ Access(c).op = "lw" /\ Access(c).addr = Cell(Theirs(c), 0)
    BY <1>2, <2>1, SbNames
  <2>3. Hits(k, Theirs(c)) = {}
    BY <2>1, <2>2 DEF Over, SbInv
  <2>4. k.read_req /\ k.fill_cnt = WORDS - 1 /\ k.data[k.fill_way][0] = 0
    BY <1>2, <2>1, <2>2, <2>3 DEF Answer, Cell
  <2> QED
    BY <2>2, <2>4, LineAssumption DEF SawZero
<1>3. CASE cpu'[c].pc > 2 /\ cpu'[c].r = 0
  <2>1. CASE cpu'[c].pc = cpu[c].pc /\ cpu'[c].r = cpu[c].r
    BY <1>3, <2>1 DEF SawZero
  <2>2. CASE cpu[c].issued /\ k.ready /\ cpu'[c].pc = Onward(c, Result(c)) /\ cpu'[c].r = Result(c)
    <3>1. ~Halted(c)
      BY <2>2 DEF RigInv, Shape, RequestOK
    <3>2. Onward(c, Result(c)) = cpu[c].pc + 1
      BY <3>1, SbNames DEF Onward
    <3>3. cpu[c].pc = 2 \/ cpu[c].pc = 3
      BY <1>0, <1>3, <2>2, <3>1, <3>2, SbNames
    <3>4. CASE cpu[c].pc = 2
      <4>1. Result(c) = k.rdata
        BY <3>4, SbNames DEF Result
      <4> QED
        BY <1>3, <2>2, <3>4, <4>1 DEF SawZero
    <3>5. CASE cpu[c].pc = 3
      <4>1. Result(c) = cpu[c].r
        BY <3>5, SbNames DEF Result
      <4> QED
        BY <1>3, <2>2, <3>5, <4>1 DEF SawZero
    <3> QED
      BY <3>3, <3>4, <3>5
  <2> QED
    BY <2>1, <2>2, CoreMoves
<1> QED
  BY <1>1, <1>2, <1>3 DEF SawZero

LEMMA SbStep ==
  ASSUME RigInv, SbInv, LitmusLines, NEW issue \in [Core -> BOOLEAN], Clock(issue)
  PROVE  SbInv'
<1> SUFFICES ASSUME prog = tb_litmus_sb PROVE SbInv'
  BY DEF SbInv, Clock
<1>1. 0 \in Core /\ 1 \in Core /\ 0 \in Word /\ Core = {0, 1}
  BY Zero DEF Core
<1>2. /\ \A c \in Core : OwnOnes(c) /\ (~Over(c, 2) => Hits(l1[c], Theirs(c)) = {})
      /\ Sent0 \/ (~Over(0, 1) /\ Clean(0))
      /\ Over(1, 1) => Full("y") \/ Sends(1) \/ Sent0 \/ l1[0].read_req
      /\ SawZero(1) => Full("y")
      /\ ~(SawZero(0) /\ SawZero(1))
  BY DEF SbInv
<1>3. \A c \in Core : Cell(Own(c), 0) \in Addr
  BY <1>1 DEF LitmusLines, Cell, Own, Addr
<1>4. \A c \in Core : Full(Own(c)) => Full(Own(c))'
  <2>1. SUFFICES ASSUME NEW c \in Core, Full(Own(c)) PROVE mem'[Cell(Own(c), 0)] = 1
    BY DEF Full, Own
  <2>2. CASE mem'[Cell(Own(c), 0)] = mem[Cell(Own(c), 0)]
    BY <2>1, <2>2 DEF Full
  <2>3. ASSUME NEW b \in Core, l1[b].write_req, l1[b].mem_addr = Cell(Own(c), 0),
               mem'[Cell(Own(c), 0)] = l1[b].mem_wdata
        PROVE  mem'[Cell(Own(c), 0)] = 1
    <3>1. OwnOnes(b) /\ Own(c) \in {"x", "y"}
      BY <1>2 DEF Own
    <3> QED
      BY <2>3, <3>1 DEF OwnOnes, Cell
  <2> QED
    BY <1>3, <2>2, <2>3, MemoryStep
<1>5. Full("x") => Full("x")'
  BY <1>1, <1>4 DEF Own
<1>6. Full("y") => Full("y")'
  BY <1>1, <1>4 DEF Own
<1>7. Sent0 => Sent0'
  <2>1. Sends(0) => Full("x")'
    BY <1>1, <1>3, MemoryStep DEF Sends, Full, Own
  <2> QED
    BY <1>5, <2>1 DEF Sent0
<1>8. \A c \in Core : OwnOnes(c)' /\ (~Over(c, 2)' => Hits(l1[c], Theirs(c))' = {})
  BY SbOwnOnes, SbLines DEF Hits, Theirs, Own
<1>9. \A c \in Core : ~Halted(c) => Access(c).want = -1
  BY SbNames
<1>10. (Sent0 \/ (~Over(0, 1) /\ Clean(0)))'
  <2>1. CASE ~Sent0 /\ ~l1'[0].ready
    <3>1. ~Over(0, 1) /\ Clean(0)
      BY <1>2, <2>1
    <3>2. ~Over(0, 1)'
      BY <1>1, <1>9, <2>1, <3>1, OverComes
    <3> QED
      BY <1>1, <2>1, <3>1, <3>2, CleanStays
  <2>2. CASE ~Sent0 /\ l1'[0].ready
    <3>1. cpu[0].pc \in {1, 2, 3} /\ (cpu[0].pc = 1 => Sends(0)')
      BY <1>1, <2>2, SbAnswer
    <3>2. ~Over(0, 1)
      BY <1>2, <2>2
    <3>3. Sends(0)'
      BY <3>1, <3>2 DEF Over
    <3> QED
      BY <3>3 DEF Sent0
  <2> QED
    BY <1>7, <2>1, <2>2
<1>11. Over(1, 1)' => (Full("y") \/ Sends(1) \/ Sent0 \/ l1[0].read_req)'
  <2>1. CASE ~Over(1, 1) /\ Over(1, 1)'
    <3>1. cpu[1].pc = 1 /\ l1'[1].ready
      BY <1>1, <1>9, <2>1, OverComes
    <3> QED
      BY <1>1, <3>1, SbAnswer
  <2>2. CASE Over(1, 1) /\ l1[0].read_req /\ ~Sent0
    <3>1. ~l1'[0].ready => l1'[0].read_req
      <4>1. l1[0].state = "WAITM_RD"
        BY <1>1, <2>2 DEF RigInv, Shape, RefillOK
      <4>2. FromRefill(0, l1[0], l1'[0], Capture(0, l1[0]))
        BY <1>1, <4>1, Edge DEF Moves
      <4> QED
        BY <4>2 DEF FromRefill, Answers
    <3>2. l1'[0].ready => Sent0'
      BY <1>2, <1>10, <2>2, <1>1, SbAnswer DEF Over, Sent0
    <3> QED
      BY <3>1, <3>2
  <2>3. CASE Sends(1) /\ ~l1[0].read_req /\ ~Sent0
    <3>1. ~l1[0].write_req
      BY <1>2, <2>3 DEF Clean
    <3>2. Full("y")'
      BY <1>1, <1>3, <2>3, <3>1, MemoryStep DEF Sends, Full, Own
    <3> QED
      BY <3>2
  <2> QED
    BY <1>2, <1>6, <1>7, <2>1, <2>2, <2>3
<1>12. \A c \in Core : SawZero(c)' =>
         SawZero(c) \/ (grant = c /\ l1[c].read_req /\ cpu[c].pc = 2 /\ mem[Cell(Theirs(c), 0)] = 0)
  BY SawComes
<1>13. grant = 1 => ~l1[0].read_req /\ ~l1[0].write_req
  BY DEF grant
<1>14. ~SawZero(1) /\ SawZero(1)' => Full("y") /\ ~Full("x") /\ grant = 1
  <2> SUFFICES ASSUME ~SawZero(1), SawZero(1)' PROVE Full("y") /\ ~Full("x") /\ grant = 1
    OBVIOUS
  <2>1. grant = 1 /\ l1[1].read_req /\ cpu[1].pc = 2 /\ mem[Cell("x", 0)] = 0
    BY <1>1, <1>12 DEF Theirs, Own
  <2>2. ~Sent0 /\ ~Sends(1) /\ Over(1, 1) /\ ~l1[0].read_req
    BY <1>1, <1>13, <2>1 DEF Sent0, Sends, Full, Pulse, Over, RigInv, Shape, RefillOK
  <2> QED
    BY <1>2, <2>1, <2>2 DEF Full
<1>15. SawZero(1)' => Full("y")'
  BY <1>2, <1>6, <1>14
<1>16. ~(SawZero(0)' /\ SawZero(1)')
  <2> SUFFICES ASSUME SawZero(0)', SawZero(1)' PROVE FALSE
    OBVIOUS
  <2>1. CASE SawZero(0)
    <3>1. ~SawZero(1) /\ Over(0, 1) /\ cpu[0].pc \in Nat
      BY <1>1, <1>2, <2>1 DEF SawZero, Over, RigInv, TypeOK, Cpu
    <3>2. Sent0 /\ ~Full("x") /\ grant = 1
      BY <1>2, <1>14, <3>1
    <3> QED
      BY <1>13, <3>2 DEF Sent0, Sends, Pulse
  <2>2. CASE ~SawZero(0)
    <3>1. grant = 0 /\ mem[Cell("y", 0)] = 0
      BY <1>1, <1>12, <2>2 DEF Theirs, Own
    <3> QED
      BY <1>2, <1>14, <3>1 DEF Full
  <2> QED
    BY <2>1, <2>2
<1> QED
  BY <1>8, <1>10, <1>11, <1>15, <1>16 DEF SbInv

\* tb_litmus_sb.cpp:7-10: one of the two loads sees the other core's store, although
\* core 1's store may be lost on the bus.
THEOREM StoresAreSeen == ASSUME LitmusLines PROVE Spec => []StoreBuffering
<1> DEFINE Inv == RigInv /\ SbInv
<1>1. Init => Inv
  <2> SUFFICES ASSUME Init PROVE Inv
    OBVIOUS
  <2>1. RigInv
    BY RigStarts
  <2>2. \A c \in Core : cpu[c].pc = 1 /\ cpu[c].r = 0 /\ l1[c] = Reset
    BY DEF Init
  <2>3. /\ ~Reset.ready /\ ~Reset.write_req /\ ~Reset.read_req /\ Reset.state = "IDLE"
        /\ Reset.pend.msi = "I" /\ \A w \in Way : Reset.msi[w] = "I"
    BY DEF Reset, NoSnoop
  <2>4. \A c \in Core : ~Over(c, 1) /\ ~Over(c, 2) /\ OwnOnes(c) /\ ~SawZero(c) /\ Clean(c)
    BY <2>2, <2>3 DEF Over, OwnOnes, SawZero, Clean
  <2>5. \A c \in Core : Hits(l1[c], Theirs(c)) = {}
    BY <2>2, <2>3 DEF Hits
  <2> QED
    BY <2>1, <2>4, <2>5 DEF SbInv, Core
<1>2. Inv /\ [Next]_vars => Inv'
  <2> SUFFICES ASSUME Inv, [Next]_vars PROVE Inv'
    OBVIOUS
  <2>1. RigInv'
    BY RigStep
  <2>2. CASE UNCHANGED vars
    BY <2>1, <2>2 DEF vars, SbInv, OwnOnes, Over, Hits, Theirs, Own, Sent0, Sends, Full, Pulse, Clean, SawZero
  <2>3. ASSUME NEW issue \in [Core -> BOOLEAN], Clock(issue) PROVE Inv'
    BY <2>1, <2>3, SbStep
  <2> QED
    BY <2>2, <2>3 DEF Next
<1>3. Inv => StoreBuffering
  <2> SUFFICES ASSUME Inv, SbForbidden PROVE FALSE
    BY DEF StoreBuffering
  <2>1. \A c \in Core : cpu[c].pc > 3 /\ cpu[c].r = 0 /\ cpu[c].pc \in Nat
    BY SbNames DEF SbForbidden, Quiet, Core, RigInv, TypeOK, Cpu
  <2>2. SawZero(0) /\ SawZero(1)
    BY <2>1 DEF SawZero, Core
  <2> QED
    BY <2>2 DEF SbInv, SbForbidden
<1> QED
  BY <1>1, <1>2, <1>3, PTL DEF Spec

-----------------------------------------------------------------------------
(* Message passing.                                                        *)

\* Core 1 has read nothing but zeros in the words 0 it polls.
Behind == cpu[1].pc = 1 /\ (\A w \in Way : l1[1].data[w][0] = 0) /\ l1[1].rdata = 0

\* Core 0 has a read snoop to answer.
Busy == l1[0].pend.on \/ l1[0].state = "SNOOP_WB"

\* Core 1 reads a line that core 0 has modified.
Owns ==
  LET l == l1[1].mem_addr.line IN
  l1[1].read_req /\ Hits(l1[0], l) # {} /\ l1[0].msi[HitWay(l1[0], l)] = "M"

\* The first cycle of a read on the bus.
Begins == l1[1].fill_cnt = 0 /\ ~tog[1]

\* Core 1 waits for core 0's answer to the read it began: it takes one word at most.
Waits ==
  /\ l1[1].read_req /\ cpu[1].pc \in {1, 2}
  /\ \/ l1[1].fill_cnt = 0
     \/ l1[1].fill_cnt = 1 /\ l1[0].state = "SNOOP_WB" /\ (~l1[0].write_req => ~tog[1])

\* Core 0's words land, the data before the flag; core 1's lands when it is written.
MpMemory ==
  /\ mem[Cell("y", 0)] \in {0, 1}
  /\ Over(0, 1) => Full("x") \/ Pulse(0, Cell("x", 0), 1)
  /\ Over(0, 2) => Full("y") \/ Pulse(0, Cell("y", 0), 1)
  /\ Full("y") => Full("x") /\ Over(0, 2)
  /\ Over(1, 3) => \/ Full("done")
                   \/ Pulse(1, Cell("done", 0), 1) /\ ~l1[0].read_req /\ ~l1[0].write_req

MpSender ==
  LET k == l1[0] IN
  /\ Hits(k, "done") = {} /\ (~Over(0, 2) => Hits(k, "y") = {})
  /\ ~k.pend.write /\ (k.pend.on => k.pend.msi = "M")
  /\ k.state # "SNOOP_INV" /\ (k.state = "SNOOP_WB" /\ ~k.write_req => k.wb_cnt = 0)
  /\ k.write_req => k.mem_addr.line # "done"
  /\ k.write_req /\ k.mem_addr.word = 0 =>
       k.mem_wdata = 1 /\ (k.mem_addr.line = "x" \/ (k.mem_addr.line = "y" /\ Over(0, 2)))

MpReceiver ==
  LET k == l1[1] IN
  /\ ~Over(1, 2) => Hits(k, "x") = {}
  /\ \A w \in Way : k.msi[w] = "M" => k.tag[w] = "done"
  /\ k.pend.msi # "M" /\ k.state # "SNOOP_WB"
  /\ k.write_req => k.mem_addr = Cell("done", 0) /\ k.mem_wdata = 1
  /\ cpu[1].pc = 2 /\ k.read_req /\ k.fill_cnt > 0 => k.data[k.fill_way][0] = 1
  /\ cpu[1].pc = 2 /\ k.ready => k.rdata = 1
  /\ cpu[1].pc > 2 => cpu[1].r = 1

MpServed ==
  /\ ~Full("y") => Behind /\ ~Busy
  /\ Full("y") =>
       /\ Owns /\ ~Busy => Begins \/ (Behind /\ l1[1].fill_cnt # 0)
       /\ Busy => Behind \/ Waits
       /\ Owns /\ l1[0].pend.on => Begins \/ l1[0].pend.way = HitWay(l1[0], l1[1].mem_addr.line)

MpInv == prog = tb_litmus_mp => MpMemory /\ MpSender /\ MpReceiver /\ MpServed

LEMMA MpNames ==
  ASSUME RigInv, prog = tb_litmus_mp
  PROVE  /\ Halted(0) <=> cpu[0].pc > 2
         /\ cpu[0].pc = 1 => Access(0).op = "sw" /\ Access(0).addr = Cell("x", 0) /\ Stored(0) = 1
         /\ cpu[0].pc = 2 => Access(0).op = "sw" /\ Access(0).addr = Cell("y", 0) /\ Stored(0) = 1
         /\ cpu[0].pc \in {1, 2} => Access(0).want = -1
         /\ Halted(1) <=> cpu[1].pc > 3
         /\ cpu[1].pc = 1 => /\ Access(1).op = "lw" /\ Access(1).addr = Cell("y", 0)
                             /\ Access(1).want = 1 /\ Access(1).back = 1
         /\ cpu[1].pc = 2 => Access(1).op = "lw" /\ Access(1).addr = Cell("x", 0) /\ Access(1).want = -1
         /\ cpu[1].pc = 3 => /\ Access(1).op = "sw" /\ Access(1).addr = Cell("done", 0) /\ Stored(1) = 1
                             /\ Access(1).want = -1
         /\ cpu[0].pc \in Nat \ {0} /\ cpu[1].pc \in Nat \ {0}
<1>1. 0 \in Core /\ 1 \in Core /\ cpu[0].pc \in Nat \ {0} /\ cpu[1].pc \in Nat \ {0}
  BY DEF RigInv, TypeOK, Cpu, Core
<1>2. prog[0] = <<Store("x", 0, 1), Store("y", 0, 1)>>
  BY <1>1 DEF tb_litmus_mp, Both
<1>3. prog[1] = <<Until(Load("y", 0), 1, 1), Load("x", 0), Store("done", 0, 1)>>
  BY <1>1 DEF tb_litmus_mp, Both
<1>4. Len(prog[0]) = 2 /\ Len(prog[1]) = 3
  BY <1>2, <1>3
<1>5. \A l : LET s == Store(l, 0, 1) IN s.op = "sw" /\ s.addr = Cell(l, 0) /\ s.imm = 1 /\ s.acc = FALSE /\ s.want = -1
  BY DEF Store, Access3, Cell
<1>6. \A l : LET s == Load(l, 0) IN
        s.op = "lw" /\ s.addr = Cell(l, 0) /\ s.want = -1 /\ {"op", "addr", "want", "back"} \subseteq DOMAIN s
  BY DEF Load, Access3, Cell
<1>7. LET s == Until(Load("y", 0), 1, 1) IN s.op = "lw" /\ s.addr = Cell("y", 0) /\ s.want = 1 /\ s.back = 1
  BY <1>6 DEF Until
<1>8. /\ prog[0][1] = Store("x", 0, 1) /\ prog[0][2] = Store("y", 0, 1)
      /\ prog[1][1] = Until(Load("y", 0), 1, 1) /\ prog[1][2] = Load("x", 0) /\ prog[1][3] = Store("done", 0, 1)
  BY <1>2, <1>3
<1> QED
  BY <1>1, <1>4, <1>5, <1>6, <1>7, <1>8 DEF Halted, Access, Stored

\* What an answer of the program is.
LEMMA MpAnswer ==
  ASSUME RigInv, prog = tb_litmus_mp, NEW issue \in [Core -> BOOLEAN], Clock(issue)
  PROVE  /\ l1'[0].ready =>
              /\ cpu'[0] = cpu[0] /\ ~l1[0].ready /\ cpu[0].pc \in {1, 2} /\ l1'[0].write_req
              /\ l1'[0].mem_addr = Cell(IF cpu[0].pc = 1 THEN "x" ELSE "y", 0) /\ l1'[0].mem_wdata = 1
         /\ l1'[1].ready =>
              /\ cpu'[1] = cpu[1] /\ ~l1[1].ready /\ cpu[1].pc \in {1, 2, 3} /\ Answer(1)
              /\ cpu[1].pc = 3 =>
                   l1'[1].write_req /\ l1'[1].mem_addr = Cell("done", 0) /\ l1'[1].mem_wdata = 1
              /\ cpu[1].pc # 3 => ~l1'[1].write_req
<1>1. 0 \in Core /\ 1 \in Core
  BY DEF Core
<1>2. ASSUME l1'[0].ready
      PROVE  /\ cpu'[0] = cpu[0] /\ ~l1[0].ready /\ cpu[0].pc \in {1, 2} /\ l1'[0].write_req
             /\ l1'[0].mem_addr = Cell(IF cpu[0].pc = 1 THEN "x" ELSE "y", 0) /\ l1'[0].mem_wdata = 1
  <2>1. /\ cpu'[0] = cpu[0] /\ ~l1[0].ready /\ ~Halted(0) /\ Answer(0)
        /\ Access(0)' = Access(0) /\ Stored(0)' = Stored(0)
    BY <1>1, <1>2, AnswerIs
  <2>2. cpu[0].pc \in {1, 2}
    BY <2>1, MpNames
  <2>3. Access(0).op = "sw" /\ Access(0).addr = Cell(IF cpu[0].pc = 1 THEN "x" ELSE "y", 0) /\ Stored(0) = 1
    BY <2>2, MpNames
  <2> QED
    BY <2>1, <2>2, <2>3 DEF Answer, Pulse
<1>3. ASSUME l1'[1].ready
      PROVE  /\ cpu'[1] = cpu[1] /\ ~l1[1].ready /\ cpu[1].pc \in {1, 2, 3} /\ Answer(1)
             /\ cpu[1].pc = 3 =>
                  l1'[1].write_req /\ l1'[1].mem_addr = Cell("done", 0) /\ l1'[1].mem_wdata = 1
             /\ cpu[1].pc # 3 => ~l1'[1].write_req
  <2>1. /\ cpu'[1] = cpu[1] /\ ~l1[1].ready /\ ~Halted(1) /\ Answer(1)
        /\ Access(1)' = Access(1) /\ Stored(1)' = Stored(1)
    BY <1>1, <1>3, AnswerIs
  <2>2. cpu[1].pc \in {1, 2, 3}
    BY <2>1, MpNames
  <2>3. cpu[1].pc = 3 => l1'[1].write_req /\ l1'[1].mem_addr = Cell("done", 0) /\ l1'[1].mem_wdata = 1
    BY <2>1, MpNames DEF Answer, Pulse
  <2>4. cpu[1].pc # 3 => ~l1'[1].write_req
    BY <2>1, <2>2, MpNames DEF Answer
  <2> QED
    BY <2>1, <2>2, <2>3, <2>4
<1> QED
  BY <1>2, <1>3

\* A read that goes on, and the word it takes.
LEMMA ReadStep ==
  ASSUME RigInv, NEW issue \in [Core -> BOOLEAN], Clock(issue), NEW c \in Core, l1'[c].read_req
  PROVE  /\ ~l1'[c].ready
         /\ \/ ~l1[c].read_req /\ l1'[c].fill_cnt = 0 /\ ~tog'[c]
            \/ /\ l1[c].read_req /\ l1'[c].req = l1[c].req /\ l1'[c].fill_way = l1[c].fill_way
               /\ l1'[c].mem_addr.line = l1[c].mem_addr.line
               /\ cpu'[c] = cpu[c] /\ ~Halted(c) /\ l1[c].req.addr = Access(c).addr
               /\ \/ /\ ~read_ack(c) /\ l1'[c].fill_cnt = l1[c].fill_cnt /\ l1'[c].data = l1[c].data
                  \/ /\ read_ack(c) /\ l1'[c].fill_cnt = l1[c].fill_cnt + 1 /\ ~tog'[c]
                     /\ l1[c].fill_cnt # WORDS - 1
                     /\ l1'[c].data = [l1[c].data EXCEPT ![l1[c].fill_way][l1[c].fill_cnt] = rdata]
                     /\ rdata = mem[[Access(c).addr EXCEPT !.word = l1[c].fill_cnt]]
<1> DEFINE k == l1[c]
           n == l1'[c]
           q == Latched(c, issue[c], k)
           p == Capture(c, k)
<1>1. Moves(c, k, n, q, p) /\ k.state \in States /\ CacheOK(k)
  BY Edge DEF RigInv, TypeOK, CacheOK, ControlOK
<1>2. RequestOK(c) /\ RefillOK(c)
  BY DEF RigInv, Shape
<1>3. RequestOK(c)' /\ RefillOK(c)'
  BY RequestStep, RefillStep
<1>4. n.req # NoReq /\ ~n.ready /\ n.state = "WAITM_RD"
  BY <1>3 DEF RefillOK, RequestOK
<1>5. tog'[c] <=> k.read_req /\ grant = c /\ ~tog[c]
  BY DEF Clock, Toggles
<1> HIDE DEF q, p, n, k
<1>6. k.state \in {"CHECK", "WAITM_RD"}
  BY <1>1, <1>4 DEF Moves, States, FromIdle, FromSnoopWb, FromSnoopInv
<1>7. CASE k.state = "CHECK"
  <2>1. FromCheck(k, n, p) /\ ~k.read_req
    BY <1>1, <1>2, <1>7 DEF Moves, RefillOK, k
  <2>2. n.fill_cnt = 0
    BY <1>4, <2>1 DEF FromCheck, Answers
  <2> QED
    BY <1>4, <1>5, <2>1, <2>2 DEF k, n
<1>8. CASE k.state = "WAITM_RD"
  <2>1. FromRefill(c, k, n, p) /\ k.read_req /\ k.req # NoReq
    BY <1>1, <1>2, <1>8 DEF Moves, RefillOK, k
  <2>2. cpu[c].issued /\ ~k.ready /\ ~Ready(c)
    BY <2>1, Engaged DEF RigInv, k
  <2>3. cpu'[c] = cpu[c]
    BY <2>2, CoreMoves DEF k
  <2>4. ~Halted(c) /\ k.req = [op |-> Access(c).op, addr |-> Access(c).addr, val |-> Stored(c)]
    BY <1>2, <2>2 DEF RequestOK, k
  <2>5. k.req.addr = Access(c).addr
    BY <2>4
  <2>6. k.mem_addr = [k.req.addr EXCEPT !.word = k.fill_cnt]
    BY <1>2, <2>1 DEF RefillOK, k
  <2>7. k.req.addr \in Addr
    BY <1>1, <2>1, RequestIs DEF CacheOK, ControlOK
  <2>8. CASE ~read_ack(c)
    <3>1. n.req = k.req /\ n.fill_cnt = k.fill_cnt /\ n.fill_way = k.fill_way /\ n.mem_addr = k.mem_addr /\ n.data = k.data
      BY <1>4, <2>1, <2>8 DEF FromRefill, Rests
    <3> QED
      BY <1>4, <2>1, <2>3, <2>4, <2>5, <2>8, <3>1 DEF k, n
  <2>9. CASE read_ack(c)
    <3>1. /\ n.req = k.req /\ n.fill_cnt = k.fill_cnt + 1 /\ n.fill_way = k.fill_way /\ k.fill_cnt # WORDS - 1
          /\ n.mem_addr = [k.req.addr EXCEPT !.word = k.fill_cnt + 1]
          /\ n.data = [k.data EXCEPT ![k.fill_way][k.fill_cnt] = rdata]
      BY <1>4, <2>1, <2>9 DEF FromRefill, Answers
    <3>2. n.mem_addr.line = k.mem_addr.line
      BY <2>6, <2>7, <3>1 DEF Addr
    <3>3. tog[c] /\ ~tog'[c]
      BY <1>5, <2>9 DEF read_ack
    <3>4. rdata = mem[[Access(c).addr EXCEPT !.word = k.fill_cnt]]
      BY <1>2, <2>5, <2>6, <3>3 DEF RefillOK, k
    <3> QED
      BY <1>4, <2>1, <2>3, <2>4, <2>5, <2>9, <3>1, <3>2, <3>3, <3>4 DEF k, n
  <2>10. n.mem_addr.line = k.mem_addr.line
    BY <2>1, <2>6, <2>7, <1>4 DEF FromRefill, Answers, Addr
  <2> QED
    BY <2>8, <2>9, <2>10 DEF k, n
<1> QED
  BY <1>6, <1>7, <1>8

\* A line is modified by a store: it was before, or the store is answered now.
LEMMA ModifiedIs ==
  ASSUME RigInv, NEW issue \in [Core -> BOOLEAN], Clock(issue), NEW c \in Core, NEW w \in Way,
         l1'[c].msi[w] = "M"
  PROVE  \/ l1[c].msi[w] = "M" /\ l1'[c].tag[w] = l1[c].tag[w]
         \/ l1'[c].ready /\ l1'[c].write_req /\ l1'[c].tag[w] = Access(c).addr.line
<1> DEFINE k == l1[c]
           n == l1'[c]
           q == Latched(c, issue[c], k)
           p == Capture(c, k)
<1>1. Moves(c, k, n, q, p) /\ k.state \in States /\ CacheOK(k)
  BY Edge DEF RigInv, TypeOK, CacheOK, ControlOK
<1>2. k.pend.way \in Way /\ k.msi \in [Way -> Msi] /\ k.tag \in [Way -> Lines] /\ k.fill_way \in Way
  BY <1>1 DEF CacheOK, LinesOK, BusOK, Snoops
<1>3. n.ready => k.req.addr = Access(c).addr
  BY AnswerIs
<1> HIDE DEF q, p, n, k
<1>4. n.msi[w] = "M"
  BY DEF n
<1>5. CASE k.state \in {"IDLE", "SNOOP_WB", "SNOOP_INV"}
  <2>1. n.tag = k.tag
    BY <1>1, <1>5 DEF Moves, FromIdle, FromSnoopWb, FromSnoopInv, Rests
  <2>2. n.msi \in {k.msi, [k.msi EXCEPT ![k.pend.way] = "S"], [k.msi EXCEPT ![k.pend.way] = "I"]}
    BY <1>1, <1>5 DEF Moves, FromIdle, FromSnoopWb, FromSnoopInv, Rests
  <2>3. k.msi[w] = "M"
    BY <1>2, <1>4, <2>2
  <2> QED
    BY <2>1, <2>3 DEF k, n
<1>6. CASE k.state = "CHECK"
  <2> DEFINE way == HitWay(k, k.req.addr.line)
  <2>1. FromCheck(k, n, p) /\ n.tag = k.tag
    BY <1>1, <1>6 DEF Moves, FromCheck
  <2>2. CASE n.msi = k.msi
    BY <1>4, <2>1, <2>2 DEF k, n
  <2>3. CASE n.msi # k.msi
    <3>1. n.ready /\ n.write_req /\ Hits(k, k.req.addr.line) # {} /\ \A v \in Way \ {way} : n.msi[v] = k.msi[v]
      BY <2>1, <2>3 DEF FromCheck, Rests, Stores, Answers
    <3>2. k.tag[way] = k.req.addr.line
      BY <3>1, HitFacts
    <3> QED
      BY <1>3, <1>4, <2>1, <3>1, <3>2 DEF k, n
  <2> QED
    BY <2>2, <2>3
<1>7. CASE k.state = "WAITM_RD"
  <2>1. FromRefill(c, k, n, p)
    BY <1>1, <1>7 DEF Moves
  <2>2. CASE n.msi = k.msi /\ n.tag = k.tag
    BY <1>4, <2>2 DEF k, n
  <2>3. CASE ~(n.msi = k.msi /\ n.tag = k.tag)
    <3>1. /\ n.ready /\ n.tag = [k.tag EXCEPT ![k.fill_way] = k.req.addr.line]
          /\ \A v \in Way \ {k.fill_way} : n.msi[v] = k.msi[v]
          /\ n.msi[k.fill_way] = "M" => n.write_req
      BY <2>1, <2>3 DEF FromRefill, Rests, Answers
    <3> QED
      BY <1>2, <1>3, <1>4, <3>1 DEF k, n
  <2> QED
    BY <2>2, <2>3
<1> QED
  BY <1>1, <1>5, <1>6, <1>7 DEF States

\* What each cache sees of the other.
LEMMA MpCapture ==
  ASSUME RigInv, MpInv, prog = tb_litmus_mp
  PROVE  /\ Owns => Capture(0, l1[0]) = [on |-> TRUE, write |-> FALSE,
                                         way |-> HitWay(l1[0], l1[1].mem_addr.line), msi |-> "M"]
         /\ ~Owns => Capture(0, l1[0]) = l1[0].pend
         /\ Capture(1, l1[1]).msi # "M"
<1>1. MpSender /\ MpReceiver /\ 0 \in Core /\ 1 \in Core /\ 1 - 0 = 1 /\ 1 - 1 = 0
  BY DEF MpInv, Core
<1>2. snooped(0) = l1[1] /\ snooped(1) = l1[0]
  BY <1>1 DEF snooped
<1>3. l1[1].write_req => Hits(l1[0], l1[1].mem_addr.line) = {} /\ ~l1[1].read_req
  <2>1. l1[1].write_req => l1[1].mem_addr.line = "done"
    BY <1>1 DEF MpReceiver, Cell
  <2>2. l1[1].write_req => ~l1[1].read_req
    BY <1>1 DEF RigInv, Shape, RefillOK
  <2> QED
    BY <1>1, <2>1, <2>2 DEF MpSender
<1>4. Owns => Capture(0, l1[0]) = [on |-> TRUE, write |-> FALSE,
                                   way |-> HitWay(l1[0], l1[1].mem_addr.line), msi |-> "M"]
  <2>1. Owns => ~l1[1].write_req /\ l1[1].write_req \in BOOLEAN
    BY <1>1, <1>3 DEF Owns, RigInv, TypeOK, CacheOK, BusOK
  <2> QED
    BY <1>2, <2>1 DEF Owns, Capture
<1>5. ~Owns => Capture(0, l1[0]) = l1[0].pend
  BY <1>2, <1>3 DEF Owns, Capture
<1>6. Capture(1, l1[1]).msi # "M"
  <2> DEFINE l == l1[0].mem_addr.line
             w == HitWay(l1[1], l)
  <2>1. l1[0].read_req \/ l1[0].write_req => l # "done"
    <3>1. CASE l1[0].read_req
      <4>1. l1[0].req # NoReq /\ l1[0].mem_addr = [l1[0].req.addr EXCEPT !.word = l1[0].fill_cnt]
        BY <1>1, <3>1 DEF RigInv, Shape, RefillOK
      <4>2. cpu[0].issued /\ ~l1[0].ready /\ ~Ready(0)
        BY <1>1, <4>1, Engaged DEF RigInv
      <4>3. ~Halted(0) /\ l1[0].req = [op |-> Access(0).op, addr |-> Access(0).addr, val |-> Stored(0)]
        BY <1>1, <4>2 DEF RigInv, Shape, RequestOK
      <4>4. Access(0).addr \in {Cell("x", 0), Cell("y", 0)}
        BY <4>3, MpNames
      <4> QED
        BY <4>1, <4>3, <4>4 DEF Cell
    <3>2. CASE l1[0].write_req
      BY <1>1, <3>2 DEF MpSender
    <3> QED
      BY <3>1, <3>2
  <2>2. CASE Capture(1, l1[1]) = l1[1].pend
    BY <1>1, <2>2 DEF MpReceiver
  <2>3. CASE Capture(1, l1[1]) # l1[1].pend
    <3>1. Capture(1, l1[1]).msi = l1[1].msi[w] /\ Hits(l1[1], l) # {} /\ (l1[0].read_req \/ l1[0].write_req)
      BY <1>2, <2>3 DEF Capture
    <3>2. l1[1].tag[w] = l /\ w \in Way
      BY <3>1, HitFacts
    <3> QED
      BY <1>1, <2>1, <3>1, <3>2 DEF MpReceiver
  <2> QED
    BY <2>2, <2>3
<1> QED
  BY <1>4, <1>5, <1>6

\* After its stores core 0 does nothing but answer snoops, and it owns the bus whenever it writes.
LEMMA MpAnswersSnoops ==
  ASSUME RigInv, MpInv, prog = tb_litmus_mp, NEW issue \in [Core -> BOOLEAN], Clock(issue), Over(0, 2)
  PROVE  LET k == l1[0]
             n == l1'[0]
             p == Capture(0, k)
         IN  /\ n.tag = k.tag /\ ~n.read_req /\ ~n.ready
             /\ \/ /\ k.state = "IDLE" /\ ~k.pend.on /\ n.state = "IDLE" /\ n.pend = p
                   /\ n.msi = k.msi /\ ~n.write_req
                \/ /\ k.state = "IDLE" /\ k.pend.on /\ n.state = "SNOOP_WB" /\ n.pend = p
                   /\ n.msi = k.msi /\ ~n.write_req
                \/ /\ k.state = "SNOOP_WB" /\ n.state = "SNOOP_WB" /\ n.pend = p
                   /\ n.msi = k.msi /\ n.write_req
                \/ /\ k.state = "SNOOP_WB" /\ k.write_req /\ n.state = "IDLE" /\ ~n.pend.on
                   /\ n.msi = [k.msi EXCEPT ![k.pend.way] = "S"] /\ ~n.write_req
<1> DEFINE k == l1[0]
           n == l1'[0]
           q == Latched(0, issue[0], k)
           p == Capture(0, k)
<1>1. 0 \in Core /\ MpSender
  BY DEF Core, MpInv
<1>2. Moves(0, k, n, q, p) /\ k.state \in States /\ CacheOK(k) /\ CacheOK(l1[1])
  BY <1>1, Edge DEF RigInv, TypeOK, CacheOK, ControlOK, Core
<1>3. p \in Snoops
  BY <1>1, <1>2, CaptureType DEF RigInv
<1>4. k.req = NoReq
  <2>1. Halted(0) \/ k.ready
    BY MpNames DEF Over
  <2> QED
    BY <1>1, <2>1 DEF RigInv, Shape, RequestOK
<1>5. issue[0] \in BOOLEAN /\ Over(0, 2)
  BY <1>1
<1>6. k.state \in {"IDLE", "SNOOP_WB"} /\ (k.write_req /\ grant = 0 <=> k.write_req)
  <2>1. k.state \notin {"CHECK", "WAITM_RD", "SNOOP_INV"}
    BY <1>1, <1>4 DEF RigInv, Shape, RefillOK, MpSender
  <2> QED
    BY <1>2, <2>1 DEF States, grant
<1>7. write_ack(0) <=> k.write_req
  BY <1>6 DEF write_ack
<1>8. ~k.pend.write /\ (k.pend.on => k.pend.msi = "M") /\ (k.state = "SNOOP_WB" /\ ~k.write_req => k.wb_cnt = 0)
  BY <1>1 DEF MpSender
<1> HIDE DEF q, p, n, k
<1>9. CASE k.state = "IDLE"
  <2>1. FromIdle(k, n, q, p) /\ Rests(k, n)
    BY <1>2, <1>9 DEF Moves, FromIdle
  <2> QED
    BY <1>4, <1>8, <1>9, <2>1 DEF FromIdle, Rests, k, n, p
<1>10. CASE k.state = "SNOOP_WB"
  <2>1. FromSnoopWb(0, k, n, q, p)
    BY <1>2, <1>10 DEF Moves
  <2>2. [p EXCEPT !.on = FALSE].on = FALSE
    BY <1>3 DEF Snoops
  <2>3. ~k.write_req => k.wb_cnt # WORDS - 1
    BY <1>8, <1>10, Zero
  <2> QED
    BY <1>7, <1>10, <2>1, <2>2, <2>3 DEF FromSnoopWb, k, n, p
<1> QED
  BY <1>6, <1>9, <1>10

\* The sender's step: its lines, its snoops, its writes.
LEMMA MpSenderStep ==
  ASSUME RigInv, MpInv, prog = tb_litmus_mp, NEW issue \in [Core -> BOOLEAN], Clock(issue)
  PROVE  MpSender'
<1> DEFINE k == l1[0]
           n == l1'[0]
           q == Latched(0, issue[0], k)
           p == Capture(0, k)
<1>1. 0 \in Core /\ MpSender /\ MpMemory
  BY DEF Core, MpInv
<1>2. Moves(0, k, n, q, p) /\ k.state \in States /\ CacheOK(k) /\ CacheOK(l1[1])
  BY <1>1, Edge DEF RigInv, TypeOK, CacheOK, ControlOK, Core
<1>3. p \in Snoops
  BY <1>1, <1>2, CaptureType DEF RigInv
<1>4. n.ready => /\ cpu'[0] = cpu[0] /\ cpu[0].pc \in {1, 2} /\ n.write_req
                 /\ n.mem_addr = Cell(IF cpu[0].pc = 1 THEN "x" ELSE "y", 0) /\ n.mem_wdata = 1
  BY MpAnswer
<1>5. n.ready => Access(0).addr = Cell(IF cpu[0].pc = 1 THEN "x" ELSE "y", 0)
  BY <1>4, MpNames
<1>6. Over(0, 2) => Over(0, 2)'
  BY <1>1, MpNames, OverStays
<1>7. Hits(n, "done") = {}
  <2>1. Hits(k, "done") = {}
    BY <1>1 DEF MpSender
  <2>2. Hits(n, "done") # {} => n.ready /\ Access(0).addr.line = "done"
    BY <1>1, <2>1, LinesAre
  <2> QED
    BY <1>5, <2>2 DEF Cell
<1>8. ~Over(0, 2)' => Hits(n, "y") = {}
  <2> SUFFICES ASSUME ~Over(0, 2)', Hits(n, "y") # {} PROVE FALSE
    OBVIOUS
  <2>1. Hits(k, "y") = {}
    BY <1>1, <1>6 DEF MpSender
  <2>2. n.ready /\ Access(0).addr.line = "y"
    BY <1>1, <2>1, LinesAre
  <2>3. cpu[0].pc = 2
    BY <1>4, <1>5, <2>2 DEF Cell
  <2> QED
    BY <1>4, <2>2, <2>3 DEF Over
<1>9. ~p.write /\ (p.on => p.msi = "M")
  BY <1>1, MpCapture DEF MpSender
<1>10. ~n.pend.write /\ (n.pend.on => n.pend.msi = "M")
  <2>1. n.pend \in {p, [p EXCEPT !.on = FALSE]}
    BY <1>1, PendIs
  <2> HIDE DEF p, n
  <2> QED
    BY <1>3, <1>9, <2>1 DEF Snoops
<1>11. k.write_req => write_ack(0)
  BY DEF write_ack, grant
<1>12. n.state # "SNOOP_INV" /\ (n.state = "SNOOP_WB" /\ ~n.write_req => n.wb_cnt = 0)
  <2>1. ~k.pend.write /\ k.state # "SNOOP_INV"
    BY <1>1 DEF MpSender
  <2> HIDE DEF p, n, q, k
  <2>2. CASE k.state = "IDLE"
    BY <1>2, <2>1, <2>2 DEF Moves, FromIdle
  <2>3. CASE k.state \in {"CHECK", "WAITM_RD"}
    BY <1>2, <2>3 DEF Moves, FromCheck, FromRefill, Answers
  <2>4. CASE k.state = "SNOOP_WB"
    BY <1>2, <1>11, <2>4 DEF Moves, FromSnoopWb, k
  <2> QED
    BY <1>2, <2>1, <2>2, <2>3, <2>4 DEF States
<1>13. n.write_req /\ ~n.ready => n.mem_addr.word # 0 /\ n.mem_addr.line # "done"
  <2> SUFFICES ASSUME n.write_req, ~n.ready PROVE n.mem_addr.word # 0 /\ n.mem_addr.line # "done"
    OBVIOUS
  <2>1. k.state = "SNOOP_WB" /\ n.mem_addr.word # 0 /\ n.mem_addr.line = k.tag[k.pend.way]
    BY <1>1, WritesAre
  <2>2. k.msi[k.pend.way] # "I" /\ k.pend.way \in Way
    BY <1>1, <1>2, <2>1 DEF RigInv, Shape, SnoopOK, CacheOK, BusOK, Snoops
  <2>3. k.tag[k.pend.way] # "done"
    BY <1>1, <2>2, HitFacts DEF MpSender
  <2> QED
    BY <2>1, <2>3
<1>14. n.write_req => n.mem_addr.line # "done"
  BY <1>4, <1>13 DEF Cell
<1>15. n.write_req /\ n.mem_addr.word = 0 =>
         n.mem_wdata = 1 /\ (n.mem_addr.line = "x" \/ (n.mem_addr.line = "y" /\ Over(0, 2)'))
  BY <1>4, <1>13 DEF Cell, Over
<1> HIDE DEF n
<1>16. n = l1'[0]
  BY DEF n
<1> QED
  BY <1>7, <1>8, <1>10, <1>12, <1>14, <1>15, <1>16 DEF MpSender, Hits

\* A receiver that polls goes on polling until it takes the flag.
LEMMA BehindStays ==
  ASSUME RigInv, MpInv, prog = tb_litmus_mp, NEW issue \in [Core -> BOOLEAN], Clock(issue), Behind,
         ~(read_ack(1) /\ l1[1].fill_cnt = 0 /\ Full("y"))
  PROVE  Behind'
<1> DEFINE k == l1[1]
           n == l1'[1]
           q == Latched(1, issue[1], k)
           p == Capture(1, k)
<1>1. 1 \in Core /\ MpMemory /\ MpReceiver /\ 0 \in Word /\ WORDS - 1 \in Word /\ WORDS - 1 # 0
  BY Zero DEF Core, MpInv
<1>2. Moves(1, k, n, q, p) /\ k.state \in States /\ CacheOK(k)
  BY <1>1, Edge DEF RigInv, TypeOK, CacheOK, ControlOK
<1>3. cpu[1].pc = 1 /\ (\A w \in Way : k.data[w][0] = 0) /\ k.rdata = 0
  BY DEF Behind
<1>4. Access(1).op = "lw" /\ Access(1).addr = Cell("y", 0) /\ Access(1).want = 1 /\ Access(1).back = 1
  BY <1>3, MpNames
<1>5. cpu'[1].pc = 1
  <2>1. Result(1) = 0
    BY <1>3, <1>4 DEF Result
  <2>2. Onward(1, Result(1)) = 1
    BY <1>4, <2>1 DEF Onward
  <2> QED
    BY <1>1, <1>3, <2>2, CoreMoves
<1>6. k.data \in [Way -> [Word -> Int]] /\ k.fill_way \in Way /\ k.fill_cnt \in Word
  BY <1>2 DEF CacheOK, LinesOK
<1>7. k.state \in {"CHECK", "WAITM_RD"} => k.req.op = "lw" /\ k.req.addr = Cell("y", 0) /\ (k.read_req => ~k.pending_write)
  <2> SUFFICES ASSUME k.state \in {"CHECK", "WAITM_RD"}
               PROVE  k.req.op = "lw" /\ k.req.addr = Cell("y", 0) /\ (k.read_req => ~k.pending_write)
    OBVIOUS
  <2>1. k.req # NoReq /\ (k.read_req => k.pending_write = (k.req.op = "sw"))
    BY <1>1 DEF RigInv, Shape, RefillOK
  <2>2. cpu[1].issued /\ ~k.ready
    BY <1>1, <2>1, Engaged DEF RigInv
  <2>3. k.req = [op |-> Access(1).op, addr |-> Access(1).addr, val |-> Stored(1)]
    BY <1>1, <2>2 DEF RigInv, Shape, RequestOK
  <2>4. k.req.op = "lw" /\ k.req.addr = Cell("y", 0)
    BY <1>4, <2>3
  <2>5. k.read_req => k.pending_write = FALSE
    BY <2>1, <2>4
  <2> QED
    BY <2>4, <2>5
<1>8. read_ack(1) /\ k.fill_cnt = 0 => rdata = 0
  <2> SUFFICES ASSUME read_ack(1), k.fill_cnt = 0 PROVE rdata = 0
    OBVIOUS
  <2>1. k.read_req /\ tog[1] /\ k.state = "WAITM_RD"
    BY <1>1 DEF read_ack, RigInv, Shape, RefillOK
  <2>2. rdata = mem[k.mem_addr] /\ k.mem_addr = [k.req.addr EXCEPT !.word = 0]
    BY <1>1, <2>1 DEF RigInv, Shape, RefillOK
  <2>3. k.mem_addr = Cell("y", 0)
    BY <1>7, <2>1, <2>2 DEF Cell
  <2> QED
    BY <1>1, <2>2, <2>3 DEF MpMemory, Full
<1> HIDE DEF q, p, n, k
<1>9. (\A w \in Way : n.data[w][0] = 0) /\ n.rdata = 0
  <2>1. CASE k.state \in {"IDLE", "SNOOP_INV"}
    BY <1>2, <1>3, <2>1 DEF Moves, FromIdle, FromSnoopInv, Rests
  <2>2. CASE k.state = "SNOOP_WB"
    BY <1>2, <1>3, <2>2 DEF Moves, FromSnoopWb
  <2>3. CASE k.state = "CHECK"
    <3>1. FromCheck(k, n, p) /\ k.req.op = "lw" /\ k.req.addr.word = 0
      BY <1>2, <1>7, <2>3 DEF Moves, Cell
    <3>2. HitWay(k, k.req.addr.line) \in Way
      BY HitFacts
    <3> QED
      BY <1>3, <3>1, <3>2 DEF FromCheck, Rests
  <2>4. CASE k.state = "WAITM_RD"
    <3>0. k.read_req
      BY <1>1, <2>4 DEF RigInv, Shape, RefillOK, k
    <3>1. FromRefill(1, k, n, p) /\ ~k.pending_write /\ k.req.addr.word = 0
      BY <1>2, <1>7, <2>4, <3>0 DEF Moves, Cell
    <3>2. CASE ~read_ack(1)
      BY <1>3, <3>1, <3>2 DEF FromRefill, Rests
    <3>3. CASE read_ack(1) /\ k.fill_cnt # WORDS - 1
      <4>1. n.rdata = k.rdata /\ n.data = [k.data EXCEPT ![k.fill_way][k.fill_cnt] = rdata]
        BY <3>1, <3>3 DEF FromRefill
      <4> QED
        BY <1>1, <1>3, <1>6, <1>8, <3>3, <4>1
    <3>4. CASE read_ack(1) /\ k.fill_cnt = WORDS - 1
      <4>1. /\ n.rdata = k.data[k.fill_way][0]
            /\ n.data[k.fill_way] = [k.data[k.fill_way] EXCEPT ![WORDS - 1] = rdata]
            /\ \A w \in Way \ {k.fill_way} : n.data[w] = k.data[w]
        BY <3>1, <3>4 DEF FromRefill
      <4>2. k.data[k.fill_way] \in [Word -> Int] /\ k.data[k.fill_way][0] = 0
        BY <1>3, <1>6
      <4>3. n.data[k.fill_way][0] = 0
        BY <1>1, <4>1, <4>2
      <4> QED
        BY <1>3, <4>1, <4>2, <4>3
    <3> QED
      BY <3>2, <3>3, <3>4
  <2> QED
    BY <1>2, <2>1, <2>2, <2>3, <2>4 DEF States
<1> QED
  BY <1>5, <1>9 DEF Behind, n

\* What core 1 reads once the flag is up: the data, if it reads it.
LEMMA MpReceiverStep ==
  ASSUME RigInv, MpInv, prog = tb_litmus_mp, NEW issue \in [Core -> BOOLEAN], Clock(issue)
  PROVE  MpReceiver'
<1> DEFINE k == l1[1]
           n == l1'[1]
           q == Latched(1, issue[1], k)
           p == Capture(1, k)
<1>1. 0 \in Core /\ 1 \in Core /\ MpReceiver /\ MpMemory /\ MpServed /\ 1 - 1 = 0
  BY DEF Core, MpInv
<1>2. Moves(1, k, n, q, p) /\ k.state \in States /\ CacheOK(k) /\ CacheOK(l1[0]) /\ p \in Snoops
  BY <1>1, Edge, CaptureType DEF RigInv, TypeOK, CacheOK, ControlOK
<1>3. cpu[1].pc \in Nat \ {0} /\ cpu'[1].pc \in Nat \ {0}
  BY <1>1, TypesStep DEF RigInv, TypeOK, Cpu, Next
<1>4. cpu[1].pc \in {2, 3} => Full("y") /\ Full("x") /\ mem[Cell("x", 0)] = 1
  BY <1>1 DEF MpServed, Behind, MpMemory, Full
<1>5. n.ready => cpu'[1] = cpu[1] /\ ~k.ready /\ cpu[1].pc \in {1, 2, 3} /\ Answer(1)
  BY MpAnswer
<1>6. n.write_req => n.ready /\ cpu[1].pc = 3 /\ n.mem_addr = Cell("done", 0) /\ n.mem_wdata = 1
  <2>1. n.write_req => n.ready
    BY <1>1, WritesAre DEF MpReceiver
  <2> QED
    BY <2>1, MpAnswer
<1>7. ~Over(1, 2)' => Hits(n, "x") = {}
  <2> SUFFICES ASSUME ~Over(1, 2)', Hits(n, "x") # {} PROVE FALSE
    OBVIOUS
  <2>1. Over(1, 2) => Over(1, 2)'
    <3>1. Over(1, 2) => (~Halted(1) => Access(1).want = -1)
      BY <1>3, MpNames DEF Over
    <3> QED
      BY <1>1, <3>1, OverStays
  <2>2. Hits(k, "x") = {}
    BY <1>1, <2>1 DEF MpReceiver
  <2>3. n.ready /\ Access(1).addr.line = "x"
    BY <1>1, <2>2, LinesAre
  <2>4. cpu[1].pc = 2 \/ cpu[1].pc = 3
    BY <1>5, <2>3, MpNames DEF Cell
  <2> QED
    BY <1>5, <2>3, <2>4 DEF Over
<1>8. \A w \in Way : n.msi[w] = "M" => n.tag[w] = "done"
  <2> SUFFICES ASSUME NEW w \in Way, n.msi[w] = "M" PROVE n.tag[w] = "done"
    OBVIOUS
  <2>1. CASE k.msi[w] = "M" /\ n.tag[w] = k.tag[w]
    BY <1>1, <2>1 DEF MpReceiver
  <2>2. CASE n.ready /\ n.write_req /\ n.tag[w] = Access(1).addr.line
    <3>1. Access(1).addr = Cell("done", 0)
      BY <1>6, <2>2, MpNames
    <3> QED
      BY <2>2, <3>1 DEF Cell
  <2> QED
    BY <1>1, <2>1, <2>2, ModifiedIs
<1>9. n.pend.msi # "M"
  <2>1. p.msi # "M" /\ n.pend \in {p, [p EXCEPT !.on = FALSE]}
    BY <1>1, MpCapture, PendIs
  <2> HIDE DEF p, n
  <2> QED
    BY <1>2, <2>1 DEF Snoops
<1>10. n.state # "SNOOP_WB"
  <2>1. k.pend.msi # "M" /\ k.state # "SNOOP_WB"
    BY <1>1 DEF MpReceiver
  <2> HIDE DEF p, q, k, n
  <2> QED
    BY <1>2, <2>1 DEF Moves, States, FromIdle, FromCheck, FromRefill, FromSnoopInv, Answers
<1>11. cpu'[1].pc = 2 /\ n.read_req /\ n.fill_cnt > 0 => n.data[n.fill_way][0] = 1
  <2> SUFFICES ASSUME cpu'[1].pc = 2, n.read_req, n.fill_cnt > 0 PROVE n.data[n.fill_way][0] = 1
    OBVIOUS
  <2>0. k.data \in [Way -> [Word -> Int]] /\ k.fill_way \in Way /\ k.fill_cnt \in Nat /\ 0 \in Word
    <3>1. CacheOK(k)
      BY <1>2
    <3> HIDE DEF k
    <3> QED
      BY <3>1, Zero, LineAssumption DEF CacheOK, LinesOK, Word
  <2>1. k.read_req /\ n.fill_way = k.fill_way /\ cpu[1].pc = 2 /\ Access(1).addr = Cell("x", 0)
    <3>1. k.read_req /\ n.fill_way = k.fill_way /\ cpu'[1] = cpu[1]
      <4>1. n.fill_cnt = 0 \/ (k.read_req /\ n.fill_way = k.fill_way /\ cpu'[1] = cpu[1])
        BY <1>1, ReadStep
      <4> QED
        BY <4>1
    <3> QED
      BY <3>1, MpNames
  <2>2. CASE ~read_ack(1) /\ n.fill_cnt = k.fill_cnt /\ n.data = k.data
    BY <1>1, <2>1, <2>2 DEF MpReceiver
  <2>3. CASE /\ n.data = [k.data EXCEPT ![k.fill_way][k.fill_cnt] = rdata]
             /\ rdata = mem[[Access(1).addr EXCEPT !.word = k.fill_cnt]]
    <3>1. CASE k.fill_cnt = 0
      <4>1. rdata = 1
        BY <1>4, <2>1, <2>3, <3>1 DEF Cell
      <4> HIDE DEF k, n
      <4> QED
        BY <2>0, <2>1, <2>3, <3>1, <4>1
    <3>2. CASE k.fill_cnt > 0
      <4>1. k.data[k.fill_way][0] = 1
        BY <1>1, <2>1, <3>2 DEF MpReceiver
      <4> HIDE DEF k, n
      <4> QED
        BY <2>0, <2>1, <2>3, <3>2, <4>1
    <3> QED
      BY <2>0, <3>1, <3>2
  <2> QED
    BY <1>1, <2>1, <2>2, <2>3, ReadStep
<1>12. cpu'[1].pc = 2 /\ n.ready => n.rdata = 1
  <2> SUFFICES ASSUME cpu'[1].pc = 2, n.ready PROVE n.rdata = 1
    OBVIOUS
  <2>1. cpu[1].pc = 2 /\ ~k.ready /\ Answer(1) /\ Access(1).op = "lw" /\ Access(1).addr = Cell("x", 0)
    BY <1>5, MpNames
  <2>2. Hits(k, "x") = {}
    BY <1>1, <2>1 DEF MpReceiver, Over
  <2>3. k.read_req /\ k.fill_cnt = WORDS - 1 /\ n.rdata = k.data[k.fill_way][0]
    BY <2>1, <2>2 DEF Answer, Cell
  <2> QED
    BY <1>1, <2>1, <2>3, LineAssumption DEF MpReceiver
<1>13. cpu'[1].pc > 2 => cpu'[1].r = 1
  <2> SUFFICES ASSUME cpu'[1].pc > 2 PROVE cpu'[1].r = 1
    OBVIOUS
  <2>1. CASE cpu'[1].pc = cpu[1].pc /\ cpu'[1].r = cpu[1].r
    BY <1>1, <2>1 DEF MpReceiver
  <2>2. CASE cpu[1].issued /\ k.ready /\ cpu'[1].pc = Onward(1, Result(1)) /\ cpu'[1].r = Result(1)
    <3>1. cpu[1].pc \in {1, 2, 3}
      <4>1. ~Halted(1)
        BY <1>1, <2>2 DEF RigInv, Shape, RequestOK
      <4> QED
        BY <4>1, MpNames
    <3>2. CASE cpu[1].pc = 1
      <4>1. Onward(1, Result(1)) \in {1, 2}
        BY <3>2, MpNames DEF Onward
      <4> QED
        BY <2>2, <4>1
    <3>3. CASE cpu[1].pc = 2
      <4>1. Result(1) = k.rdata
        BY <3>3, MpNames DEF Result
      <4> QED
        BY <1>1, <2>2, <3>3, <4>1 DEF MpReceiver
    <3>4. CASE cpu[1].pc = 3
      <4>1. Result(1) = cpu[1].r
        BY <3>4, MpNames DEF Result
      <4> QED
        BY <1>1, <2>2, <3>4, <4>1 DEF MpReceiver
    <3> QED
      BY <3>1, <3>2, <3>3, <3>4
  <2> QED
    BY <1>1, <2>1, <2>2, CoreMoves
<1> HIDE DEF n
<1>14. n = l1'[1]
  BY DEF n
<1> QED
  BY <1>6, <1>7, <1>8, <1>9, <1>10, <1>11, <1>12, <1>13, <1>14 DEF MpReceiver, Hits

LEMMA MpMemoryStep ==
  ASSUME RigInv, MpInv, LitmusLines, prog = tb_litmus_mp, NEW issue \in [Core -> BOOLEAN], Clock(issue)
  PROVE  /\ MpMemory'
         /\ Full("y") => Full("y")'
         /\ ~Full("y") /\ Full("y")' => grant = 0 /\ Over(0, 2)
<1>1. 0 \in Core /\ 1 \in Core /\ Core = {0, 1} /\ 0 \in Word
  BY Zero DEF Core
<1>2. MpMemory /\ MpSender /\ MpReceiver /\ MpServed
  BY DEF MpInv
<1>3. Cell("x", 0) \in Addr /\ Cell("y", 0) \in Addr /\ Cell("done", 0) \in Addr /\ 1 \in Int
  BY <1>1 DEF LitmusLines, Cell, Addr
<1>4. ASSUME NEW l \in {"x", "y", "done"}
      PROVE  \/ mem'[Cell(l, 0)] = mem[Cell(l, 0)]
             \/ /\ mem'[Cell(l, 0)] = 1
                /\ l = "y" => grant = 0 /\ Over(0, 2)
  <2>1. Cell(l, 0) \in Addr
    BY <1>3
  <2>2. CASE mem'[Cell(l, 0)] = mem[Cell(l, 0)]
    BY <2>2
  <2>3. ASSUME NEW b \in Core, grant = b, l1[b].write_req, l1[b].mem_addr = Cell(l, 0),
               mem'[Cell(l, 0)] = l1[b].mem_wdata
        PROVE  mem'[Cell(l, 0)] = 1 /\ (l = "y" => grant = 0 /\ Over(0, 2))
    <3>1. CASE b = 0
      BY <1>2, <2>3, <3>1 DEF MpSender, Cell
    <3>2. CASE b = 1
      BY <1>2, <2>3, <3>2 DEF MpReceiver, Cell
    <3> QED
      BY <1>1, <3>1, <3>2
  <2> QED
    BY <2>1, <2>2, <2>3, MemoryStep
<1>5. \A l \in {"x", "y", "done"} : Full(l) => Full(l)'
  BY <1>4 DEF Full
<1>6. ~Full("y") /\ Full("y")' => grant = 0 /\ Over(0, 2)
  BY <1>4 DEF Full
<1>7. \A l \in {"x", "y"} : Pulse(0, Cell(l, 0), 1) => Full(l)'
  BY <1>1, <1>3, MemoryStep DEF Full
<1>8. ~Halted(0) => Access(0).want = -1
  BY MpNames
<1>9. mem'[Cell("y", 0)] \in {0, 1}
  BY <1>2, <1>4 DEF MpMemory
<1>10. Over(0, 1)' => Full("x")' \/ Pulse(0, Cell("x", 0), 1)'
  <2>1. CASE Over(0, 1)
    BY <1>2, <1>5, <1>7, <2>1 DEF MpMemory
  <2>2. CASE ~Over(0, 1) /\ Over(0, 1)'
    <3>1. cpu[0].pc = 1 /\ l1'[0].ready
      BY <1>1, <1>8, <2>2, OverComes
    <3> QED
      BY <3>1, MpAnswer DEF Pulse
  <2> QED
    BY <2>1, <2>2
<1>11. Over(0, 2)' => Full("y")' \/ Pulse(0, Cell("y", 0), 1)'
  <2>1. CASE Over(0, 2)
    BY <1>2, <1>5, <1>7, <2>1 DEF MpMemory
  <2>2. CASE ~Over(0, 2) /\ Over(0, 2)'
    <3>1. cpu[0].pc = 2 /\ l1'[0].ready
      BY <1>1, <1>8, <2>2, OverComes
    <3> QED
      BY <3>1, MpAnswer DEF Pulse
  <2> QED
    BY <2>1, <2>2
<1>12. Full("y")' => Full("x")' /\ Over(0, 2)'
  <2>1. CASE Full("y")
    BY <1>1, <1>2, <1>5, <1>8, <2>1, OverStays DEF MpMemory
  <2>2. CASE ~Full("y") /\ Full("y")'
    <3>1. Over(0, 2) /\ Over(0, 1)
      BY <1>6, <2>2, MpNames DEF Over
    <3>2. Over(0, 2)'
      BY <1>1, <1>8, <3>1, OverStays
    <3>3. Full("x") \/ Pulse(0, Cell("x", 0), 1)
      BY <1>2, <3>1 DEF MpMemory
    <3> QED
      BY <1>5, <1>7, <3>2, <3>3
  <2> QED
    BY <2>1, <2>2
<1>13. Over(1, 3)' => \/ Full("done")'
                      \/ Pulse(1, Cell("done", 0), 1)' /\ ~l1'[0].read_req /\ ~l1'[0].write_req
  <2> SUFFICES ASSUME Over(1, 3)'
               PROVE  \/ Full("done")'
                      \/ Pulse(1, Cell("done", 0), 1)' /\ ~l1'[0].read_req /\ ~l1'[0].write_req
    OBVIOUS
  <2>1. CASE Over(1, 3)
    <3>1. CASE Full("done")
      BY <1>5, <3>1
    <3>2. CASE Pulse(1, Cell("done", 0), 1) /\ ~l1[0].read_req /\ ~l1[0].write_req
      BY <1>1, <1>3, <3>2, MemoryStep DEF Full
    <3> QED
      BY <1>2, <2>1, <3>1, <3>2 DEF MpMemory
  <2>2. CASE ~Over(1, 3)
    <3>1. ~Halted(1) => Access(1).want = -1 \/ Access(1).back = 1
      BY MpNames
    <3>2. cpu[1].pc = 3 /\ l1'[1].ready
      BY <1>1, <2>2, <3>1, OverComes
    <3>3. Pulse(1, Cell("done", 0), 1)'
      BY <3>2, MpAnswer DEF Pulse
    <3>4. Full("y") /\ Over(0, 2) /\ ~Busy
      BY <1>2, <3>2 DEF MpServed, Behind, Waits, MpMemory
    <3>5. ~l1'[0].read_req /\ ~l1'[0].write_req
      BY <3>4, MpAnswersSnoops DEF Busy
    <3> QED
      BY <3>3, <3>5
  <2> QED
    BY <2>1, <2>2
<1> QED
  BY <1>5, <1>6, <1>9, <1>10, <1>11, <1>12, <1>13 DEF MpMemory

\* Core 0 answers a read of a line it has modified before the second word of it is taken.
LEMMA MpServedStep ==
  ASSUME RigInv, MpInv, LitmusLines, prog = tb_litmus_mp, NEW issue \in [Core -> BOOLEAN], Clock(issue)
  PROVE  MpServed'
<1> DEFINE k == l1[0]
           n == l1'[0]
           p == Capture(0, k)
           r == l1[1]
           s == l1'[1]
           way == HitWay(k, r.mem_addr.line)
<1>1. 0 \in Core /\ 1 \in Core /\ MpMemory /\ MpSender /\ MpReceiver /\ MpServed
  BY DEF Core, MpInv
<1>2. MpMemory' /\ (Full("y") => Full("y")') /\ (~Full("y") /\ Full("y")' => grant = 0 /\ Over(0, 2))
  BY MpMemoryStep
<1>3. CacheOK(k) /\ CacheOK(r) /\ CacheOK(s)
  BY <1>1, Edge DEF RigInv, TypeOK
<1>4. /\ Owns => p = [on |-> TRUE, write |-> FALSE, way |-> way, msi |-> "M"]
      /\ ~Owns => p = k.pend
  BY MpCapture
<1>5. Owns => p.on /\ p.way = way
  BY <1>4
<1>6. r.fill_cnt \in Nat /\ s.fill_cnt \in Nat /\ k.msi \in [Way -> Msi] /\ k.pend.way \in Way /\ r.read_req \in BOOLEAN
  <2> HIDE DEF k, r, s
  <2>1. r.fill_cnt \in Nat /\ s.fill_cnt \in Nat
    BY <1>3, LineAssumption DEF CacheOK, LinesOK, Word
  <2> QED
    BY <1>3, <2>1 DEF CacheOK, LinesOK, BusOK, Snoops
<1>7. tog'[1] <=> r.read_req /\ grant = 1 /\ ~tog[1]
  BY <1>1 DEF Clock, Toggles
<1>8. read_ack(1) <=> r.read_req /\ grant = 1 /\ tog[1]
  BY DEF read_ack
<1>9. k.write_req => grant = 0
  BY DEF grant
\* A line of core 0's that core 1 polls, before the flag is up: there is none.
<1>10. ~Full("y")' => Behind' /\ ~Busy'
  <2> SUFFICES ASSUME ~Full("y")' PROVE Behind' /\ ~Busy'
    OBVIOUS
  <2>1. ~Full("y") /\ Behind /\ ~Busy
    BY <1>1, <1>2 DEF MpServed
  <2>2. Behind'
    BY <2>1, BehindStays
  <2>3. ~Over(0, 2)
    <3>1. ~Over(0, 2) \/ Pulse(0, Cell("y", 0), 1)
      BY <1>1, <2>1 DEF MpMemory
    <3>2. Cell("y", 0) \in Addr /\ 1 \in Int
      BY Zero DEF LitmusLines, Cell, Addr
    <3>3. Pulse(0, Cell("y", 0), 1) => Full("y")'
      BY <1>1, <3>2, MemoryStep DEF Full
    <3> QED
      BY <3>1, <3>3
  <2>4. ~Owns
    <3> SUFFICES ASSUME Owns PROVE FALSE
      OBVIOUS
    <3>1. r.read_req /\ Hits(k, r.mem_addr.line) # {}
      BY DEF Owns
    <3>2. r.req # NoReq /\ r.mem_addr = [r.req.addr EXCEPT !.word = r.fill_cnt]
      BY <1>1, <3>1 DEF RigInv, Shape, RefillOK
    <3>3. cpu[1].issued /\ ~r.ready
      BY <1>1, <3>2, Engaged DEF RigInv
    <3>4. r.req = [op |-> Access(1).op, addr |-> Access(1).addr, val |-> Stored(1)]
      BY <1>1, <3>3 DEF RigInv, Shape, RequestOK
    <3>5. Access(1).addr = Cell("y", 0)
      BY <2>1, MpNames DEF Behind
    <3>6. r.mem_addr.line = "y"
      BY <3>2, <3>4, <3>5 DEF Cell
    <3> QED
      BY <1>1, <2>3, <3>1, <3>6 DEF MpSender
  <2>5. ~n.pend.on
    <3>1. n.pend.on => p.on
      BY <1>1, PendIs
    <3> QED
      BY <1>4, <2>1, <2>4, <3>1 DEF Busy
  <2>6. n.state # "SNOOP_WB"
    <3> DEFINE q == Latched(0, issue[0], k)
    <3>1. Moves(0, k, n, q, p) /\ k.state \in States
      BY <1>1, <1>3, Edge DEF CacheOK, ControlOK
    <3>2. k.state # "SNOOP_WB" /\ ~k.pend.on
      BY <2>1 DEF Busy
    <3> HIDE DEF k, n, p, q
    <3> QED
      BY <3>1, <3>2 DEF Moves, States, FromIdle, FromCheck, FromRefill, FromSnoopInv, Answers
  <2> QED
    BY <2>2, <2>5, <2>6 DEF Busy
\* From here on the flag is up after the edge.
<1>11. SUFFICES ASSUME Full("y")'
       PROVE  /\ Owns' /\ ~Busy' => Begins' \/ (Behind' /\ s.fill_cnt # 0)
              /\ Busy' => Behind' \/ Waits'
              /\ Owns' /\ n.pend.on => Begins' \/ n.pend.way = HitWay(n, s.mem_addr.line)
  BY <1>10 DEF MpServed
<1>12. Over(0, 2)
  BY <1>1, <1>2, <1>11 DEF MpMemory
<1>13. /\ n.tag = k.tag
       /\ \/ /\ k.state = "IDLE" /\ ~k.pend.on /\ n.state = "IDLE" /\ n.pend = p
             /\ n.msi = k.msi /\ ~n.write_req
          \/ /\ k.state = "IDLE" /\ k.pend.on /\ n.state = "SNOOP_WB" /\ n.pend = p
             /\ n.msi = k.msi /\ ~n.write_req
          \/ /\ k.state = "SNOOP_WB" /\ n.state = "SNOOP_WB" /\ n.pend = p
             /\ n.msi = k.msi /\ n.write_req
          \/ /\ k.state = "SNOOP_WB" /\ k.write_req /\ n.state = "IDLE" /\ ~n.pend.on
             /\ n.msi = [k.msi EXCEPT ![k.pend.way] = "S"] /\ ~n.write_req
  BY <1>12, MpAnswersSnoops
<1>14. \A l : Hits(n, l) = Hits(k, l) /\ HitWay(n, l) = HitWay(k, l)
  <2>1. CASE n.msi = k.msi
    BY <1>13, <2>1 DEF Hits, HitWay
  <2>2. CASE k.state = "SNOOP_WB" /\ n.msi = [k.msi EXCEPT ![k.pend.way] = "S"]
    <3>1. k.msi[k.pend.way] # "I"
      BY <1>1, <2>2 DEF RigInv, Shape, SnoopOK
    <3>2. \A w \in Way : n.msi[w] # "I" <=> k.msi[w] # "I"
      BY <1>6, <2>2, <3>1
    <3> QED
      BY <1>13, <3>2 DEF Hits, HitWay
  <2> QED
    BY <1>13, <2>1, <2>2
\* Core 1's read after the edge has begun, or it is the one before it.
<1>15. s.read_req => \/ Begins'
                     \/ /\ r.read_req /\ s.mem_addr.line = r.mem_addr.line /\ cpu'[1] = cpu[1]
                        /\ \/ ~read_ack(1) /\ s.fill_cnt = r.fill_cnt
                           \/ read_ack(1) /\ s.fill_cnt = r.fill_cnt + 1 /\ ~tog'[1]
  BY <1>1, ReadStep DEF Begins
<1>16. Owns' => Begins' \/ (Owns /\ s.mem_addr.line = r.mem_addr.line)
  <2> SUFFICES ASSUME Owns', ~Begins' PROVE Owns /\ s.mem_addr.line = r.mem_addr.line
    OBVIOUS
  <2>1. s.read_req /\ Hits(n, s.mem_addr.line) # {} /\ n.msi[HitWay(n, s.mem_addr.line)] = "M"
    BY DEF Owns, Hits, HitWay
  <2>2. r.read_req /\ s.mem_addr.line = r.mem_addr.line
    BY <1>15, <2>1
  <2>3. Hits(k, r.mem_addr.line) # {} /\ n.msi[way] = "M" /\ way \in Way
    BY <1>14, <2>1, <2>2, HitFacts
  <2>4. k.msi[way] = "M"
    BY <1>6, <1>13, <2>3
  <2> QED
    BY <2>2, <2>3, <2>4 DEF Owns
\* While core 1 reads a modified line core 0 captures it, or ends its answer.
<1>17. Owns /\ ~Busy' => k.state = "SNOOP_WB" /\ k.write_req /\ n.msi = [k.msi EXCEPT ![k.pend.way] = "S"]
  BY <1>5, <1>13 DEF Busy
<1>18. Owns' /\ n.pend.on => Begins' \/ n.pend.way = HitWay(n, s.mem_addr.line)
  <2>1. n.pend.on => n.pend = p
    BY <1>13
  <2> QED
    BY <1>5, <1>14, <1>16, <2>1
<1>19. Owns' /\ ~Busy' => Begins' \/ (Behind' /\ s.fill_cnt # 0)
  <2> SUFFICES ASSUME Owns', ~Busy', ~Begins' PROVE Behind' /\ s.fill_cnt # 0
    OBVIOUS
  <2>1. Owns /\ s.mem_addr.line = r.mem_addr.line /\ s.read_req /\ n.msi[HitWay(n, s.mem_addr.line)] = "M"
    BY <1>16 DEF Owns, Hits, HitWay
  <2>2. k.state = "SNOOP_WB" /\ k.write_req /\ n.msi = [k.msi EXCEPT ![k.pend.way] = "S"] /\ grant = 0
    BY <1>9, <1>17, <2>1
  <2>3. k.pend.way # way
    BY <1>6, <1>14, <2>1, <2>2
  <2>4. Full("y") /\ k.pend.on
    <3>1. k.pend.on
      BY <1>1, <2>2 DEF RigInv, Shape, SnoopOK
    <3> QED
      BY <1>1, <3>1 DEF MpServed, Busy
  <2>5. Begins
    BY <1>1, <2>1, <2>3, <2>4 DEF MpServed
  <2>6. s.fill_cnt = 0 /\ ~tog'[1]
    BY <1>7, <1>8, <1>15, <2>1, <2>2, <2>5 DEF Begins
  <2> QED
    BY <2>6 DEF Begins
<1>20. Busy' => Behind' \/ Waits'
  <2> SUFFICES ASSUME Busy', ~Behind' PROVE Waits'
    OBVIOUS
  <2>1. CASE Behind
    \* Core 1 takes the flag: core 0 is about to write the line back, or does not hold it.
    <3>1. read_ack(1) /\ r.fill_cnt = 0 /\ Full("y")
      BY <2>1, BehindStays
    <3>2. r.read_req /\ grant = 1 /\ tog[1] /\ ~k.write_req /\ cpu[1].pc = 1
      BY <1>8, <1>9, <2>1, <3>1 DEF Behind
    <3>3. s.read_req /\ s.fill_cnt = 1 /\ ~tog'[1] /\ cpu'[1].pc = 1
      <4> DEFINE q == Latched(1, issue[1], r)
      <4>1. Moves(1, r, s, q, Capture(1, r)) /\ r.state = "WAITM_RD"
        BY <1>1, <3>2, Edge DEF RigInv, Shape, RefillOK
      <4>2. FromRefill(1, r, s, Capture(1, r))
        BY <4>1 DEF Moves
      <4> HIDE DEF q, r, s
      <4>3. s.read_req /\ s.fill_cnt = 1
        BY <3>1, <4>2, Zero DEF FromRefill
      <4>4. cpu'[1] = cpu[1]
        <5>1. ~Begins'
          BY <4>3 DEF Begins, s
        <5> QED
          BY <1>15, <4>3, <5>1
      <4> QED
        BY <1>7, <3>2, <4>3, <4>4
    <3>4. n.state = "SNOOP_WB"
      <4>1. CASE Busy
        BY <1>13, <3>2, <4>1 DEF Busy
      <4>2. CASE ~Busy
        <5>1. ~Owns
          BY <1>1, <3>1, <3>2, <4>2 DEF MpServed, Begins
        <5> QED
          BY <1>4, <1>13, <4>2, <5>1 DEF Busy
      <4> QED
        BY <4>1, <4>2
    <3> QED
      BY <3>3, <3>4 DEF Waits
  <2>2. CASE ~Behind /\ ~Busy
    <3>1. Full("y") /\ Owns
      BY <1>1, <1>4, <1>13, <2>2 DEF MpServed, Busy
    <3>2. Begins /\ r.read_req
      BY <1>1, <2>2, <3>1 DEF MpServed, Owns
    <3>3. s.read_req /\ s.fill_cnt = 0 /\ cpu'[1] = cpu[1]
      <4> DEFINE q == Latched(1, issue[1], r)
      <4>1. Moves(1, r, s, q, Capture(1, r)) /\ r.state = "WAITM_RD"
        BY <1>1, <3>2, Edge DEF RigInv, Shape, RefillOK
      <4>2. FromRefill(1, r, s, Capture(1, r)) /\ ~read_ack(1)
        BY <1>8, <3>2, <4>1 DEF Moves, Begins
      <4>3. s.read_req /\ s.fill_cnt = r.fill_cnt
        BY <4>2 DEF FromRefill
      <4>4. cpu[1].issued /\ ~r.ready /\ ~Ready(1)
        BY <1>1, <3>2, Engaged DEF RigInv, Shape, RefillOK
      <4>5. cpu'[1] = cpu[1]
        BY <1>1, <4>4, CoreMoves
      <4> QED
        BY <3>2, <4>3, <4>5 DEF Begins
    <3>4. cpu[1].pc \in {1, 2}
      <4>1. r.req # NoReq /\ r.mem_addr = [r.req.addr EXCEPT !.word = r.fill_cnt]
        BY <1>1, <3>2 DEF RigInv, Shape, RefillOK
      <4>2. cpu[1].issued /\ ~r.ready
        BY <1>1, <4>1, Engaged DEF RigInv
      <4>3. ~Halted(1) /\ r.req = [op |-> Access(1).op, addr |-> Access(1).addr, val |-> Stored(1)]
        BY <1>1, <4>2 DEF RigInv, Shape, RequestOK
      <4>4. cpu[1].pc = 3 => r.mem_addr.line = "done"
        BY <4>1, <4>3, MpNames DEF Cell
      <4>5. r.mem_addr.line # "done"
        BY <1>1, <3>1 DEF Owns, MpSender
      <4> QED
        BY <4>3, <4>4, <4>5, MpNames
    <3> QED
      BY <3>3, <3>4 DEF Waits
  <2>3. CASE ~Behind /\ Busy
    <3>1. Full("y") /\ Waits
      BY <1>1, <2>3 DEF MpServed
    <3>2. r.read_req /\ cpu[1].pc \in {1, 2} /\ r.fill_cnt \in {0, 1} /\ WORDS - 1 # 0
      BY <3>1, Zero DEF Waits
    <3>3. r.fill_cnt = 1 => ~read_ack(1)
      BY <1>8, <1>9, <3>1 DEF Waits
    <3>4. s.read_req
      <4> DEFINE q == Latched(1, issue[1], r)
      <4>1. Moves(1, r, s, q, Capture(1, r)) /\ r.state = "WAITM_RD"
        BY <1>1, <3>2, Edge DEF RigInv, Shape, RefillOK
      <4>2. FromRefill(1, r, s, Capture(1, r))
        BY <4>1 DEF Moves
      <4> HIDE DEF q, r, s
      <4> QED
        BY <3>2, <3>3, <4>2 DEF FromRefill
    <3>5. /\ cpu'[1] = cpu[1]
          /\ \/ ~read_ack(1) /\ s.fill_cnt = r.fill_cnt
             \/ read_ack(1) /\ s.fill_cnt = r.fill_cnt + 1 /\ ~tog'[1]
      <4>1. r.req # NoReq
        BY <1>1, <3>2 DEF RigInv, Shape, RefillOK
      <4>2. cpu[1].issued /\ ~r.ready /\ ~Ready(1)
        BY <1>1, <4>1, Engaged DEF RigInv
      <4>3. cpu'[1] = cpu[1]
        BY <1>1, <4>2, CoreMoves
      <4> QED
        BY <1>1, <3>2, <3>4, <4>3, ReadStep
    <3>6. n.state = "SNOOP_WB"
      BY <1>13, <2>3 DEF Busy
    <3>7. s.fill_cnt \in {0, 1} /\ (s.fill_cnt = 1 => n.write_req \/ ~tog'[1])
      <4>1. CASE r.fill_cnt = 0
        BY <3>5, <4>1
      <4>2. CASE r.fill_cnt = 1
        <5>1. s.fill_cnt = 1 /\ k.state = "SNOOP_WB"
          BY <3>1, <3>3, <3>5, <4>2 DEF Waits
        <5> QED
          BY <1>13, <3>6, <5>1
      <4> QED
        BY <3>2, <4>1, <4>2
    <3> QED
      BY <3>2, <3>4, <3>5, <3>6, <3>7 DEF Waits
  <2> QED
    BY <2>1, <2>2, <2>3
<1> QED
  BY <1>18, <1>19, <1>20

\* tb_litmus_mp.cpp:7-9: once the flag is visible to the receiver, so is the data, and the
\* receiver's own word lands: core 0 has answered every snoop before core 1 writes it.
THEOREM FlagBringsData == ASSUME Lines = {"x", "y", "done"} PROVE Spec => []MessagePassing
<1> DEFINE Inv == RigInv /\ MpInv
<1>0. LitmusLines
  BY DEF LitmusLines
<1>1. Init => Inv
  <2> SUFFICES ASSUME Init PROVE Inv
    OBVIOUS
  <2>1. RigInv
    BY RigStarts
  <2>2. \A c \in Core : cpu[c].pc = 1 /\ cpu[c].r = 0 /\ l1[c] = Reset /\ ~tog[c]
    BY DEF Init
  <2>3. /\ ~Reset.ready /\ ~Reset.write_req /\ ~Reset.read_req /\ Reset.state = "IDLE"
        /\ Reset.pend.msi = "I" /\ ~Reset.pend.on /\ ~Reset.pend.write /\ Reset.rdata = 0
        /\ \A w \in Way : Reset.msi[w] = "I" /\ Reset.data[w][0] = 0
    BY Zero DEF Reset, NoSnoop
  <2>4. 0 \in Core /\ 1 \in Core /\ \A l : Hits(Reset, l) = {}
    BY <2>3 DEF Core, Hits
  <2>5. mem[Cell("y", 0)] = 0
    BY <1>0, Zero DEF Init, Cell, Addr, LitmusLines
  <2> HIDE DEF Reset
  <2>6. MpMemory
    BY <2>2, <2>3, <2>4, <2>5 DEF MpMemory, Over, Full
  <2>7. MpSender
    BY <2>2, <2>3, <2>4 DEF MpSender
  <2>8. MpReceiver
    BY <2>2, <2>3, <2>4 DEF MpReceiver
  <2>9. MpServed
    BY <2>2, <2>3, <2>4, <2>5 DEF MpServed, Behind, Busy, Full
  <2> QED
    BY <2>1, <2>6, <2>7, <2>8, <2>9 DEF MpInv
<1>2. Inv /\ [Next]_vars => Inv'
  <2> SUFFICES ASSUME Inv, [Next]_vars PROVE Inv'
    OBVIOUS
  <2>1. RigInv'
    BY RigStep
  <2>2. CASE UNCHANGED vars
    BY <2>1, <2>2 DEF vars, MpInv, MpMemory, MpSender, MpReceiver, MpServed, Over, Full, Pulse,
                      Hits, HitWay, Behind, Busy, Owns, Begins, Waits
  <2>3. ASSUME NEW issue \in [Core -> BOOLEAN], Clock(issue) PROVE Inv'
    <3>1. prog' = prog
      BY <2>3 DEF Clock
    <3>2. prog = tb_litmus_mp => MpMemory' /\ MpSender' /\ MpReceiver' /\ MpServed'
      BY <1>0, <2>3, MpMemoryStep, MpSenderStep, MpReceiverStep, MpServedStep
    <3> QED
      BY <2>1, <3>1, <3>2 DEF MpInv
  <2> QED
    BY <2>2, <2>3 DEF Next
<1>3. Inv => MessagePassing
  <2> SUFFICES ASSUME Inv, MpFails PROVE FALSE
    BY DEF MessagePassing
  <2>1. prog = tb_litmus_mp /\ MpMemory /\ MpReceiver
    BY DEF MpFails, MpInv
  <2>2. Halted(1) => cpu[1].r = 1
    BY <2>1, MpNames DEF MpReceiver
  <2>3. Quiet => Full("x") /\ Full("y") /\ Full("done")
    <3> SUFFICES ASSUME Quiet PROVE Full("x") /\ Full("y") /\ Full("done")
      OBVIOUS
    <3>1. Halted(0) /\ Halted(1) /\ ~l1[0].write_req /\ ~l1[1].write_req
      BY DEF Quiet, Core
    <3>2. Over(0, 2) /\ Over(1, 3)
      BY <2>1, <3>1, MpNames DEF Over
    <3> QED
      BY <2>1, <3>1, <3>2 DEF MpMemory, Pulse
  <2> QED
    BY <2>2, <2>3 DEF MpFails, Full, Cell
<1> QED
  BY <1>1, <1>2, <1>3, PTL DEF Spec
=============================================================================
