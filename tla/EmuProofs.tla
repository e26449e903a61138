------------------------------ MODULE EmuProofs ------------------------------
(***************************************************************************)
(* The emulator, for any program, any sizes of memory and registers and    *)
(* any requests of the client: breakpoints, the reasons to stop, tohost,   *)
(* the C types, that an instruction does what RISC-V defines, and that     *)
(* each step is one a target may take.                                     *)
(***************************************************************************)
EXTENDS Emu, TLAPS

Word    == 0 .. XMod - 1
RegFile == [0 .. RegCount - 1 -> Word]
Memory  == [0 .. MEM_SIZE - 1 -> 0 .. ByteSize - 1]

\* The program was accepted by init_mem, and never changes.
ProgInv == prog \in Program /\ Loadable(prog)

\* The client has been promised the breakpoint that is set, and no other; when
\* none is set bp_addr is what emu_init or emu_del_bp left there.
PointsInv ==
    /\ client_bps = IF bp_is_set THEN {bp_addr} ELSE {}
    /\ ~bp_is_set => bp_addr \in {FreedBp, XMod - 1}

\* While emu_cont runs its result is open, and only an interrupt halts it.
ContInv ==
    mode = "cont" => act = "NONE" /\ (halt => "intr" \in why)

IInv == TypeOK /\ ProgInv /\ PointsInv /\ ContInv /\ StopsForAReason /\ TohostEndsRun
----------------------------------------------------------------------------
(* Arithmetic.                                                             *)

\* What the assumptions say of the sizes.
LEMMA Sizes ==
  /\ XMod \in Nat \ {0} /\ WMod \in Nat \ {0} /\ ByteSize \in Nat \ {0, 1}
  /\ MEM_SIZE \in Nat /\ MEM_SIZE < XMod /\ TOHOST_ADDR \in 0 .. MEM_SIZE - 1
  /\ TOHOST_ADDR = MEM_SIZE - 4 /\ RegCount \in Nat /\ RegCount > 2
<1>1. XMod \in Nat \ {0} /\ WMod \in Nat \ {0}
  BY PowerAssumption DEF XMod, WMod
<1> QED
  BY <1>1, MachineAssumption DEF XMod, TOHOST_ADDR

\* Remainders: unsigned arithmetic stays in its width.
LEMMA ModType ==
  ASSUME NEW a \in Int, NEW b \in Nat \ {0}
  PROVE  a % b \in 0 .. b - 1 /\ a \div b \in Int
  OBVIOUS

LEMMA ModSmall ==
  ASSUME NEW b \in Nat \ {0}, NEW a \in 0 .. b - 1
  PROVE  a % b = a
  OBVIOUS

LEMMA WordType ==
  /\ \A a \in Word : a \in Nat
  /\ \A a \in Int : a % XMod \in Word
  BY Sizes, ModType DEF Word

\* Division with remainder, and that it has one answer.
LEMMA DivUnique ==
  ASSUME NEW b \in Nat \ {0}, NEW q \in Int, NEW r \in 0 .. b - 1
  PROVE  (q * b + r) % b = r /\ (q * b + r) \div b = q
  OBVIOUS

LEMMA DivMod ==
  ASSUME NEW a \in Int, NEW b \in Nat \ {0}
  PROVE  a = (a \div b) * b + (a % b) /\ a \div b \in Int /\ a % b \in 0 .. b - 1
  OBVIOUS

\* Two numbers that differ by a multiple of b.
LEMMA SameMod ==
  ASSUME NEW b \in Nat \ {0}, NEW a \in Int, NEW c \in Int, NEW q \in Int, a = q * b + c
  PROVE  a % b = c % b
<1>1. PICK u \in Int, r \in 0 .. b - 1 : c = u * b + r /\ r = c % b
  BY DivMod
<1>2. (q + u) \in Int /\ a = (q + u) * b + r
  BY <1>1
<1> QED
  BY ONLY <1>1, <1>2, DivUnique, b \in Nat \ {0}

\* Adding to a remainder.
LEMMA ModAdd ==
  ASSUME NEW a \in Int, NEW c \in Int, NEW b \in Nat \ {0}
  PROVE  (c + (a % b)) % b = (c + a) % b
<1>1. PICK q \in Int, r \in 0 .. b - 1 : a = q * b + r /\ r = a % b
  BY DivMod
<1>2. PICK y \in Int, z \in Int : y = c + a /\ z = c + r
  BY <1>1
<1>3. y = q * b + z
  <2>1. PICK w \in Int : w = q * b
    OBVIOUS
  <2>2. PICK e \in Int : e = r
    BY <1>1
  <2>3. a = w + e /\ y = c + a /\ z = c + e
    BY ONLY <1>1, <1>2, <2>1, <2>2
  <2>4. y = w + z
    BY ONLY <2>3, c \in Int, w \in Int, e \in Int
  <2> QED
    BY ONLY <2>1, <2>4
<1>4. y % b = z % b
  BY ONLY <1>3, SameMod, b \in Nat \ {0}, q \in Int, y \in Int, z \in Int
<1> QED
  BY <1>1, <1>2, <1>4

\* Taking one more digit.
LEMMA ModDigit ==
  ASSUME NEW v \in Nat, NEW p \in Nat \ {0}, NEW b \in Nat \ {0}, p * b \in Nat \ {0}
  PROVE  v % (p * b) = (v % p) + ((v \div p) % b) * p
<1>1. PICK q \in Int, r \in 0 .. p - 1 : v = q * p + r /\ r = v % p /\ q = v \div p
  BY DivMod
<1>2. PICK u \in Int, d \in 0 .. b - 1 : q = u * b + d /\ d = q % b
  BY DivMod
<1>3. v = u * (p * b) + (d * p + r)
  <2>1. v = (u * b + d) * p + r
    BY <1>1, <1>2
  <2>2. (u * b + d) * p = u * (p * b) + d * p
    BY <1>2
  <2>3. u * (p * b) \in Int /\ d * p \in Int /\ r \in Int
    BY <1>2
  <2> QED
    BY ONLY <2>1, <2>2, <2>3
<1>4. d * p + r \in 0 .. p * b - 1
  <2>1. d * p \in Nat
    BY <1>2
  <2>2. (b - 1 - d) * p \in Nat
    <3>1. b - 1 - d \in Nat
      BY <1>2
    <3> QED
      BY <3>1
  <2>3. (b - 1 - d) * p = p * b - p - d * p
    BY <1>2
  <2> QED
    BY <1>1, <2>1, <2>2, <2>3
<1>5. v % (p * b) = d * p + r
  BY ONLY <1>2, <1>3, <1>4, DivUnique, p * b \in Nat \ {0}
<1>6. (v % p) + ((v \div p) % b) * p = r + d * p
  BY ONLY <1>1, <1>2
<1>7. r + d * p = d * p + r
  BY <1>1, <1>2
<1> QED
  BY ONLY <1>5, <1>6, <1>7

\* The powers of ByteSize: uint32_t divides uint64_t, and both are even.
LEMMA Powers ==
  /\ XMod = WMod * WMod /\ WMod % 2 = 0 /\ XMod % 2 = 0
<1> DEFINE B == ByteSize
           P(k) == ByteSize ^ k
<1>1. B \in Nat /\ \A k \in 0 .. 8 : P(k) \in Nat \ {0}
  BY PowerAssumption, MachineAssumption
<1>2. P(0) = 1 /\ \A k \in 1 .. 8 : P(k) = P(k - 1) * B
  BY PowerAssumption
<1>3. B % 2 = 0 /\ XMod = P(8) /\ WMod = P(4)
  BY MachineAssumption DEF XMod, WMod
<1> HIDE DEF P, B
<1>4. P(1) = P(0) * B /\ P(2) = P(1) * B /\ P(3) = P(2) * B /\ P(4) = P(3) * B
  <2>1. 1 \in 1 .. 8 /\ 2 \in 1 .. 8 /\ 3 \in 1 .. 8 /\ 4 \in 1 .. 8
    OBVIOUS
  <2>2. 1 - 1 = 0 /\ 2 - 1 = 1 /\ 3 - 1 = 2 /\ 4 - 1 = 3
    OBVIOUS
  <2>3. P(1) = P(1 - 1) * B /\ P(2) = P(2 - 1) * B /\ P(3) = P(3 - 1) * B /\ P(4) = P(4 - 1) * B
    BY ONLY <1>2, <2>1, Zenon
  <2> QED
    BY ONLY <2>2, <2>3
<1>5. P(5) = P(4) * B /\ P(6) = P(5) * B /\ P(7) = P(6) * B /\ P(8) = P(7) * B
  <2>1. 5 \in 1 .. 8 /\ 6 \in 1 .. 8 /\ 7 \in 1 .. 8 /\ 8 \in 1 .. 8
    OBVIOUS
  <2>2. 5 - 1 = 4 /\ 6 - 1 = 5 /\ 7 - 1 = 6 /\ 8 - 1 = 7
    OBVIOUS
  <2>3. P(5) = P(5 - 1) * B /\ P(6) = P(6 - 1) * B /\ P(7) = P(7 - 1) * B /\ P(8) = P(8 - 1) * B
    BY ONLY <1>2, <2>1, Zenon
  <2> QED
    BY ONLY <2>2, <2>3
<1>6. PICK w \in Nat, u \in Nat : w = P(4) /\ u = B * B
  BY <1>1
<1> DEFINE Assoc == \A i, j, k \in Nat : (i * j) * k = i * (j * k)
<1>0. Assoc
  OBVIOUS
<1>7. w = u * u
  <2>1. P(1) = B
    BY <1>1, <1>2, <1>4
  <2>2. P(4) = ((B * B) * B) * B
    BY ONLY <1>4, <2>1
  <2>3. w = (u * B) * B
    BY ONLY <1>6, <2>2
  <2>4. (u * B) * B = u * (B * B)
    BY ONLY <1>0, <1>1
  <2> QED
    BY ONLY <1>6, <2>3, <2>4
<1>8. P(8) = w * w
  <2>1. P(8) = (((w * B) * B) * B) * B
    BY ONLY <1>5, <1>6
  <2>2. (w * B) * B = w * (B * B)
    BY ONLY <1>0, <1>1
  <2>3. PICK e \in Nat : e = w * u
    OBVIOUS
  <2>4. (e * B) * B = e * (B * B)
    BY ONLY <1>0, <1>1
  <2>5. (w * u) * u = w * (u * u)
    BY ONLY <1>0
  <2> QED
    BY ONLY <1>6, <1>7, <2>1, <2>2, <2>3, <2>4, <2>5
<1>10. PICK c \in Int : B = 2 * c
  BY <1>1, <1>3
<1>11. PICK d \in Int : w = 2 * d
  <2>1. P(4) = P(3) * B /\ P(3) \in Int
    BY <1>1, <1>4
  <2>2. PICK e \in Int : e = P(3)
    BY <2>1
  <2>3. w = e * (2 * c) /\ e * c \in Int
    BY ONLY <1>6, <1>10, <2>1, <2>2
  <2>4. e * (2 * c) = 2 * (e * c)
    BY ONLY e \in Int, c \in Int
  <2> QED
    BY ONLY <2>3, <2>4
<1>12. w * w = 2 * (d * w) /\ d * w \in Int
  BY <1>11
<1>13. w % 2 = 0
  BY ONLY <1>11
<1>14. PICK f \in Int : w * w = 2 * f
  BY ONLY <1>12
<1>15. (w * w) % 2 = 0
  BY ONLY <1>14
<1> QED
  BY ONLY <1>3, <1>6, <1>8, <1>13, <1>15

\* Up to eight steps.
LEMMA UpToEight ==
  ASSUME NEW n \in 0 .. 8, NEW T, 0 \in T, \A k \in 1 .. n : k - 1 \in T => k \in T
  PROVE  n \in T
<1>1. n >= 1 => 1 \in T
  OBVIOUS
<1>2. n >= 2 => 2 \in T
  BY <1>1
<1>3. n >= 3 => 3 \in T
  BY <1>2
<1>4. n >= 4 => 4 \in T
  BY <1>3
<1>5. n >= 5 => 5 \in T
  BY <1>4
<1>6. n >= 6 => 6 \in T
  BY <1>5
<1>7. n >= 7 => 7 \in T
  BY <1>6
<1>8. n >= 8 => 8 \in T
  BY <1>7
<1>9. n \in {0, 1, 2, 3, 4, 5, 6, 7, 8}
  OBVIOUS
<1> QED
  BY <1>1, <1>2, <1>3, <1>4, <1>5, <1>6, <1>7, <1>8, <1>9

\* The loop of read_len: v[k] is the value of the first k bytes.
LoadRun(v, m, addr, n) ==
    v[0] = 0 /\ \A k \in 1 .. n : v[k] = v[k - 1] + m[addr + k - 1] * ByteSize ^ (k - 1)

\* The loop has a run: for at most eight bytes it is unrolled.
LEMMA LoadRuns ==
  ASSUME NEW m \in Memory, NEW n \in {1, 4, 8}, NEW addr \in Nat, addr + n <= MEM_SIZE
  PROVE  \E v : LoadRun(v, m, addr, n) /\ Load(m, addr, n) = v[n]
<1> DEFINE t(k) == m[addr + k - 1] * ByteSize ^ (k - 1)
           G(u) == [k \in 0 .. n |-> IF k = 0 THEN 0
                                      ELSE u[k - 1] + m[addr + k - 1] * ByteSize ^ (k - 1)]
           s2 == t(1) + t(2)
           s3 == s2 + t(3)
           s4 == s3 + t(4)
           s5 == s4 + t(5)
           s6 == s5 + t(6)
           s7 == s6 + t(7)
           w == [k \in 0 .. n |->
                   IF k = 0 THEN 0 ELSE IF k = 1 THEN t(1) ELSE IF k = 2 THEN s2
                   ELSE IF k = 3 THEN s3 ELSE IF k = 4 THEN s4 ELSE IF k = 5 THEN s5
                   ELSE IF k = 6 THEN s6 ELSE IF k = 7 THEN s7 ELSE s7 + t(8)]
           v == CHOOSE u : u = G(u)
<1>1. \A k \in 1 .. n : t(k) \in Int
  <2> TAKE k \in 1 .. n
  <2>1. addr + k - 1 \in 0 .. MEM_SIZE - 1
    BY Sizes
  <2>2. m[addr + k - 1] \in Int
    BY <2>1, Sizes DEF Memory
  <2>3. ByteSize ^ (k - 1) \in Int
    BY PowerAssumption
  <2> QED
    BY <2>2, <2>3
<1>2. \E u : u = G(u)
  <2> HIDE DEF t
  <2>1. \A k \in 0 .. n : w[k] = IF k = 0 THEN 0 ELSE w[k - 1] + t(k)
    <3>1. CASE n = 4
      BY <1>1, <3>1
    <3>2. CASE n = 8
      BY <1>1, <3>2
    <3>3. CASE n = 1
      BY <1>1, <3>3
    <3> QED
      BY <3>1, <3>2, <3>3
  <2>2. w = G(w)
    BY <2>1 DEF t
  <2> QED
    BY <2>2
<1>3. v = G(v)
  BY <1>2
<1>4. Load(m, addr, n) = v[n]
  BY DEF Load
<1>5. LoadRun(v, m, addr, n)
  <2> HIDE DEF v
  <2>1. \A k \in 0 .. n : v[k] = G(v)[k]
    BY <1>3
  <2> QED
    BY <2>1 DEF LoadRun
<1> HIDE DEF v
<1> QED
  BY <1>4, <1>5

\* read_len of up to eight bytes is a number of as many bytes.
LEMMA LoadBound ==
  ASSUME NEW m \in Memory, NEW n \in {1, 4, 8}, NEW addr \in Nat, addr + n <= MEM_SIZE
  PROVE  Load(m, addr, n) \in 0 .. ByteSize ^ n - 1
<1> DEFINE B == ByteSize
           P(k) == ByteSize ^ k
<1>1. PICK v : LoadRun(v, m, addr, n) /\ Load(m, addr, n) = v[n]
  BY LoadRuns
<1>2. v[0] = 0 /\ \A k \in 1 .. n : v[k] = v[k - 1] + m[addr + k - 1] * P(k - 1)
  BY <1>1 DEF LoadRun
<1>3. /\ B \in Nat /\ P(0) = 1 /\ \A k \in 0 .. 8 : P(k) \in Nat \ {0}
      /\ \A k \in 1 .. 8 : P(k) = P(k - 1) * B
  BY PowerAssumption, Sizes
<1>4. n \in 0 .. 8 /\ \A k \in 1 .. n : m[addr + k - 1] \in 0 .. B - 1
  <2>1. \A k \in 1 .. n : addr + k - 1 \in 0 .. MEM_SIZE - 1
    BY Sizes
  <2> QED
    BY <2>1, Sizes DEF Memory
<1> HIDE DEF P, B
<1> DEFINE T == {k \in 0 .. n : v[k] \in 0 .. P(k) - 1}
<1>5. 0 \in T
  BY <1>2, <1>3, <1>4
<1>6. ASSUME NEW k \in 1 .. n, k - 1 \in T PROVE k \in T
  <2>1. k \in 1 .. 8 /\ k - 1 \in 0 .. 8 /\ k \in 0 .. n
    BY <1>4
  <2>2. PICK p \in Nat \ {0} : p = P(k - 1)
    BY <1>3, <2>1
  <2>3. PICK c \in 0 .. B - 1 : c = m[addr + k - 1]
    BY <1>4
  <2>4. PICK e \in 0 .. p - 1 : e = v[k - 1]
    BY <1>6, <2>2
  <2>5. v[k] = e + c * p /\ P(k) = p * B
    BY <1>2, <1>3, <2>1, <2>2, <2>3, <2>4
  <2>6. (B - 1 - c) * p \in Nat /\ c * p \in Nat
    <3>1. B - 1 - c \in Nat /\ c \in Nat
      BY <1>3
    <3> QED
      BY <3>1
  <2>7. (B - 1 - c) * p = p * B - p - c * p
    BY <1>3
  <2>8. p * B \in Nat
    BY <1>3
  <2>9. PICK g \in Nat, h \in Nat : g = c * p /\ h = p * B
    BY <2>6, <2>8
  <2>10. h - p - g \in Nat
    BY ONLY <2>6, <2>7, <2>9
  <2>11. e + g \in 0 .. h - 1
    BY ONLY <2>10, g \in Nat, h \in Nat, p \in Nat \ {0}, e \in 0 .. p - 1
  <2>12. v[k] \in 0 .. P(k) - 1
    BY ONLY <2>5, <2>9, <2>11
  <2> QED
    BY <2>1, <2>12
<1>7. n \in T
  <2> HIDE DEF T
  <2> QED
    BY <1>4, <1>5, <1>6, UpToEight
<1> QED
  BY <1>1, <1>7 DEF P

\* So it is an integer.
LEMMA LoadType ==
  ASSUME NEW m \in Memory, NEW n \in {4, 8}, NEW addr \in Nat, addr + n <= MEM_SIZE
  PROVE  Load(m, addr, n) \in Int
<1>1. n \in {1, 4, 8}
  OBVIOUS
<1>2. Load(m, addr, n) \in 0 .. ByteSize ^ n - 1
  BY <1>1, LoadBound
<1> QED
  BY <1>2

\* write_len leaves bytes in the memory.
LEMMA StoreType ==
  ASSUME NEW m \in Memory, NEW n \in {1, 4, 8}, NEW addr \in Nat, NEW v \in Int
  PROVE  Store(m, addr, n, v) \in Memory
<1> SUFFICES ASSUME NEW a \in 0 .. MEM_SIZE - 1
             PROVE  Store(m, addr, n, v)[a] \in 0 .. ByteSize - 1
  BY DEF Store, Memory
<1>1. CASE a \in addr .. addr + n - 1
  <2>1. a - addr \in 0 .. 8
    BY <1>1
  <2>2. v \div ByteSize ^ (a - addr) \in Int
    BY <2>1, ModType, PowerAssumption
  <2> QED
    BY <1>1, <2>2, ModType, Sizes DEF Store, Memory
<1>2. CASE a \notin addr .. addr + n - 1
  BY <1>2 DEF Store, Memory
<1> QED
  BY <1>1, <1>2

\* write_len, then read_len: the number, cut to its bytes.
LEMMA LoadStored ==
  ASSUME NEW m \in Memory, NEW n \in {1, 4, 8}, NEW addr \in Nat, addr + n <= MEM_SIZE,
         NEW y \in Nat
  PROVE  Load(Store(m, addr, n, y), addr, n) = y % ByteSize ^ n
<1> DEFINE B == ByteSize
           P(k) == ByteSize ^ k
           s == Store(m, addr, n, y)
<1>0. s \in Memory
  <2>1. y \in Int
    OBVIOUS
  <2> QED
    BY <2>1, StoreType
<1>1. PICK v : LoadRun(v, s, addr, n) /\ Load(s, addr, n) = v[n]
  <2> HIDE DEF s
  <2> QED
    BY <1>0, LoadRuns
<1>2. v[0] = 0 /\ \A k \in 1 .. n : v[k] = v[k - 1] + s[addr + k - 1] * P(k - 1)
  BY <1>1 DEF LoadRun
<1>3. /\ B \in Nat \ {0} /\ P(0) = 1 /\ \A k \in 0 .. 8 : P(k) \in Nat \ {0}
      /\ \A k \in 1 .. 8 : P(k) = P(k - 1) * B
  BY PowerAssumption, Sizes
<1>4. n \in 0 .. 8
  OBVIOUS
<1>5. ASSUME NEW k \in 1 .. n PROVE s[addr + k - 1] = (y \div P(k - 1)) % B
  <2>1. /\ addr + k - 1 \in 0 .. MEM_SIZE - 1 /\ addr + k - 1 \in addr .. addr + n - 1
        /\ (addr + k - 1) - addr = k - 1
    BY Sizes
  <2>2. DOMAIN m = 0 .. MEM_SIZE - 1
    BY DEF Memory
  <2>3. PICK a : a = addr + k - 1
    OBVIOUS
  <2>4. a \in DOMAIN m /\ a \in addr .. addr + n - 1 /\ a - addr = k - 1
    BY ONLY <2>1, <2>2, <2>3
  <2>5. s[a] = (y \div ByteSize ^ (a - addr)) % ByteSize
    BY <2>4 DEF Store
  <2> QED
    BY ONLY <2>3, <2>4, <2>5
<1> HIDE DEF P, B, s
<1> DEFINE T == {k \in 0 .. n : v[k] = y % P(k)}
<1>6. 0 \in T
  <2>1. y % P(0) = 0
    BY <1>3
  <2> QED
    BY <1>2, <1>4, <2>1
<1>7. ASSUME NEW k \in 1 .. n, k - 1 \in T PROVE k \in T
  <2>1. k \in 1 .. 8 /\ k - 1 \in 0 .. 8 /\ k \in 0 .. n
    BY <1>4
  <2>2. PICK p \in Nat \ {0} : p = P(k - 1)
    BY <1>3, <2>1
  <2>3. P(k) = p * B /\ P(k) \in Nat \ {0}
    <3>1. k \in 0 .. 8
      BY <2>1
    <3> QED
      BY <1>3, <2>1, <2>2, <3>1
  <2>4. v[k - 1] = y % p
    BY <1>7, <2>2
  <2>5. v[k] = (y % p) + ((y \div p) % B) * p
    BY ONLY <1>2, <1>5, <2>2, <2>4, k \in 1 .. n
  <2>6. y % (p * B) = (y % p) + ((y \div p) % B) * p
    BY ONLY ModDigit, <1>3, <2>3, y \in Nat, p \in Nat \ {0}
  <2>7. v[k] = y % P(k)
    BY ONLY <2>3, <2>5, <2>6
  <2> QED
    BY <2>1, <2>7
<1>8. n \in T
  <2> HIDE DEF T
  <2> QED
    BY <1>4, <1>6, <1>7, UpToEight
<1> QED
  BY <1>1, <1>8 DEF P, s

\* Sign extension gives numbers.
LEMMA SignedType ==
  ASSUME NEW v \in Int, NEW mod \in Nat
  PROVE  Signed(v, mod) \in Int
  BY DEF Signed

LEMMA ExtendType ==
  ASSUME NEW v \in Int
  PROVE  Extend(v) \in Int
<1>1. v % WMod \in Int
  BY Sizes, ModType
<1>2. Signed(v % WMod, WMod) \in Int
  BY <1>1, Sizes, SignedType
<1> QED
  BY <1>2, Sizes, ModType DEF Extend
----------------------------------------------------------------------------
(* Executing an instruction keeps the machine within its types.            *)

Outcome == [x : RegFile, pc : Word, mem : Memory]

\* The operands of an instruction.
LEMMA OperandTypes ==
  ASSUME TypeOK, NEW i \in Instruction
  PROVE  /\ x \in RegFile /\ mem \in Memory /\ X \in RegFile
         /\ X[i.rs1] \in Word /\ X[i.rs2] \in Word
         /\ Imm(i) \in Word /\ Addr(i) \in Word
<1>1. x \in RegFile /\ mem \in Memory
  BY DEF TypeOK, RegFile, Memory, Word
<1>2. X \in RegFile
  BY <1>1, Sizes DEF X, RegFile, Word
<1>3. X[i.rs1] \in Word /\ X[i.rs2] \in Word
  BY <1>2 DEF RegFile, Instruction
<1>4. Imm(i) \in Word
  <2>1. i.imm \in Int
    BY Sizes, ModType DEF Instruction
  <2> QED
    BY <2>1, WordType DEF Imm
<1>5. X[i.rs1] + Imm(i) \in Int
  BY <1>3, <1>4, WordType
<1>6. Addr(i) \in Word
  BY <1>5, WordType DEF Addr
<1> QED
  BY <1>1, <1>2, <1>3, <1>4, <1>6

\* An instruction that writes rd leaves words in the registers.
LEMMA SetRdType ==
  ASSUME TypeOK, NEW i \in Instruction, NEW p \in Word, NEW v \in Int
  PROVE  SetRd(i, p, v) \in Outcome
<1>1. v % XMod \in Word
  BY Sizes, ModType DEF Word
<1>2. [X EXCEPT ![i.rd] = v % XMod] \in RegFile
  BY <1>1, OperandTypes DEF RegFile
<1>3. mem \in Memory
  BY OperandTypes
<1> QED
  BY <1>2, <1>3 DEF SetRd, Outcome

\* emu_exec, p being the pc behind the instruction.
LEMMA ExecType ==
  ASSUME TypeOK, NEW i \in Instruction, NEW p \in Word
  PROVE  emu_exec(i, p) \in Outcome
<1> DEFINE r == emu_exec(i, p)
<1>0. \A a \in Word : a \in Int
  BY WordType
<1>1. CASE i.op \in {"lw", "ld"}
  <2>1. Width(i.op) \in {4, 8}
    BY <1>1 DEF Width
  <2>2. Inside(Addr(i), Width(i.op)) => Load(mem, Addr(i), Width(i.op)) \in Int
    BY <2>1, LoadType, OperandTypes, Sizes DEF Inside, Word
  <2>3. opcode_3(i, p) \in Outcome
    BY <2>2, SetRdType DEF opcode_3
  <2> QED
    BY <1>1, <2>3 DEF emu_exec
<1>2. CASE i.op \in {"addi", "slti"}
  <2>1. opcode_13(i, p) \in Outcome
    BY <1>0, OperandTypes, SetRdType DEF opcode_13
  <2> QED
    BY <1>2, <2>1 DEF emu_exec
<1>3. CASE i.op = "auipc"
  <2>1. opcode_17(i, p) \in Outcome
    BY <1>0, OperandTypes, SetRdType DEF opcode_17
  <2> QED
    BY <1>3, <2>1 DEF emu_exec
<1>4. CASE i.op = "addiw"
  <2>1. Extend(X[i.rs1] + Imm(i)) \in Int
    BY <1>0, OperandTypes, ExtendType
  <2>2. opcode_1b(i, p) \in Outcome
    BY <2>1, SetRdType DEF opcode_1b
  <2> QED
    BY <1>4, <2>2 DEF emu_exec
<1>5. CASE i.op \in {"sb", "sw", "sd"}
  <2>1. Width(i.op) \in {1, 4, 8}
    BY <1>5 DEF Width
  <2>2. Addr(i) \in Nat /\ X[i.rs2] \in Int
    BY <1>0, OperandTypes, Sizes DEF Word
  <2>3. Store(mem, Addr(i), Width(i.op), X[i.rs2]) \in Memory
    BY <2>1, <2>2, StoreType, OperandTypes
  <2>4. opcode_23(i, p) \in Outcome
    BY <2>3, OperandTypes DEF opcode_23, Outcome
  <2> QED
    BY <1>5, <2>4 DEF emu_exec
<1>6. CASE i.op = "add"
  <2>1. opcode_33(i, p) \in Outcome
    BY <1>0, OperandTypes, SetRdType DEF opcode_33
  <2> QED
    BY <1>6, <2>1 DEF emu_exec
<1>7. CASE i.op = "lui"
  <2>1. opcode_37(i, p) \in Outcome
    BY <1>0, OperandTypes, SetRdType DEF opcode_37
  <2> QED
    BY <1>7, <2>1 DEF emu_exec
<1>8. CASE i.op = "addw"
  <2>1. Extend(X[i.rs1] + X[i.rs2]) \in Int
    BY <1>0, OperandTypes, ExtendType
  <2>2. opcode_3b(i, p) \in Outcome
    BY <2>1, SetRdType DEF opcode_3b
  <2> QED
    BY <1>8, <2>2 DEF emu_exec
<1>9. CASE i.op = "jalr"
  <2> DEFINE s == SetRd(i, p, p)
             t == (s.x[i.rs1] + Imm(i)) % XMod
  <2>1. s \in Outcome
    BY <1>0, SetRdType
  <2>2. s.x[i.rs1] \in Word
    BY <2>1 DEF Outcome, RegFile, Instruction
  <2>3. t \in Word
    <3>1. s.x[i.rs1] + Imm(i) \in Int
      BY <1>0, <2>2, OperandTypes
    <3> QED
      BY <3>1, WordType
  <2>4. t - (t % 2) \in Word
    <3> HIDE DEF t
    <3> QED
      BY <2>3, Sizes DEF Word
  <2>5. [s EXCEPT !.pc = t - (t % 2)] \in Outcome
    <3> HIDE DEF s, t
    <3> QED
      BY <2>1, <2>4 DEF Outcome
  <2>6. opcode_67(i, p) \in Outcome
    BY <2>5 DEF opcode_67
  <2> QED
    BY <1>9, <2>6 DEF emu_exec
<1>10. CASE i.op = "jal"
  <2> DEFINE s == SetRd(i, p, p)
             t == (p + Imm(i) - 4) % XMod
  <2>1. s \in Outcome
    BY <1>0, SetRdType
  <2>2. t \in Word
    <3>1. p + Imm(i) - 4 \in Int
      BY <1>0, OperandTypes
    <3> QED
      BY <3>1, WordType
  <2>3. [s EXCEPT !.pc = t] \in Outcome
    <3> HIDE DEF s, t
    <3> QED
      BY <2>1, <2>2 DEF Outcome
  <2>4. opcode_6f(i, p) \in Outcome
    BY <2>3 DEF opcode_6f
  <2> QED
    BY <1>10, <2>4 DEF emu_exec
<1>11. CASE i.op = "illegal"
  <2>1. emu_exec(i, p) = [x |-> X, pc |-> p, mem |-> mem]
    BY <1>11 DEF emu_exec
  <2> QED
    BY <2>1, OperandTypes DEF Outcome
<1> QED
  BY <1>1, <1>2, <1>3, <1>4, <1>5, <1>6, <1>7, <1>8, <1>9, <1>10, <1>11 DEF Instruction

\* The program occupies the memory below tohost.
LEMMA CodeSize ==
  ASSUME ProgInv
  PROVE  code_size \in Nat /\ code_size <= TOHOST_ADDR /\ prog \in Seq(Instruction)
  BY InputAssumption, Sizes DEF ProgInv, Loadable, code_size

\* A step that executes an instruction: what is fetched, and the types behind it.
LEMMA ExecuteStep ==
  ASSUME TypeOK, ProgInv, pc < code_size, NEW i \in Fetch, Execute(i)
  PROVE  /\ i \in Instruction /\ pc' \in Word /\ x' \in RegFile /\ mem' \in Memory
         /\ prog' = prog /\ inst' = i
         /\ wild' \in {wild, "program"}
<1>1. pc \in Nat /\ pc + 4 \in Word
  BY CodeSize, Sizes DEF TypeOK, Word
<1>2. i \in Instruction
  <2>1. CASE pc % 4 = 0
    <3>1. pc \div 4 + 1 \in 1 .. Len(prog)
      BY <1>1, <2>1, CodeSize DEF code_size
    <3>2. i = prog[pc \div 4 + 1]
      BY <2>1 DEF Fetch
    <3> QED
      BY <3>1, <3>2, CodeSize
  <2>2. CASE pc % 4 # 0
    BY <2>2, InputAssumption DEF Fetch
  <2> QED
    BY <2>1, <2>2
<1>3. emu_exec(i, pc + 4) \in Outcome
  BY <1>1, <1>2, ExecType
<1> QED
  BY <1>2, <1>3 DEF Execute, Outcome
----------------------------------------------------------------------------
(* An instruction does what RISC-V defines.                                *)

\* What an instruction reads in register k: x0 is zero.
Reg(k) == IF k = 0 THEN 0 ELSE x[k]

\* What the outcome o of instruction i has to be.
MatchesISA(i, o) ==
    /\ o.pc = ISA_pc(i) % XMod
    /\ \A r \in 1 .. RegCount - 1 :
         o.x[r] = IF r = i.rd /\ i.op \notin {"sb", "sw", "sd"}
                  THEN ISA_rd(i) % XMod ELSE x[r]
    /\ i.op \in {"sb", "sw", "sd"} =>
         LET at == ((IF i.rs1 = 0 THEN 0 ELSE x[i.rs1]) + i.imm) % XMod
             n == Width(i.op)
         IN /\ Load(o.mem, at, n) = (IF i.rs2 = 0 THEN 0 ELSE x[i.rs2]) % ByteSize ^ n
            /\ \A a \in DOMAIN mem \ (at .. at + n - 1) : o.mem[a] = mem[a]

\* A remainder is its own remainder.
LEMMA ModTwice ==
  ASSUME NEW a \in Int, NEW b \in Nat \ {0}
  PROVE  (a % b) % b = a % b
  BY ModType, ModSmall

\* The operands, over the integers.
LEMMA Operands ==
  ASSUME TypeOK, NEW i \in Instruction
  PROVE  /\ i.rs1 \in 0 .. RegCount - 1 /\ i.rs2 \in 0 .. RegCount - 1 /\ i.rd \in 0 .. RegCount - 1
         /\ i.imm \in Int /\ -XMod <= 2 * i.imm /\ 2 * i.imm < XMod
         /\ Reg(i.rs1) \in Word /\ Reg(i.rs2) \in Word
         /\ X[i.rs1] = Reg(i.rs1) /\ X[i.rs2] = Reg(i.rs2)
         /\ DOMAIN X = 0 .. RegCount - 1 /\ \A r \in 1 .. RegCount - 1 : X[r] = x[r]
         /\ Addr(i) = (Reg(i.rs1) + i.imm) % XMod /\ Addr(i) \in Word
<1>1. i.rs1 \in 0 .. RegCount - 1 /\ i.rs2 \in 0 .. RegCount - 1 /\ i.rd \in 0 .. RegCount - 1
  BY DEF Instruction
<1>2. i.imm \in Int /\ -XMod <= 2 * i.imm /\ 2 * i.imm < XMod
  <2>1. i.imm \in -(XMod \div 2) .. (XMod - 1) \div 2
    BY DEF Instruction
  <2>2. PICK z \in Nat \ {0} : z = XMod
    BY Sizes
  <2>3. i.imm \in -(z \div 2) .. (z - 1) \div 2
    BY ONLY <2>1, <2>2
  <2>4. i.imm \in Int /\ -z <= 2 * i.imm /\ 2 * i.imm < z
    BY ONLY <2>3, z \in Nat \ {0}
  <2> QED
    BY ONLY <2>2, <2>4
<1>3. x \in [0 .. RegCount - 1 -> Word] /\ X = [x EXCEPT ![0] = 0] /\ 0 \in 0 .. RegCount - 1
  BY Sizes DEF TypeOK, Word, X
<1>4. \A k \in 0 .. RegCount - 1 : X[k] = Reg(k)
  BY <1>3 DEF Reg
<1>5. DOMAIN X = 0 .. RegCount - 1 /\ \A r \in 1 .. RegCount - 1 : X[r] = x[r]
  <2>1. \A r \in 1 .. RegCount - 1 : r \in 0 .. RegCount - 1 /\ r # 0
    BY Sizes
  <2> QED
    BY <1>3, <2>1
<1>6. X[i.rs1] \in Word /\ X[i.rs2] \in Word /\ Addr(i) \in Word
  BY OperandTypes
<1>7. Addr(i) = (Reg(i.rs1) + i.imm) % XMod
  <2>1. Reg(i.rs1) \in Int
    BY <1>1, <1>4, <1>6, WordType
  <2>2. (Reg(i.rs1) + (i.imm % XMod)) % XMod = (Reg(i.rs1) + i.imm) % XMod
    BY ONLY ModAdd, <1>2, <2>1, Sizes
  <2> QED
    BY <1>1, <1>4, <2>2 DEF Addr, Imm
<1> QED
  BY <1>1, <1>2, <1>4, <1>5, <1>6, <1>7

\* An instruction that writes rd.
LEMMA SetRdISA ==
  ASSUME TypeOK, NEW i \in Instruction, NEW p, NEW v, v % XMod = ISA_rd(i) % XMod,
         i.op \notin {"sb", "sw", "sd"}, p = ISA_pc(i) % XMod
  PROVE  MatchesISA(i, SetRd(i, p, v))
<1>1. \A r \in 1 .. RegCount - 1 :
         SetRd(i, p, v).x[r] = IF r = i.rd THEN ISA_rd(i) % XMod ELSE x[r]
  <2> TAKE r \in 1 .. RegCount - 1
  <2>1. r \in DOMAIN X /\ X[r] = x[r]
    <3>1. r \in 0 .. RegCount - 1
      BY Sizes
    <3> QED
      BY <3>1, Operands
  <2>2. SetRd(i, p, v).x = [X EXCEPT ![i.rd] = v % XMod]
    BY DEF SetRd
  <2> QED
    BY <2>1, <2>2
<1>2. SetRd(i, p, v).pc = p
  BY DEF SetRd
<1> QED
  BY <1>1, <1>2 DEF MatchesISA

\* A signed immediate, as a register holds it.
LEMMA SignedImm ==
  ASSUME NEW b \in Nat \ {0}, NEW a \in Int, -b <= 2 * a, 2 * a < b
  PROVE  Signed(a % b, b) = a
<1>1. CASE a >= 0
  <2>1. a % b = a
    BY <1>1, ModSmall
  <2> QED
    BY <2>1 DEF Signed
<1>2. CASE a < 0
  <2>1. PICK r \in 0 .. b - 1 : r = a + b
    BY <1>2
  <2>2. -1 \in Int /\ a = (-1) * b + r
    BY <2>1
  <2>3. a % b = r
    BY ONLY <2>2, DivUnique, b \in Nat \ {0}
  <2> QED
    BY <2>1, <2>3 DEF Signed
<1> QED
  BY <1>1, <1>2

\* The low word of a sum.
LEMMA AddLow ==
  ASSUME NEW a \in Int, NEW c \in Int
  PROVE  (c + (a % XMod)) % WMod = (c + a) % WMod
<1>1. PICK q \in Int, r \in Int : a = q * XMod + r /\ r = a % XMod
  <2>1. a = (a \div XMod) * XMod + (a % XMod) /\ a \div XMod \in Int /\ a % XMod \in Word
    BY Sizes, DivMod, WordType
  <2> QED
    BY <2>1, WordType
<1>2. PICK w \in Nat \ {0} : w = WMod
  BY Sizes
<1>3. a = q * (w * w) + r
  BY ONLY <1>1, <1>2, Powers
<1>4. q * (w * w) = (q * w) * w /\ q * w \in Int
  BY ONLY q \in Int, w \in Nat \ {0}
<1>5. PICK e \in Int, g \in Int : e = q * w /\ g = e * w
  BY ONLY <1>4, w \in Nat \ {0}
<1>6. a = g + r
  BY ONLY <1>3, <1>4, <1>5
<1>7. PICK y \in Int, z \in Int : y = c + a /\ z = c + r
  OBVIOUS
<1>8. y = g + z
  BY ONLY <1>6, <1>7, c \in Int, r \in Int, g \in Int
<1>9. y = e * w + z
  BY ONLY <1>5, <1>8
<1>10. y % w = z % w
  BY ONLY SameMod, <1>9, w \in Nat \ {0}, e \in Int, y \in Int, z \in Int
<1> QED
  BY ONLY <1>1, <1>2, <1>7, <1>10

\* Clearing bit 0 commutes with the wrap of an address, 2^64 being even.
LEMMA EvenTarget ==
  ASSUME NEW t \in Int
  PROVE  (t - (t % 2)) % XMod = (t % XMod) - ((t % XMod) % 2)
<1>1. PICK b \in Nat \ {0} : b = XMod
  BY Sizes
<1>2. PICK h \in Int : b = 2 * h
  <2>1. b % 2 = 0
    BY <1>1, Powers
  <2> QED
    BY <2>1
<1>3. PICK q \in Int, r \in 0 .. b - 1 : t = q * b + r /\ r = t % b
  BY DivMod
<1>4. PICK g \in Int : g = q * h
  OBVIOUS
<1>5. q * b = 2 * g
  <2>1. q * (2 * h) = 2 * (q * h)
    BY ONLY q \in Int, h \in Int
  <2> QED
    BY ONLY <1>2, <1>4, <2>1
<1>6. r \in Int /\ t = 2 * g + r
  BY <1>3, <1>5
<1>7. t % 2 = r % 2
  BY ONLY <1>6, g \in Int
<1>8. r - (r % 2) \in 0 .. b - 1
  BY <1>3
<1>9. PICK e \in 0 .. b - 1 : e = r - (r % 2)
  BY <1>8
<1>10. t - (t % 2) = q * b + e
  BY ONLY <1>5, <1>6, <1>7, <1>9, g \in Int
<1>11. (q * b + e) % b = e
  BY ONLY DivUnique, b \in Nat \ {0}, q \in Int, e \in 0 .. b - 1
<1> QED
  BY ONLY <1>1, <1>3, <1>9, <1>10, <1>11

\* Loads.
LEMMA LoadISA ==
  ASSUME TypeOK, NEW i \in Instruction, pc + 4 = ISA_pc(i) % XMod,
         i.op \in {"lw", "ld"}, ~Strays(i), ~(i.op = "lw" /\ ISA_rd(i) < 0)
  PROVE  MatchesISA(i, opcode_3(i, pc + 4))
<1> DEFINE at == (Reg(i.rs1) + i.imm) % XMod
           n == Width(i.op)
<1>1. n \in {1, 4, 8} /\ n = IF i.op = "lw" THEN 4 ELSE 8
  BY DEF Width
<1>2. Addr(i) = at /\ at \in Nat
  BY Operands, WordType
<1>3. Inside(at, n) /\ at + n <= MEM_SIZE
  BY <1>2 DEF Strays, Inside
<1>4. Load(mem, at, n) \in 0 .. ByteSize ^ n - 1
  <2> HIDE DEF at, n
  <2>1. mem \in Memory
    BY OperandTypes
  <2> QED
    BY <1>1, <1>2, <1>3, <2>1, LoadBound
<1>5. ISA_rd(i) = IF i.op = "lw" THEN Signed(Load(mem, at, 4), WMod) ELSE Load(mem, at, 8)
  BY DEF ISA_rd, Reg
<1>6. ISA_rd(i) = Load(mem, at, n)
  <2>1. CASE i.op = "ld"
    BY <1>1, <1>5, <2>1
  <2>2. CASE i.op = "lw"
    <3>1. PICK l \in 0 .. WMod - 1 : l = Load(mem, at, 4)
      BY <1>1, <1>4, <2>2 DEF WMod
    <3>2. ISA_rd(i) = Signed(l, WMod) /\ ~(Signed(l, WMod) < 0)
      BY <1>5, <2>2, <3>1
    <3>3. Signed(l, WMod) = l
      <4>1. PICK w \in Nat \ {0} : w = WMod
        BY Sizes
      <4>2. l \in 0 .. w - 1 /\ ~(Signed(l, w) < 0)
        BY ONLY <3>1, <3>2, <4>1
      <4>3. Signed(l, w) = l
        BY ONLY <4>2, w \in Nat \ {0} DEF Signed
      <4> QED
        BY ONLY <4>1, <4>3
    <3>4. n = 4
      BY <1>1, <2>2
    <3> QED
      BY ONLY <3>1, <3>2, <3>3, <3>4
  <2> QED
    BY <2>1, <2>2
<1>7. opcode_3(i, pc + 4) = SetRd(i, pc + 4, ISA_rd(i))
  <2>1. opcode_3(i, pc + 4) =
          SetRd(i, pc + 4, IF Inside(Addr(i), n) THEN Load(mem, Addr(i), n) ELSE 0)
    BY DEF opcode_3
  <2> HIDE DEF n, at
  <2> QED
    BY ONLY <1>2, <1>3, <1>6, <2>1
<1>8. i.op \notin {"sb", "sw", "sd"}
  OBVIOUS
<1> QED
  BY <1>7, <1>8, SetRdISA

\* Stores.
LEMMA StoreISA ==
  ASSUME TypeOK, NEW i \in Instruction, pc + 4 = ISA_pc(i) % XMod,
         i.op \in {"sb", "sw", "sd"}, ~Strays(i)
  PROVE  MatchesISA(i, opcode_23(i, pc + 4))
<1> DEFINE at == (Reg(i.rs1) + i.imm) % XMod
           n == Width(i.op)
           o == opcode_23(i, pc + 4)
           s == Store(mem, at, n, Reg(i.rs2))
<1>1. n \in {1, 4, 8}
  BY DEF Width
<1>2. Addr(i) = at /\ at \in Nat /\ X[i.rs2] = Reg(i.rs2) /\ Reg(i.rs2) \in Nat
  BY Operands, WordType
<1>3. Inside(at, n) /\ at + n <= MEM_SIZE
  BY <1>2 DEF Strays, Inside
<1>4. mem \in Memory
  BY OperandTypes
<1>5. o.pc = pc + 4 /\ o.x = X
  BY DEF opcode_23
<1>6. o.mem = s
  <2>1. o.mem = IF Inside(Addr(i), n) THEN Store(mem, Addr(i), n, X[i.rs2]) ELSE mem
    BY DEF opcode_23
  <2> HIDE DEF o, n, at
  <2> QED
    BY ONLY <1>2, <1>3, <2>1 DEF s
<1> HIDE DEF o, n, at
<1>7. Load(s, at, n) = Reg(i.rs2) % ByteSize ^ n
  BY <1>1, <1>2, <1>3, <1>4, LoadStored
<1>8. \A a \in DOMAIN mem \ (at .. at + n - 1) : s[a] = mem[a]
  BY <1>4 DEF Store
<1> HIDE DEF s
<1>9. /\ Load(o.mem, at, n) = Reg(i.rs2) % ByteSize ^ n
      /\ \A a \in DOMAIN mem \ (at .. at + n - 1) : o.mem[a] = mem[a]
  BY ONLY <1>6, <1>7, <1>8
<1>10. \A r \in 1 .. RegCount - 1 : o.x[r] = x[r]
  BY <1>5, Operands
<1> QED
  BY <1>5, <1>9, <1>10 DEF MatchesISA, Reg, at, n, o

\* Arithmetic: the value that goes to rd.
LEMMA ArithISA ==
  ASSUME TypeOK, NEW i \in Instruction, pc \in Word, pc + 4 = ISA_pc(i) % XMod,
         i.op \in {"addi", "slti", "auipc", "addiw", "add", "lui", "addw"}
  PROVE  MatchesISA(i, emu_exec(i, pc + 4))
<1> DEFINE p == pc + 4
           a == Reg(i.rs1)
           b == Reg(i.rs2)
           m == i.imm % XMod
<1>1. /\ i.imm \in Int /\ a \in Int /\ b \in Int /\ pc \in Int
      /\ X[i.rs1] = a /\ X[i.rs2] = b /\ Imm(i) = m
  BY Operands, WordType DEF Imm
<1>2. m \in Int
  <2>1. PICK d \in Int : d = i.imm
    BY <1>1
  <2>2. d % XMod \in Nat
    BY ONLY WordType, d \in Int
  <2> QED
    BY ONLY <2>1, <2>2
<1>3. ASSUME NEW v, emu_exec(i, p) = SetRd(i, p, v), v % XMod = ISA_rd(i) % XMod
      PROVE  MatchesISA(i, emu_exec(i, pc + 4))
  BY <1>3, SetRdISA
<1>4. \A c \in Int : (c + m) % XMod = (c + i.imm) % XMod
  BY ONLY <1>1, ModAdd, Sizes
<1>5. \A v \in Int : (Extend(v)) % XMod = Signed(v % WMod, WMod) % XMod
  <2> TAKE v \in Int
  <2>1. Signed(v % WMod, WMod) \in Int
    <3>1. v % WMod \in Int /\ WMod \in Nat
      BY Sizes, ModType
    <3> QED
      BY <3>1, SignedType
  <2> QED
    BY <2>1, ModTwice, Sizes DEF Extend
<1>6. CASE i.op = "addi"
  <2>1. emu_exec(i, p) = SetRd(i, p, a + m)
    BY <1>1, <1>6 DEF emu_exec, opcode_13
  <2>2. ISA_rd(i) = a + i.imm
    BY <1>6 DEF ISA_rd, Reg
  <2>3. (a + m) % XMod = ISA_rd(i) % XMod
    BY ONLY <1>1, <1>4, <2>2
  <2> QED
    BY ONLY <1>3, <2>1, <2>3
<1>7. CASE i.op = "slti"
  <2>1. emu_exec(i, p) =
          SetRd(i, p, IF Signed(a, XMod) < Signed(m, XMod) THEN 1 ELSE 0)
    BY <1>1, <1>7 DEF emu_exec, opcode_13
  <2>2. ISA_rd(i) = IF Signed(a, XMod) < i.imm THEN 1 ELSE 0
    BY <1>7 DEF ISA_rd, Reg
  <2>3. Signed(m, XMod) = i.imm
    BY SignedImm, Operands, Sizes
  <2>4. emu_exec(i, p) = SetRd(i, p, ISA_rd(i))
    BY ONLY <2>1, <2>2, <2>3
  <2> QED
    BY ONLY <1>3, <2>4
<1>8. CASE i.op = "auipc"
  <2>1. emu_exec(i, p) = SetRd(i, p, p + m - 4)
    BY <1>1, <1>8 DEF emu_exec, opcode_17
  <2>2. ISA_rd(i) = pc + i.imm
    BY <1>8 DEF ISA_rd
  <2>3. p + m - 4 = pc + m
    BY <1>1, <1>2
  <2>4. (p + m - 4) % XMod = ISA_rd(i) % XMod
    BY ONLY <1>1, <1>4, <2>2, <2>3
  <2> QED
    BY ONLY <1>3, <2>1, <2>4
<1>9. CASE i.op = "addiw"
  <2>1. emu_exec(i, p) = SetRd(i, p, Extend(a + m))
    BY <1>1, <1>9 DEF emu_exec, opcode_1b
  <2>2. ISA_rd(i) = Signed((a + i.imm) % WMod, WMod)
    BY <1>9 DEF ISA_rd, Reg
  <2>3. (a + m) % WMod = (a + i.imm) % WMod
    BY ONLY <1>1, AddLow
  <2>5. a + m \in Int
    BY ONLY <1>1, <1>2
  <2>4. Extend(a + m) % XMod = ISA_rd(i) % XMod
    BY ONLY <1>5, <2>2, <2>3, <2>5
  <2> QED
    BY ONLY <1>3, <2>1, <2>4
<1>10. CASE i.op = "add"
  <2>1. emu_exec(i, p) = SetRd(i, p, a + b)
    BY <1>1, <1>10 DEF emu_exec, opcode_33
  <2>2. ISA_rd(i) = a + b
    BY <1>10 DEF ISA_rd, Reg
  <2> QED
    BY ONLY <1>3, <2>1, <2>2
<1>11. CASE i.op = "lui"
  <2>1. emu_exec(i, p) = SetRd(i, p, m)
    BY <1>1, <1>11 DEF emu_exec, opcode_37
  <2>2. ISA_rd(i) = i.imm
    BY <1>11 DEF ISA_rd
  <2>3. m % XMod = ISA_rd(i) % XMod
    BY <1>1, <2>2, ModTwice, Sizes
  <2> QED
    BY ONLY <1>3, <2>1, <2>3
<1>12. CASE i.op = "addw"
  <2>1. emu_exec(i, p) = SetRd(i, p, Extend(a + b))
    BY <1>1, <1>12 DEF emu_exec, opcode_3b
  <2>2. ISA_rd(i) = Signed((a + b) % WMod, WMod)
    BY <1>12 DEF ISA_rd, Reg
  <2>3. a + b \in Int
    BY <1>1
  <2>4. Extend(a + b) % XMod = ISA_rd(i) % XMod
    BY ONLY <1>5, <2>2, <2>3
  <2> QED
    BY ONLY <1>3, <2>1, <2>4
<1> QED
  BY <1>6, <1>7, <1>8, <1>9, <1>10, <1>11, <1>12

\* Jumps.
LEMMA JumpISA ==
  ASSUME TypeOK, NEW i \in Instruction, pc \in Word, pc + 4 \in Word,
         i.op = "jal" \/ (i.op = "jalr" /\ i.rd # i.rs1)
  PROVE  MatchesISA(i, emu_exec(i, pc + 4))
<1> DEFINE p == pc + 4
           s == SetRd(i, p, p)
           t == Reg(i.rs1) + i.imm
           o == emu_exec(i, p)
<1>1. i.imm \in Int /\ Reg(i.rs1) \in Int /\ pc \in Int /\ t \in Int
  <2>1. i.imm \in Int /\ Reg(i.rs1) \in Word
    BY Operands
  <2>2. Reg(i.rs1) \in Int /\ pc \in Int
    BY ONLY <2>1, WordType, pc \in Word
  <2> QED
    BY ONLY <2>1, <2>2
<1>2. ISA_rd(i) = p /\ i.op \notin {"sb", "sw", "sd"}
  BY DEF ISA_rd
<1>3. \A r \in 1 .. RegCount - 1 : s.x[r] = IF r = i.rd THEN p % XMod ELSE x[r]
  <2> TAKE r \in 1 .. RegCount - 1
  <2>1. r \in DOMAIN X /\ X[r] = x[r]
    <3>1. r \in 0 .. RegCount - 1
      BY Sizes
    <3> QED
      BY <3>1, Operands
  <2>2. s.x = [X EXCEPT ![i.rd] = p % XMod]
    BY DEF SetRd
  <2> QED
    BY <2>1, <2>2
<1>4. o.x = s.x /\ o.pc = ISA_pc(i) % XMod
  <2>1. CASE i.op = "jal"
    <3>1. o = [s EXCEPT !.pc = (p + Imm(i) - 4) % XMod]
      BY <2>1 DEF emu_exec, opcode_6f
    <3>2. o.x = s.x /\ o.pc = (p + Imm(i) - 4) % XMod
      BY <3>1 DEF SetRd
    <3>3. p + Imm(i) - 4 = pc + (i.imm % XMod)
      <4>1. i.imm % XMod \in Int
        <5>1. PICK d \in Int : d = i.imm
          BY <1>1
        <5>2. d % XMod \in Nat
          BY ONLY WordType, d \in Int
        <5> QED
          BY ONLY <5>1, <5>2
      <4> QED
        BY <1>1, <4>1 DEF Imm
    <3>4. (pc + (i.imm % XMod)) % XMod = (pc + i.imm) % XMod
      BY ONLY <1>1, ModAdd, Sizes
    <3>5. ISA_pc(i) = pc + i.imm
      BY <2>1 DEF ISA_pc
    <3> HIDE DEF p, o, s
    <3> QED
      BY ONLY <3>2, <3>3, <3>4, <3>5
  <2>2. CASE i.op = "jalr" /\ i.rd # i.rs1
    <3> DEFINE u == (s.x[i.rs1] + Imm(i)) % XMod
    <3>1. o = [s EXCEPT !.pc = u - (u % 2)]
      BY <2>2 DEF emu_exec, opcode_67
    <3>2. o.x = s.x /\ o.pc = u - (u % 2)
      BY <3>1 DEF SetRd
    <3>3. s.x[i.rs1] = Reg(i.rs1)
      <4>1. s.x = [X EXCEPT ![i.rd] = p % XMod]
        BY DEF SetRd
      <4> QED
        BY <2>2, <4>1, Operands
    <3>4. u = t % XMod
      <4>1. (Reg(i.rs1) + (i.imm % XMod)) % XMod = (Reg(i.rs1) + i.imm) % XMod
        BY ONLY <1>1, ModAdd, Sizes
      <4> QED
        BY <3>3, <4>1 DEF Imm
    <3>5. ISA_pc(i) = t - (t % 2)
      <4>1. t = IF i.rs1 = 0 THEN i.imm ELSE x[i.rs1] + i.imm
        BY <1>1 DEF Reg
      <4> QED
        BY <2>2, <4>1 DEF ISA_pc
    <3>6. (t - (t % 2)) % XMod = (t % XMod) - ((t % XMod) % 2)
      BY ONLY <1>1, EvenTarget
    <3> HIDE DEF o, s, t, u
    <3> QED
      BY ONLY <3>2, <3>4, <3>5, <3>6
  <2> QED
    BY <2>1, <2>2
<1> HIDE DEF o, s
<1> QED
  BY <1>2, <1>3, <1>4 DEF MatchesISA, o

\* Every instruction that emu_exec implements, but for the two exceptions.
LEMMA ExecISA ==
  ASSUME TypeOK, NEW i \in Instruction, pc \in Word, pc + 4 \in Word,
         i.op # "illegal", ~Strays(i),
         ~(i.op = "jalr" /\ i.rd = i.rs1), ~(i.op = "lw" /\ ISA_rd(i) < 0)
  PROVE  MatchesISA(i, emu_exec(i, pc + 4))
<1>1. i.op \in {"lw", "ld", "addi", "slti", "auipc", "addiw", "sb", "sw", "sd", "add", "lui",
                "addw", "jalr", "jal"}
  BY DEF Instruction
<1>2. CASE i.op \in {"jal", "jalr"}
  BY <1>2, JumpISA
<1>3. CASE i.op \notin {"jal", "jalr"}
  <2>1. ISA_pc(i) = pc + 4
    BY <1>3 DEF ISA_pc
  <2>2. (pc + 4) % XMod = pc + 4
    <3>1. pc + 4 \in 0 .. XMod - 1
      BY DEF Word
    <3> QED
      BY <3>1, ModSmall, Sizes
  <2>3. pc + 4 = ISA_pc(i) % XMod
    BY <2>1, <2>2
  <2>4. CASE i.op \in {"lw", "ld"}
    <3>1. emu_exec(i, pc + 4) = opcode_3(i, pc + 4)
      BY <2>4 DEF emu_exec
    <3> QED
      BY <2>3, <2>4, <3>1, LoadISA
  <2>5. CASE i.op \in {"sb", "sw", "sd"}
    <3>1. emu_exec(i, pc + 4) = opcode_23(i, pc + 4)
      BY <2>5 DEF emu_exec
    <3> QED
      BY <2>3, <2>5, <3>1, StoreISA
  <2>6. CASE i.op \in {"addi", "slti", "auipc", "addiw", "add", "lui", "addw"}
    BY <2>3, <2>6, ArithISA
  <2> QED
    BY <1>1, <1>3, <2>4, <2>5, <2>6
<1> QED
  BY <1>2, <1>3

\* The body of ExecMatchesISA.
ISAStep ==
    LET i == inst' IN
    i # NoInst /\ i.op # "illegal" /\ wild' = "no" =>
         \/ i.op = "jalr" /\ i.rd = i.rs1
         \/ i.op = "lw" /\ ISA_rd(i) < 0
         \/ /\ pc' = ISA_pc(i) % XMod
            /\ \A r \in 1 .. RegCount - 1 :
                 x'[r] = IF r = i.rd /\ i.op \notin {"sb", "sw", "sd"}
                         THEN ISA_rd(i) % XMod ELSE x[r]
            /\ i.op \in {"sb", "sw", "sd"} =>
                 LET at == ((IF i.rs1 = 0 THEN 0 ELSE x[i.rs1]) + i.imm) % XMod
                     n == Width(i.op)
                 IN /\ Load(mem', at, n) = (IF i.rs2 = 0 THEN 0 ELSE x[i.rs2]) % ByteSize ^ n
                    /\ \A a \in DOMAIN mem \ (at .. at + n - 1) : mem'[a] = mem[a]

\* A step that executes an instruction.
LEMMA ExecuteISA ==
  ASSUME IInv, pc < code_size, wild = "no", NEW i \in Fetch, Execute(i)
  PROVE  ISAStep
<1>1. i \in Instruction /\ inst' = i
  BY ExecuteStep DEF IInv
<1>2. pc \in Word /\ pc + 4 \in Word
  BY CodeSize, Sizes DEF IInv, TypeOK, Word
<1> SUFFICES ASSUME i.op # "illegal", wild' = "no",
                    ~(i.op = "jalr" /\ i.rd = i.rs1), ~(i.op = "lw" /\ ISA_rd(i) < 0)
             PROVE  /\ pc' = ISA_pc(i) % XMod
                    /\ \A r \in 1 .. RegCount - 1 :
                         x'[r] = IF r = i.rd /\ i.op \notin {"sb", "sw", "sd"}
                                 THEN ISA_rd(i) % XMod ELSE x[r]
                    /\ i.op \in {"sb", "sw", "sd"} =>
                         LET at == ((IF i.rs1 = 0 THEN 0 ELSE x[i.rs1]) + i.imm) % XMod
                             n == Width(i.op)
                         IN /\ Load(mem', at, n)
                                 = (IF i.rs2 = 0 THEN 0 ELSE x[i.rs2]) % ByteSize ^ n
                            /\ \A a \in DOMAIN mem \ (at .. at + n - 1) : mem'[a] = mem[a]
  BY <1>1 DEF ISAStep
<1>3. ~Strays(i)
  BY DEF Execute
<1>4. MatchesISA(i, emu_exec(i, pc + 4))
  BY <1>1, <1>2, <1>3, ExecISA DEF IInv
<1>5. /\ pc' = emu_exec(i, pc + 4).pc /\ x' = emu_exec(i, pc + 4).x
      /\ mem' = emu_exec(i, pc + 4).mem
  BY DEF Execute
<1> QED
  BY <1>4, <1>5 DEF MatchesISA
----------------------------------------------------------------------------
(* The invariant.                                                          *)

\* init_emu leaves a machine that satisfies the invariant.
LEMMA InitIInv == Init => IInv
<1> SUFFICES ASSUME Init PROVE IInv
  OBVIOUS
<1>1. TypeOK
  <2>1. TOHOST_ADDR \in 0 .. XMod - 1 /\ 0 \in 0 .. XMod - 1 /\ XMod - 1 \in 0 .. XMod - 1
    BY Sizes
  <2>2. x \in [0 .. RegCount - 1 -> 0 .. XMod - 1]
    BY <2>1 DEF Init
  <2>3. mem \in [0 .. MEM_SIZE - 1 -> 0 .. ByteSize - 1]
    BY Sizes DEF Init
  <2> QED
    BY <2>1, <2>2, <2>3 DEF Init, TypeOK
<1>2. ProgInv /\ PointsInv /\ ContInv /\ StopsForAReason /\ TohostEndsRun
  BY DEF Init, ProgInv, PointsInv, ContInv, StopsForAReason, TohostEndsRun
<1> QED
  BY <1>1, <1>2 DEF IInv

\* The addresses at which the client sets breakpoints.
LEMMA BpAddress ==
  ASSUME ProgInv, NEW k \in DOMAIN prog
  PROVE  4 * (k - 1) \in Word
<1>1. k \in 1 .. Len(prog) /\ Len(prog) \in Nat
  BY CodeSize
<1>2. 4 * Len(prog) < XMod
  BY CodeSize, Sizes DEF code_size
<1> QED
  BY <1>1, <1>2, Sizes DEF Word

\* The steps that execute instructions.
LEMMA ContStepIInv ==
  ASSUME IInv, ContStep
  PROVE  IInv'
<1>1. PICK i \in Fetch :
        /\ Execute(i) /\ exec' = TRUE
        /\ \/ i.op = "illegal" /\ ContEnds("RESUME") /\ why' = why \cup {"illegal"}
           \/ i.op # "illegal" /\ Tohost /\ ContEnds("SHUTDOWN") /\ UNCHANGED why
           \/ i.op # "illegal" /\ ~Tohost /\ UNCHANGED <<mode, act, why>>
  BY DEF ContStep
<1>2. /\ mode = "cont" /\ wild = "no" /\ pc < code_size /\ act = "NONE"
      /\ UNCHANGED <<bp_is_set, bp_addr, client_bps, halt>>
  BY DEF ContStep, Runs, points, IInv, ContInv
<1>3. /\ pc' \in Word /\ x' \in RegFile /\ mem' \in Memory
      /\ prog' = prog /\ wild' \in {wild, "program"}
  BY <1>1, <1>2, ExecuteStep DEF IInv
<1>4. TypeOK'
  BY <1>1, <1>2, <1>3 DEF IInv, TypeOK, RegFile, Memory, Word, ContEnds
<1>5. ProgInv' /\ PointsInv'
  BY <1>2, <1>3 DEF IInv, ProgInv, PointsInv
<1>6. ContInv'
  BY <1>1, <1>2 DEF IInv, ContInv, ContEnds
<1>7. StopsForAReason'
  BY <1>1, <1>2 DEF StopsForAReason, ContEnds
<1>8. TohostEndsRun'
  BY <1>1, <1>2 DEF TohostEndsRun, ContEnds, Tohost
<1> QED
  BY <1>4, <1>5, <1>6, <1>7, <1>8 DEF IInv

LEMMA ContReturnIInv ==
  ASSUME IInv, ContReturn
  PROVE  IInv'
<1>1. /\ mode = "cont" /\ ~Runs /\ mode' = "idle" /\ act' = "RESUME"
      /\ UNCHANGED <<prog, pc, x, mem, bp_is_set, bp_addr, client_bps, halt, exec, why, wild>>
  BY DEF ContReturn, ContEnds, machine, points
<1>2. TypeOK' /\ ProgInv' /\ PointsInv' /\ ContInv' /\ TohostEndsRun'
  BY <1>1 DEF IInv, TypeOK, ProgInv, PointsInv, ContInv, TohostEndsRun
<1>3. pc >= code_size \/ pc = bp_addr \/ halt
  BY <1>1, CodeSize, Sizes DEF Runs, IInv, TypeOK
<1>4. halt => why # {}
  BY <1>1 DEF IInv, ContInv
<1>5. pc = bp_addr => pc >= code_size \/ pc \in client_bps \/ (pc = 0 /\ ~bp_is_set)
  <2>1. CASE bp_is_set
    BY <2>1 DEF IInv, PointsInv
  <2>2. CASE ~bp_is_set
    <3>1. XMod - 1 >= code_size
      BY CodeSize, Sizes DEF IInv
    <3> QED
      BY <2>2, <3>1 DEF IInv, PointsInv, FreedBp
  <2> QED
    BY <2>1, <2>2
<1>6. StopsForAReason'
  BY <1>1, <1>3, <1>4, <1>5 DEF StopsForAReason, code_size
<1> QED
  BY <1>2, <1>6 DEF IInv

LEMMA StepiIInv ==
  ASSUME IInv, emu_stepi
  PROVE  IInv'
<1>1. /\ mode = "idle" /\ mode' = "idle" /\ act' = "STEPPED" /\ halt' = FALSE
      /\ exec' = FALSE /\ why' = {} /\ wild = "no"
      /\ UNCHANGED <<bp_is_set, bp_addr, client_bps>>
  BY DEF emu_stepi, Waiting, points
<1>2. /\ pc' \in Word /\ x' \in RegFile /\ mem' \in Memory
      /\ prog' = prog /\ wild' \in {wild, "program"}
  <2>1. CASE pc < code_size
    <3>1. PICK i \in Fetch : Execute(i)
      BY <2>1 DEF emu_stepi
    <3> QED
      BY <2>1, <3>1, ExecuteStep DEF IInv
  <2>2. CASE ~(pc < code_size)
    <3>1. UNCHANGED <<prog, pc, x, mem, wild>>
      BY <2>2 DEF emu_stepi, machine
    <3> QED
      BY <3>1 DEF IInv, TypeOK, Word, RegFile, Memory
  <2> QED
    BY <2>1, <2>2
<1>3. TypeOK'
  BY <1>1, <1>2 DEF IInv, TypeOK, RegFile, Memory, Word
<1>4. ProgInv' /\ PointsInv' /\ ContInv' /\ StopsForAReason' /\ TohostEndsRun'
  BY <1>1, <1>2 DEF IInv, ProgInv, PointsInv, ContInv, StopsForAReason, TohostEndsRun
<1> QED
  BY <1>3, <1>4 DEF IInv

\* A request that is neither cont nor stepi leaves the result "NONE".
LEMMA RequestIInv ==
  ASSUME IInv, Idle, TypeOK', PointsInv'
  PROVE  IInv'
<1>1. /\ mode = "idle" /\ mode' = "idle" /\ act' = "NONE"
      /\ UNCHANGED <<prog, halt, exec, why>>
  BY DEF Idle, Waiting
<1> QED
  BY <1>1 DEF IInv, ProgInv, ContInv, StopsForAReason, TohostEndsRun

\* Every callback of the emulator, on either thread, preserves the invariant.
LEMMA NextIInv == IInv /\ [Next]_vars => IInv'
<1> SUFFICES ASSUME IInv, [Next]_vars PROVE IInv'
  OBVIOUS
<1>1. CASE ContBegin
  BY <1>1 DEF ContBegin, Waiting, machine, points, IInv, TypeOK, ProgInv, PointsInv,
              ContInv, StopsForAReason, TohostEndsRun
<1>2. CASE ContStep
  BY <1>2, ContStepIInv
<1>3. CASE ContReturn
  BY <1>3, ContReturnIInv
<1>4. CASE emu_on_interrupt
  <2>1. /\ halt' = TRUE /\ why' = IF mode = "cont" THEN why \cup {"intr"} ELSE why
        /\ UNCHANGED <<prog, pc, x, mem, bp_is_set, bp_addr, client_bps, mode, act, exec, wild>>
    BY <1>4 DEF emu_on_interrupt, machine, points
  <2>2. TypeOK' /\ ProgInv' /\ PointsInv' /\ ContInv'
    BY <2>1 DEF IInv, TypeOK, ProgInv, PointsInv, ContInv
  <2>3. StopsForAReason' /\ TohostEndsRun'
    BY <2>1 DEF IInv, StopsForAReason, TohostEndsRun, code_size
  <2> QED
    BY <2>2, <2>3 DEF IInv
<1>5. CASE emu_stepi
  BY <1>5, StepiIInv
<1>6. CASE emu_set_bp
  <2>1. PICK k \in DOMAIN prog, software \in BOOLEAN :
          IF software /\ CanSetBp
          THEN /\ bp_is_set' = TRUE /\ bp_addr' = 4 * (k - 1)
               /\ client_bps' = client_bps \cup {4 * (k - 1)}
          ELSE UNCHANGED points
    BY <1>6 DEF emu_set_bp
  <2>2. Idle /\ UNCHANGED <<pc, x, mem, wild>>
    BY <1>6 DEF emu_set_bp
  <2>3. TypeOK'
    BY <2>1, <2>2, BpAddress DEF Idle, points, IInv, TypeOK, Word
  <2>4. PointsInv'
    BY <2>1 DEF IInv, PointsInv, CanSetBp, points
  <2> QED
    BY <2>2, <2>3, <2>4, RequestIInv
<1>7. CASE emu_del_bp
  <2>1. PICK k \in DOMAIN prog, software \in BOOLEAN :
          /\ client_bps' = IF software THEN client_bps \ {4 * (k - 1)} ELSE client_bps
          /\ IF software /\ bp_is_set /\ bp_addr = 4 * (k - 1)
             THEN bp_is_set' = FALSE /\ bp_addr' = FreedBp
             ELSE UNCHANGED <<bp_is_set, bp_addr>>
    BY <1>7 DEF emu_del_bp
  <2>2. Idle /\ UNCHANGED <<pc, x, mem, wild>>
    BY <1>7 DEF emu_del_bp
  <2>3. TypeOK'
    <3>1. FreedBp \in 0 .. XMod - 1
      BY Sizes DEF FreedBp
    <3> QED
      BY <2>1, <2>2, <3>1 DEF Idle, IInv, TypeOK
  <2>4. PointsInv'
    BY <2>1 DEF IInv, PointsInv, FreedBp
  <2> QED
    BY <2>2, <2>3, <2>4, RequestIInv
<1>8. CASE emu_write_reg
  <2>1. PICK w \in RegWrite :
          IF w[1] = RegCount THEN pc' = w[2] /\ UNCHANGED x
          ELSE x' = [x EXCEPT ![w[1]] = w[2]] /\ UNCHANGED pc
    BY <1>8 DEF emu_write_reg
  <2>2. Idle /\ UNCHANGED <<mem, bp_is_set, bp_addr, client_bps, wild>>
    BY <1>8 DEF emu_write_reg, points
  <2>3. w[2] \in Word
    BY InputAssumption DEF Word
  <2>4. TypeOK'
    BY <2>1, <2>2, <2>3 DEF Idle, IInv, TypeOK, Word
  <2>5. PointsInv'
    BY <2>2 DEF IInv, PointsInv
  <2> QED
    BY <2>2, <2>4, <2>5, RequestIInv
<1>9. CASE emu_access_mem
  <2>1. PICK req \in Access, writes \in BOOLEAN, v \in 0 .. ByteSize - 1 :
          LET addr == req[1] len == req[2]
              bytes == addr .. addr + len - 1
          IN /\ ~Refused(addr, len)
             /\ writes => addr >= code_size
             /\ wild' = IF bytes \subseteq DOMAIN mem THEN wild
                        ELSE IF addr + len >= XMod THEN "wrap" ELSE "request"
             /\ mem' = IF writes THEN [a \in DOMAIN mem |-> IF a \in bytes THEN v ELSE mem[a]]
                       ELSE mem
    BY <1>9 DEF emu_access_mem
  <2>2. Idle /\ UNCHANGED <<pc, x, bp_is_set, bp_addr, client_bps>>
    BY <1>9 DEF emu_access_mem, points
  <2>3. req[1] \in Nat /\ req[2] \in Nat
    BY InputAssumption, Sizes
  <2>4. mem \in Memory /\ mem' \in Memory
    BY <2>1 DEF IInv, TypeOK, Memory
  <2>5. wild' \in {wild, "wrap"}
    <3>1. CASE req[1] + req[2] >= XMod
      BY <2>1, <3>1
    <3>2. CASE req[1] + req[2] < XMod
      <4>1. (req[1] + req[2]) % XMod = req[1] + req[2]
        BY <2>3, <3>2, ModSmall, Sizes
      <4>2. req[1] + req[2] <= MEM_SIZE
        <5>1. ~((req[1] + req[2]) % XMod > MEM_SIZE)
          BY <2>1 DEF Refused
        <5> QED
          BY <2>3, <4>1, <5>1, Sizes
      <4>3. req[1] .. req[1] + req[2] - 1 \subseteq DOMAIN mem
        <5>1. DOMAIN mem = 0 .. MEM_SIZE - 1
          BY <2>4 DEF Memory
        <5>2. \A a \in req[1] .. req[1] + req[2] - 1 : a \in 0 .. MEM_SIZE - 1
          BY <2>3, <4>2, Sizes
        <5> QED
          BY <5>1, <5>2
      <4> QED
        BY <2>1, <4>3
    <3> QED
      BY <2>3, <3>1, <3>2, Sizes
  <2>6. TypeOK'
    BY <2>2, <2>4, <2>5 DEF Idle, IInv, TypeOK, Memory
  <2>7. PointsInv'
    BY <2>2 DEF IInv, PointsInv
  <2> QED
    BY <2>2, <2>6, <2>7, RequestIInv
<1>10. CASE Over \/ UNCHANGED vars
  <2>1. UNCHANGED vars
    BY <1>10 DEF Over
  <2> QED
    BY <2>1 DEF vars, machine, points, IInv, TypeOK, ProgInv, PointsInv, ContInv,
                StopsForAReason, TohostEndsRun, code_size
<1> QED
  BY <1>1, <1>2, <1>3, <1>4, <1>5, <1>6, <1>7, <1>8, <1>9, <1>10 DEF Next

(***************************************************************************)
(* Registers, pc and memory keep their C types whatever program runs, and  *)
(* a memory request that emu_read_mem or emu_write_mem accepts stays       *)
(* within the memory unless addr + len wraps around.                       *)
(***************************************************************************)
THEOREM Invariance == Spec => []IInv
<1>1. Init => IInv
  BY InitIInv
<1>2. IInv /\ [Next]_vars => IInv'
  BY NextIInv
<1> QED
  BY <1>1, <1>2, PTL DEF Spec

(***************************************************************************)
(* The types of the machine and of the session, of which the bounds of the *)
(* memory are the part that emu_exec and the memory callbacks could break. *)
(***************************************************************************)
THEOREM TypeCorrect == Spec => []TypeOK
<1>1. IInv => TypeOK
  BY DEF IInv
<1> QED
  BY <1>1, Invariance, PTL

(***************************************************************************)
(* When emu_cont returns ACT_RESUME, pc is behind the program or at a      *)
(* breakpoint the client set, or an interrupt or an instruction that is    *)
(* not implemented stopped it, or pc is 0 after emu_del_bp.                *)
(***************************************************************************)
THEOREM AlwaysAReason == Spec => []StopsForAReason
<1>1. IInv => StopsForAReason
  BY DEF IInv
<1> QED
  BY <1>1, Invariance, PTL

(***************************************************************************)
(* The loop of emu_cont never executes a further instruction, and never    *)
(* returns to the client, with the byte at tohost set.                     *)
(***************************************************************************)
THEOREM TohostIsFinal == Spec => []TohostEndsRun
<1>1. IInv => TohostEndsRun
  BY DEF IInv
<1> QED
  BY <1>1, Invariance, PTL

(***************************************************************************)
(* emu_cont never executes the instruction at a breakpoint that emu_set_bp *)
(* accepted and emu_del_bp did not remove.                                 *)
(***************************************************************************)
THEOREM NoBreakpointRunOver == Spec => BreakpointsHonoured
<1>1. IInv /\ [Next]_vars => [mode = "cont" /\ inst' # NoInst => pc \notin client_bps]_vars
  <2> SUFFICES ASSUME IInv, Next, mode = "cont", inst' # NoInst, vars' # vars
               PROVE  pc \notin client_bps
    OBVIOUS
  <2>1. CASE ContStep
    BY <2>1 DEF ContStep, Runs, IInv, PointsInv
  <2>2. CASE ContReturn \/ emu_on_interrupt
    BY <2>2 DEF ContReturn, emu_on_interrupt
  <2>3. CASE \/ ContBegin \/ emu_stepi \/ emu_set_bp \/ emu_del_bp
             \/ emu_write_reg \/ emu_access_mem
    BY <2>3 DEF ContBegin, emu_stepi, emu_set_bp, emu_del_bp, emu_write_reg,
                emu_access_mem, Idle, Waiting
  <2>4. CASE Over
    BY <2>4 DEF Over
  <2> QED
    BY <2>1, <2>2, <2>3, <2>4 DEF Next
<1> QED
  BY <1>1, Invariance, PTL DEF Spec, BreakpointsHonoured

(***************************************************************************)
(* For every program, every state the client can bring about and the sizes *)
(* of the code: what emu_exec does to registers, pc and memory is what     *)
(* RISC-V defines over the integers, but for lw of a negative word and     *)
(* jalr with rd = rs1.                                                     *)
(***************************************************************************)
THEOREM InstructionsAsDefined == Spec => ExecMatchesISA
<1>1. IInv /\ [Next]_vars => [ISAStep]_vars
  <2> SUFFICES ASSUME IInv, Next, inst' # NoInst, vars' # vars
               PROVE  ISAStep
    BY DEF ISAStep
  <2>1. CASE ContStep
    <3>1. PICK i \in Fetch : Execute(i)
      BY <2>1 DEF ContStep
    <3>2. pc < code_size /\ wild = "no"
      BY <2>1 DEF ContStep, Runs
    <3> QED
      BY <3>1, <3>2, ExecuteISA
  <2>2. CASE emu_stepi
    <3>1. wild = "no" /\ pc < code_size
      BY <2>2 DEF emu_stepi, Waiting
    <3>2. PICK i \in Fetch : Execute(i)
      BY <2>2, <3>1 DEF emu_stepi
    <3> QED
      BY <3>1, <3>2, ExecuteISA
  <2>3. CASE \/ ContBegin \/ ContReturn \/ emu_on_interrupt \/ emu_set_bp \/ emu_del_bp
             \/ emu_write_reg \/ emu_access_mem
    BY <2>3 DEF ContBegin, ContReturn, emu_on_interrupt, emu_set_bp, emu_del_bp,
                emu_write_reg, emu_access_mem, Idle
  <2>4. CASE Over
    BY <2>4 DEF Over
  <2> QED
    BY <2>1, <2>2, <2>3, <2>4 DEF Next
<1> QED
  BY <1>1, Invariance, PTL DEF Spec, ExecMatchesISA, ISAStep

(***************************************************************************)
(* Each step of the emulator is one that Target allows, or changes neither *)
(* whether it runs nor its halt flag: the safety part of ImplementsTarget. *)
(***************************************************************************)
THEOREM RefinesTarget == Spec => Abstract!Steps
<1>1. Init => Abstract!Init
  BY DEF Init, Abstract!Init
<1>2. IInv /\ [Next]_vars => [Abstract!Next]_<<mode = "cont", halt>>
  <2> SUFFICES ASSUME IInv, [Next]_vars
               PROVE  Abstract!Next \/ UNCHANGED <<mode = "cont", halt>>
    OBVIOUS
  <2> USE DEF Abstract!Next, Abstract!cont, Abstract!stepi, Abstract!on_interrupt,
              Abstract!Stop
  <2>1. CASE ContBegin
    BY <2>1 DEF ContBegin, Waiting
  <2>2. CASE ContStep
    BY <2>2 DEF ContStep, ContEnds
  <2>3. CASE ContReturn
    BY <2>3 DEF ContReturn, ContEnds
  <2>4. CASE emu_on_interrupt
    BY <2>4 DEF emu_on_interrupt
  <2>5. CASE emu_stepi
    BY <2>5 DEF emu_stepi, Waiting
  <2>6. CASE emu_set_bp \/ emu_del_bp \/ emu_write_reg \/ emu_access_mem
    BY <2>6 DEF emu_set_bp, emu_del_bp, emu_write_reg, emu_access_mem, Idle
  <2>7. CASE Over \/ UNCHANGED vars
    BY <2>7 DEF Over, vars
  <2> QED
    BY <2>1, <2>2, <2>3, <2>4, <2>5, <2>6, <2>7 DEF Next
<1> QED
  BY <1>1, <1>2, Invariance, PTL DEF Spec, Abstract!Steps
==============================================================================
