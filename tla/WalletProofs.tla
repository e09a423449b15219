----------------------------- MODULE WalletProofs ---------------------------
(***************************************************************************)
(* Proofs about WalletService, for any number of wallets, callers, keys,   *)
(* retries and faults: rotations of keys keep one current and honour the   *)
(* cooling period, and rotations of receive addresses return addresses     *)
(* that may be given out and leave the wallet with one.                    *)
(***************************************************************************)
EXTENDS WalletService, FiniteSetTheorems, TLAPS

WF == INSTANCE WellFoundedInduction

-----------------------------------------------------------------------------
(* Keys.  A key that cools does so until the cooling period after it was   *)
(* current last, and one that is retired has passed it.                    *)
KeyRow == [state : {"CURRENT", "COOLING", "RETIRED"}, from : Nat, to : Int]

Timely(row, last, now) ==
  /\ last \in Nat
  /\ row.state = "CURRENT" => last = now
  /\ row.state = "COOLING" => row.to = last + KeyCoolingPeriod
  /\ row.state = "RETIRED" => last + KeyCoolingPeriod < now

KeyInv ==
  /\ clock \in Nat
  /\ keys \in [DOMAIN keys -> KeyRow]
  /\ DOMAIN lastCurrent = DOMAIN keys
  /\ DOMAIN keys # {} => \E k \in DOMAIN keys : Current(keys) = {k}
  /\ \A k \in DOMAIN keys : Timely(keys[k], lastCurrent[k], clock)

-----------------------------------------------------------------------------
(* Addresses.  The definitions below take the tables as parameters: t is   *)
(* addrs, ws the set of wallets, cs the calls, sc the scenario.            *)
PC == {"idle", "wallet", "update", "active", "rotate", "first", "spin", "peek", "release",
       "delete", "done"} \cup Locked

Call ==
  [pc : PC, op : AllOperations \cup {None}, w : Wallets \cup {None}, old : Nat \cup {None},
   idx : Nat, tries : Nat,
   ret : [s : {"ok", "retired", "busy", "error"}, a : Nat \cup {None}],
   seen : SUBSET Nat, dead : SUBSET Nat, alone : BOOLEAN]

AddressRow ==
  [wallet : Wallets, index : Nat, address : Nat, state : {"ACTIVE", "DEPRECATED"},
   receives : Nat]

ActiveOf(t, w) == {a \in DOMAIN t : t[a].wallet = w /\ t[a].state = "ACTIVE"}

(* Table addresses: rows by index, at most one active per wallet.          *)
Table(t, ws) ==
  /\ DOMAIN t \subseteq Nat /\ t \in [DOMAIN t -> AddressRow]
  /\ \E n \in Nat : \A a \in DOMAIN t : a <= n
  /\ \A a \in DOMAIN t : t[a].index = a /\ t[a].address = a /\ t[a].wallet \in ws
  /\ \A w : \A a, b \in ActiveOf(t, w) : a = b

Gone(t) == {a \in DOMAIN t : t[a].state = "DEPRECATED"}

(* Call x on its own: its operation, its history, what it returns.         *)
Known(x, t, ws) ==
  /\ x.pc # "idle" => x.w \in ws
  /\ x.pc \in {"rotate", "first", "active"} \cup Locked => x.op \in {"current", "force"}
  /\ x.pc \in {"spin", "peek", "recheck"} => x.op = "current"
  /\ x.seen \subseteq DOMAIN t /\ x.dead \subseteq Gone(t)
  /\ x.ret.a # None =>
       /\ x.ret.a \in DOMAIN t \ x.dead /\ t[x.ret.a].wallet = x.w
       /\ x.op = "force" => x.ret.a \notin x.seen

(* Call x while no other runs; lk is the lock of its wallet.               *)
Served(x, t, lk) ==
  /\ x.pc \in {"wallet", "active", "rotate", "first", "spin"} => lk = None
  /\ x.pc # "peek"
  /\ x.pc \in {"rotate", "deprecate"} => x.old \in ActiveOf(t, x.w)
  /\ x.pc \in {"first", "index", "insert"} => ActiveOf(t, x.w) = {}
  /\ x.pc = "insert" => x.idx \notin DOMAIN t
  /\ x.pc \in {"release", "delete", "done"} /\ x.op \in {"current", "force"}
       => x.ret.s \in {"ok", "retired"}

Lone(cs, c, t, lk, sc) ==
  cs[c].alone /\ cs[c].pc # "idle" =>
    /\ cs[c].pc # "done" => \A d \in Callers \ {c} : cs[d].pc \in {"idle", "done"}
    /\ sc.chain # "solana" => Served(cs[c], t, lk[cs[c].w])

(* Somebody is about to give wallet w an address, and will succeed.        *)
Mended(cs, t) ==
  \E c \in Callers : cs[c].pc = "index" \/ (cs[c].pc = "insert" /\ cs[c].idx \notin DOMAIN t)

Keeps(cs, t, ws, sc, n) ==
  \A w \in Wallets : ws = {w} /\ sc.chain # "solana" /\ n = 0 /\ DOMAIN t # {}
                       => ActiveOf(t, w) # {} \/ Mended(cs, t)

RotationInv ==
  /\ call \in [Callers -> Call]
  /\ lock \in [Wallets -> Callers \cup {None}]
  /\ faults \in Nat /\ DOMAIN wallets \subseteq Wallets
  /\ Table(addrs, DOMAIN wallets)
  /\ \A c \in Callers : Known(call[c], addrs, DOMAIN wallets)
  /\ \A c \in Callers : call[c].pc = "solana" => scenario.chain = "solana"
  /\ \A c \in Callers : Lone(call, c, addrs, lock, scenario)
  /\ Keeps(call, addrs, DOMAIN wallets, scenario, faults)

-----------------------------------------------------------------------------
(* Sets of naturals have a least element, bounded ones a greatest.         *)
LEMMA NatWellFounded == WF!IsWellFoundedOn({s \in Nat \X Nat : s[1] < s[2]}, Nat)
  BY Zenon, WF!NatLessThanWellFounded DEF WF!OpToRel

LEMMA Least ==
  ASSUME NEW S, S \subseteq Nat, S # {}
  PROVE  \E x \in S : \A y \in S : x <= y
<1> DEFINE R == {s \in Nat \X Nat : s[1] < s[2]}
<1>1. WF!IsWellFoundedOn(R, Nat)
  BY NatWellFounded
<1>2. \A x, y \in Nat : y < x => <<y, x>> \in R
  OBVIOUS
<1> HIDE DEF R
<1>3. PICK x \in S : \A y \in S : ~(<<y, x>> \in R)
  BY <1>1, WF!WFMin
<1>4. \A y \in S : ~(y < x)
  BY <1>2, <1>3
<1>5. QED
  BY <1>3, <1>4

LEMMA Greatest ==
  ASSUME NEW S, S \subseteq Nat, S # {}, NEW n \in Nat, \A y \in S : y <= n
  PROVE  \E x \in S : \A y \in S : y <= x
<1> DEFINE R == {n - y : y \in S}
<1>1. R \subseteq Nat /\ R # {}
  <2>1. \A y \in S : n - y \in Nat
    OBVIOUS
  <2>2. PICK y \in S : TRUE
    OBVIOUS
  <2>3. n - y \in R
    OBVIOUS
  <2>4. QED
    BY <2>1, <2>3
<1>2. PICK r \in R : \A q \in R : r <= q
  <2> HIDE DEF R
  <2>1. QED
    BY <1>1, Least
<1>3. PICK x \in S : r = n - x
  BY <1>2
<1>4. \A y \in S : n - x <= n - y
  BY <1>2, <1>3
<1>5. QED
  BY <1>4

-----------------------------------------------------------------------------
(* Keys.                                                                   *)
LEMMA ResolvedIs == Resolved = {k \in DOMAIN keys : keys[k].state \in {"CURRENT", "COOLING"}}
<1> DEFINE live == {k \in DOMAIN keys : keys[k].state \in {"CURRENT", "COOLING"}}
<1>1. ResolveActiveKey(keys).r.v = {<<k, keys[k]>> : k \in live}
  BY DEF ResolveActiveKey, List, Fail, OkWith
<1>2. {r[1] : r \in {<<k, keys[k]>> : k \in live}} = live
  <2>1. \A k : <<k, keys[k]>>[1] = k
    OBVIOUS
  <2> DEFINE pairs == {<<k, keys[k]>> : k \in live}
  <2>2. ASSUME NEW r \in pairs PROVE r[1] \in live
    BY <2>1, Zenon
  <2>3. ASSUME NEW k \in live PROVE \E r \in pairs : r[1] = k
    BY <2>1, Zenon
  <2> HIDE DEF pairs, live
  <2>4. {r[1] : r \in pairs} = live
    BY <2>2, <2>3
  <2>5. QED
    BY <2>4 DEF pairs
<1>3. QED
  BY <1>1, <1>2 DEF Resolved

LEMMA NoKeys == keys \in [DOMAIN keys -> KeyRow] /\ keys # <<>> => DOMAIN keys # {}
  OBVIOUS

LEMMA InitKeys == KeyInit => KeyInv
  BY DEF KeyInit, KeyInv

(* A write of table t at the present time.                                 *)
LEMMA WriteKeys ==
  ASSUME KeyInv, NEW t, Write(t), t \in [DOMAIN t -> KeyRow],
         DOMAIN keys \subseteq DOMAIN t,
         DOMAIN t # {} => \E k \in DOMAIN t : Current(t) = {k},
         \A k \in DOMAIN t :
           \/ t[k].state = "CURRENT"
           \/ k \in DOMAIN keys /\ t[k] = keys[k]
           \/ /\ k \in DOMAIN keys /\ keys[k].state = "CURRENT"
              /\ t[k].state = "COOLING" /\ t[k].to = clock + KeyCoolingPeriod
           \/ /\ k \in DOMAIN keys /\ keys[k].state = "COOLING"
              /\ t[k].state = "RETIRED" /\ keys[k].to < clock
  PROVE  KeyInv'
<1> USE CoolingAssumption
<1> DEFINE ks == Current(keys) \cup Current(t)
<1>1. keys' = t /\ clock' = clock /\ clock \in Nat
  BY DEF Write, KeyInv
<1>2. lastCurrent' = [k \in ks \cup DOMAIN lastCurrent |->
                        IF k \in ks THEN clock ELSE lastCurrent[k]]
  BY DEF Write, Stamped
<1>3. \A k \in DOMAIN t : k \in DOMAIN keys \/ k \in Current(t)
  BY DEF Current
<1>4. ks \cup DOMAIN lastCurrent = DOMAIN t
  BY <1>3 DEF Current, KeyInv
<1>5. DOMAIN lastCurrent' = DOMAIN t
  BY <1>2, <1>4
<1>6. ASSUME NEW k \in DOMAIN t PROVE Timely(t[k], lastCurrent'[k], clock)
  <2>1. lastCurrent'[k] = IF k \in ks THEN clock ELSE lastCurrent[k]
    BY <1>2, <1>4
  <2>2. k \in DOMAIN keys => Timely(keys[k], lastCurrent[k], clock) /\ keys[k] \in KeyRow
    BY DEF KeyInv
  <2>3. t[k] \in KeyRow
    BY <1>6
  <2>4. k \in ks <=> t[k].state = "CURRENT" \/ (k \in DOMAIN keys /\ keys[k].state = "CURRENT")
    BY DEF Current
  <2> HIDE DEF ks
  <2>5. CASE t[k].state = "CURRENT"
    BY <1>1, <2>1, <2>4, <2>5 DEF Timely
  <2>6. CASE k \in DOMAIN keys /\ t[k] = keys[k]
    BY <1>1, <2>1, <2>2, <2>4, <2>6 DEF Timely
  <2>7. CASE /\ k \in DOMAIN keys /\ keys[k].state = "CURRENT"
             /\ t[k].state = "COOLING" /\ t[k].to = clock + KeyCoolingPeriod
    BY <1>1, <2>1, <2>4, <2>7 DEF Timely
  <2>8. CASE /\ k \in DOMAIN keys /\ keys[k].state = "COOLING"
             /\ t[k].state = "RETIRED" /\ keys[k].to < clock
    BY <1>1, <2>1, <2>2, <2>4, <2>8 DEF Timely
  <2>9. QED
    BY <1>6, <2>5, <2>6, <2>7, <2>8
<1>7. QED
  BY <1>1, <1>5, <1>6 DEF KeyInv, Current

LEMMA BindKeys ==
  ASSUME KeyInv, NEW k \in Keys, Bind(k)
  PROVE  KeyInv'
<1> DEFINE t == BindKeyMapping(keys, k, clock).t
<1>1. clock \in Nat /\ keys \in [DOMAIN keys -> KeyRow]
  BY DEF KeyInv
<1>2. CASE DOMAIN keys = {}
  <2>1. {r \in Range(keys) : r.state = "CURRENT"} = {}
    BY <1>2 DEF Range
  <2>2. t = [i \in {k} |-> NewKey(clock)]
    BY <1>2, <2>1 DEF BindKeyMapping, Insert, Ok, Put
  <2>3. NewKey(clock) \in KeyRow /\ NewKey(clock).state = "CURRENT"
    BY <1>1 DEF NewKey, KeyRow
  <2>4. DOMAIN t = {k} /\ t[k] = NewKey(clock)
    BY <2>2
  <2>5. Current(t) = {k}
    BY <2>3, <2>4 DEF Current
  <2>6. t \in [DOMAIN t -> KeyRow]
    BY <2>2, <2>3
  <2>7. Write(t)
    BY DEF Bind
  <2> HIDE DEF t
  <2>8. QED
    BY <1>2, <2>3, <2>4, <2>5, <2>6, <2>7, WriteKeys
<1>3. CASE DOMAIN keys # {}
  <2>1. PICK j \in DOMAIN keys : Current(keys) = {j}
    BY <1>3 DEF KeyInv
  <2>2. {r \in Range(keys) : r.state = "CURRENT"} # {}
    <3>1. keys[j] \in Range(keys) /\ keys[j].state = "CURRENT"
      BY <2>1 DEF Range, Current
    <3>2. QED
      BY <3>1
  <2>3. t = keys
    BY <2>2 DEF BindKeyMapping, Insert, Fail
  <2>4. Write(keys)
    BY <2>3 DEF Bind
  <2>5. QED
    BY <1>1, <2>1, <2>4, WriteKeys
<1>4. QED
  BY <1>2, <1>3

LEMMA RotateKeys ==
  ASSUME KeyInv, NEW k \in Keys, Rotate(k)
  PROVE  KeyInv'
<1> USE CoolingAssumption
<1> DEFINE t == RotateKeyMapping(keys, k, clock, KeyCoolingPeriod).t
           Cooled(j) == [keys[j] EXCEPT !.state = "COOLING", !.to = clock + KeyCoolingPeriod]
<1>1. clock \in Nat /\ keys \in [DOMAIN keys -> KeyRow]
  BY DEF KeyInv
<1>2. /\ DOMAIN t = DOMAIN keys \cup {k}
      /\ \A j \in DOMAIN t : t[j] = IF j = k THEN NewKey(clock)
                                    ELSE IF keys[j].state = "CURRENT" THEN Cooled(j) ELSE keys[j]
  BY DEF RotateKeyMapping, Ok, Put
<1>3. t = [j \in DOMAIN t |-> t[j]]
  BY DEF RotateKeyMapping, Ok, Put
<1>4. Write(t)
  BY DEF Rotate
<1> HIDE DEF t
<1>5. NewKey(clock) \in KeyRow /\ NewKey(clock).state = "CURRENT"
  BY <1>1 DEF NewKey, KeyRow
<1>6. \A j \in DOMAIN keys : /\ Cooled(j) \in KeyRow /\ Cooled(j).state = "COOLING"
                             /\ Cooled(j).to = clock + KeyCoolingPeriod
  <2> SUFFICES ASSUME NEW j \in DOMAIN keys
               PROVE  /\ Cooled(j) \in KeyRow /\ Cooled(j).state = "COOLING"
                      /\ Cooled(j).to = clock + KeyCoolingPeriod
    OBVIOUS
  <2>1. keys[j] \in KeyRow /\ clock + KeyCoolingPeriod \in Int
    BY <1>1
  <2>2. QED
    BY <2>1 DEF KeyRow
<1> HIDE DEF Cooled
<1>7. t \in [DOMAIN t -> KeyRow]
  BY <1>1, <1>2, <1>3, <1>5, <1>6
<1>8. Current(t) = {k}
  BY <1>2, <1>5, <1>6 DEF Current
<1>9. QED
  BY <1>2, <1>4, <1>5, <1>6, <1>7, <1>8, WriteKeys

LEMMA ExpireKeys ==
  ASSUME KeyInv, Expire
  PROVE  KeyInv'
<1> DEFINE t == ExpireCooling(keys, clock).t
           Retired(k) == [keys[k] EXCEPT !.state = "RETIRED"]
           Due(k) == keys[k].state = "COOLING" /\ keys[k].to # -1 /\ keys[k].to < clock
<1>1. clock \in Nat /\ keys \in [DOMAIN keys -> KeyRow]
  BY DEF KeyInv
<1>2. t = [k \in DOMAIN keys |-> IF Due(k) THEN Retired(k) ELSE keys[k]]
  BY DEF ExpireCooling, Ok
<1>3. Write(t)
  BY DEF Expire
<1> HIDE DEF t
<1>4. \A k \in DOMAIN keys : Retired(k) \in KeyRow /\ Retired(k).state = "RETIRED"
  BY <1>1 DEF KeyRow
<1> HIDE DEF Retired
<1>5. DOMAIN t = DOMAIN keys /\ t \in [DOMAIN t -> KeyRow]
  BY <1>1, <1>2, <1>4
<1>6. Current(t) = Current(keys)
  BY <1>2, <1>4, <1>5 DEF Current
<1>7. DOMAIN t # {} => \E k \in DOMAIN t : Current(t) = {k}
  BY <1>5, <1>6 DEF KeyInv
<1>8. QED
  BY <1>2, <1>3, <1>4, <1>5, <1>7, WriteKeys

LEMMA TickKeys ==
  ASSUME KeyInv, Tick
  PROVE  KeyInv'
<1> USE CoolingAssumption
<1> DEFINE ks == Current(keys)
<1>1. /\ keys' = keys /\ clock' = clock + 1 /\ clock \in Nat /\ clock' \in Nat
      /\ keys \in [DOMAIN keys -> KeyRow] /\ DOMAIN lastCurrent = DOMAIN keys
  BY DEF Tick, KeyInv
<1>2. lastCurrent' = [k \in ks \cup DOMAIN lastCurrent |->
                        IF k \in ks THEN clock + 1 ELSE lastCurrent[k]]
  BY DEF Tick, Stamped
<1>3. ks \cup DOMAIN lastCurrent = DOMAIN keys
  BY <1>1 DEF Current
<1>4. DOMAIN lastCurrent' = DOMAIN keys
  BY <1>2, <1>3
<1>5. ASSUME NEW k \in DOMAIN keys PROVE Timely(keys[k], lastCurrent'[k], clock + 1)
  <2>1. lastCurrent'[k] = IF k \in ks THEN clock + 1 ELSE lastCurrent[k]
    BY <1>2, <1>3
  <2>2. Timely(keys[k], lastCurrent[k], clock) /\ keys[k] \in KeyRow
    BY DEF KeyInv
  <2>3. k \in ks <=> keys[k].state = "CURRENT"
    BY DEF Current
  <2> HIDE DEF ks
  <2>4. QED
    BY <1>1, <2>1, <2>2, <2>3 DEF Timely
<1>6. QED
  BY <1>1, <1>4, <1>5 DEF KeyInv, Current

LEMMA NextKeys == KeyInv /\ [Next]_vars => KeyInv'
<1> SUFFICES ASSUME KeyInv, [Next]_vars PROVE KeyInv'
  OBVIOUS
<1>1. CASE UNCHANGED keyVars
  BY <1>1 DEF keyVars, KeyInv, Current
<1>2. CASE KeyNext
  BY <1>2, BindKeys, RotateKeys, ExpireKeys, TickKeys DEF KeyNext
<1>3. QED
  BY <1>1, <1>2 DEF Next, vars

LEMMA KeysHold == Spec => []KeyInv
<1>1. Init => KeyInv
  BY InitKeys DEF Init
<1>2. QED
  BY <1>1, NextKeys, PTL DEF Spec

(* Rotation and expiry never leave a wallet that has a key with none or    *)
(* two current ones: RotateKeyMapping cools the current key and makes the  *)
(* new one current in one transaction, also when it was rotated out before *)
(* (ON CONFLICT DO UPDATE), and ResolveActiveKeyID finds a key to sign.    *)
THEOREM CurrentKeyUnique == Spec => []OneCurrentKey
<1>1. KeyInv => OneCurrentKey
  <2> SUFFICES ASSUME KeyInv, keys # <<>>
               PROVE  Cardinality(Current(keys)) = 1 /\ SigningKeys # {}
    BY DEF OneCurrentKey
  <2>1. DOMAIN keys # {} /\ keys \in [DOMAIN keys -> KeyRow]
    BY NoKeys DEF KeyInv
  <2>2. PICK k \in DOMAIN keys : Current(keys) = {k}
    BY <2>1 DEF KeyInv
  <2>3. Cardinality(Current(keys)) = 1
    BY <2>2, FS_Singleton
  <2>4. k \in Resolved /\ Resolved \subseteq DOMAIN keys
    BY <2>2, ResolvedIs DEF Current
  <2> DEFINE From == {keys[j].from : j \in Resolved}
  <2>5. From \subseteq Nat /\ From # {}
    BY <2>1, <2>4 DEF KeyRow
  <2>6. PICK f \in From : \A g \in From : f <= g
    <3> HIDE DEF From
    <3>1. QED
      BY <2>5, Least
  <2>7. PICK j \in Resolved : keys[j].from = f
    BY <2>6
  <2>8. j \in SigningKeys
    BY <2>6, <2>7 DEF SigningKeys
  <2>9. QED
    BY <2>3, <2>8
<1>2. QED
  BY <1>1, KeysHold, PTL

(* A key resolves, so that signatures under way can be completed, for the  *)
(* whole cooling period that follows the last moment it was current: what  *)
(* RotateKeyMapping writes to active_to and ExpireCooling compares it to,  *)
(* however often keys are rotated out and in again.                        *)
THEOREM CoolingHonoured == Spec => []CoolingKept
<1>1. KeyInv => CoolingKept
  <2> SUFFICES ASSUME KeyInv, NEW k \in DOMAIN lastCurrent,
                      clock <= lastCurrent[k] + KeyCoolingPeriod
               PROVE  k \in Resolved
    BY DEF CoolingKept
  <2>1. k \in DOMAIN keys /\ keys[k] \in KeyRow /\ Timely(keys[k], lastCurrent[k], clock)
    BY DEF KeyInv
  <2>2. clock \in Nat /\ lastCurrent[k] \in Nat
    BY <2>1 DEF KeyInv, Timely
  <2>3. keys[k].state # "RETIRED"
    BY <2>1, <2>2, CoolingAssumption DEF Timely
  <2>4. QED
    BY <2>1, <2>3, ResolvedIs DEF KeyRow
<1>2. QED
  BY <1>1, KeysHold, PTL

-----------------------------------------------------------------------------
(* Table addresses.                                                        *)
LEMMA ActiveIs ==
  ASSUME NEW ws, Table(addrs, ws), NEW w
  PROVE  ActiveAddress(w) = ActiveOf(addrs, w)
<1>1. ActiveAddress(w) = {addrs[a].index : a \in ActiveOf(addrs, w)}
  BY DEF ActiveAddress, GetActiveAddress, GetWhere, Fail, OkWith, ActiveOf
<1>2. \A a \in ActiveOf(addrs, w) : addrs[a].index = a
  BY DEF Table, ActiveOf
<1>3. QED
  BY <1>1, <1>2

(* The index that NextAddressIndex gives out is new.                       *)
LEMMA NextFresh ==
  ASSUME NEW t, NEW ws, Table(t, ws), NEW i \in NextAddressIndex(t).r.v
  PROVE  i \in Nat /\ i \notin DOMAIN t
<1> DEFINE S == {-1} \cup {t[a].index : a \in DOMAIN t}
<1>1. i = Max(S) + 1
  BY DEF NextAddressIndex, OkWith
<1>2. S = {-1} \cup DOMAIN t
  BY DEF Table
<1> HIDE DEF S
<1>3. DOMAIN t \subseteq Nat
  BY DEF Table
<1>4. \E x \in S : \A y \in S : x >= y
  <2>1. CASE DOMAIN t = {}
    BY <1>2, <2>1
  <2>2. CASE DOMAIN t # {}
    <3>1. PICK n \in Nat : \A a \in DOMAIN t : a <= n
      BY DEF Table
    <3>2. PICK x \in DOMAIN t : \A y \in DOMAIN t : y <= x
      BY <1>3, <2>2, <3>1, Greatest
    <3>3. x \in S /\ \A y \in S : x >= y
      BY <1>2, <1>3, <3>2
    <3>4. QED
      BY <3>3
  <2>3. QED
    BY <2>1, <2>2
<1>5. Max(S) \in S /\ \A y \in S : Max(S) >= y
  BY <1>4 DEF Max
<1> DEFINE m == Max(S)
<1> HIDE DEF m
<1>6. m \in Int /\ m >= -1 /\ \A a \in DOMAIN t : m >= a
  BY <1>2, <1>3, <1>5 DEF m
<1>7. i = m + 1
  BY <1>1 DEF m
<1>8. QED
  BY <1>3, <1>6, <1>7

(* Rows stay, and stay deprecated.                                         *)
Grows(t, u) ==
  /\ DOMAIN t \subseteq DOMAIN u
  /\ \A a \in DOMAIN t : /\ u[a].wallet = t[a].wallet
                         /\ t[a].state = "DEPRECATED" => u[a].state = "DEPRECATED"

LEMMA KnownKept ==
  ASSUME NEW x, NEW t, NEW u, NEW ws, NEW vs, Known(x, t, ws), Grows(t, u), ws \subseteq vs
  PROVE  Known(x, u, vs)
  BY DEF Known, Grows, Gone

LEMMA DeprecateTable ==
  ASSUME NEW t, NEW ws, Table(t, ws), NEW id, NEW u, u = DeprecateAddress(t, id).t
  PROVE  /\ Table(u, ws) /\ Grows(t, u) /\ DOMAIN u = DOMAIN t
         /\ \A w : ActiveOf(u, w) = ActiveOf(t, w) \ {id}
<1>1. CASE id \notin DOMAIN t
  <2>1. u = t
    BY <1>1 DEF DeprecateAddress, Update, Ok
  <2>2. QED
    BY <1>1, <2>1 DEF Grows, ActiveOf
<1>2. CASE id \in DOMAIN t
  <2> DEFINE r == [t[id] EXCEPT !.state = "DEPRECATED"]
  <2>1. u = [t EXCEPT ![id] = r]
    BY <1>2 DEF DeprecateAddress, Update, Ok
  <2>2. t \in [DOMAIN t -> AddressRow] /\ t[id] \in AddressRow
    BY <1>2 DEF Table
  <2>3. /\ r \in AddressRow /\ r.state = "DEPRECATED" /\ r.wallet = t[id].wallet
        /\ r.index = t[id].index /\ r.address = t[id].address
    BY <2>2 DEF AddressRow
  <2> HIDE DEF r
  <2>4. /\ DOMAIN u = DOMAIN t /\ u \in [DOMAIN u -> AddressRow]
        /\ \A a \in DOMAIN t : u[a] = IF a = id THEN r ELSE t[a]
    BY <1>2, <2>1, <2>2, <2>3
  <2>5. \A w : ActiveOf(u, w) = ActiveOf(t, w) \ {id}
    BY <2>3, <2>4 DEF ActiveOf
  <2>6. Grows(t, u)
    BY <2>3, <2>4 DEF Grows
  <2>7. \A a \in DOMAIN u : u[a].index = a /\ u[a].address = a /\ u[a].wallet \in ws
    BY <2>3, <2>4 DEF Table
  <2>8. Table(u, ws)
    BY <2>4, <2>5, <2>7 DEF Table
  <2>9. QED
    BY <2>4, <2>5, <2>6, <2>8
<1>3. QED
  BY <1>1, <1>2

(* InsertAddress fails exactly if the address exists or its wallet has an  *)
(* active one.                                                             *)
Inserts(t, ws, i, w, r) ==
  \/ /\ r.r.s = "ok" /\ i \notin DOMAIN t
     /\ Table(r.t, ws) /\ Grows(t, r.t) /\ DOMAIN r.t = DOMAIN t \cup {i}
     /\ r.t[i].wallet = w /\ i \in ActiveOf(r.t, w)
  \/ r.r.s = "error" /\ r.t = t /\ (i \in DOMAIN t \/ ActiveOf(t, w) # {})

LEMMA InsertTable ==
  ASSUME NEW t, NEW ws, ws \subseteq Wallets, Table(t, ws), NEW i \in Nat, NEW w \in ws, NEW r,
         r = InsertAddress(t, i, [wallet |-> w, index |-> i, address |-> i,
                                  state |-> "ACTIVE", receives |-> 0])
  PROVE  Inserts(t, ws, i, w, r)
<1> DEFINE new == [wallet |-> w, index |-> i, address |-> i, state |-> "ACTIVE", receives |-> 0]
           conflicts == {q \in Range(t) : \/ q.wallet = w /\ q.index = i
                                          \/ q.address = i
                                          \/ q.wallet = w /\ q.state = "ACTIVE"}
<1>1. /\ new \in AddressRow /\ new.wallet = w /\ new.index = i /\ new.address = i
      /\ new.state = "ACTIVE"
  BY DEF AddressRow
<1>2. r = IF i \in DOMAIN t \/ conflicts # {} THEN Fail(t, "error") ELSE Ok(Put(t, i, new))
  BY DEF InsertAddress, Insert
<1>3. conflicts = {} <=> i \notin DOMAIN t /\ ActiveOf(t, w) = {}
  <2>1. \A a \in DOMAIN t : t[a].index = a /\ t[a].address = a
    BY DEF Table
  <2>2. \A q : q \in Range(t) <=> \E a \in DOMAIN t : q = t[a]
    BY DEF Range
  <2>3. conflicts = {} => i \notin DOMAIN t /\ ActiveOf(t, w) = {}
    BY <2>1, <2>2 DEF ActiveOf
  <2>4. i \notin DOMAIN t /\ ActiveOf(t, w) = {} => conflicts = {}
    BY <2>1, <2>2 DEF ActiveOf
  <2>5. QED
    BY <2>3, <2>4
<1> HIDE DEF new, conflicts
<1>4. CASE i \in DOMAIN t \/ conflicts # {}
  BY <1>2, <1>3, <1>4 DEF Fail, Inserts
<1>5. CASE i \notin DOMAIN t /\ conflicts = {}
  <2> DEFINE u == r.t
  <2>1. r.r.s = "ok" /\ u = [a \in DOMAIN t \cup {i} |-> IF a = i THEN new ELSE t[a]]
    BY <1>2, <1>5 DEF Ok, Put
  <2> HIDE DEF u
  <2>2. DOMAIN t \subseteq Nat /\ \A a \in DOMAIN t : t[a] \in AddressRow
    BY DEF Table
  <2>3. /\ DOMAIN u = DOMAIN t \cup {i} /\ u[i] = new /\ \A a \in DOMAIN t : u[a] = t[a]
    BY <1>5, <2>1
  <2>4. DOMAIN u \subseteq Nat /\ u \in [DOMAIN u -> AddressRow]
    BY <1>1, <2>1, <2>2
  <2>5. \E n \in Nat : \A a \in DOMAIN u : a <= n
    <3>1. PICK n \in Nat : \A a \in DOMAIN t : a <= n
      BY DEF Table
    <3>2. n + i \in Nat /\ \A a \in DOMAIN u : a <= n + i
      BY <2>2, <2>3, <3>1
    <3>3. QED
      BY <3>2
  <2>6. \A a \in DOMAIN u : u[a].index = a /\ u[a].address = a /\ u[a].wallet \in ws
    BY <1>1, <2>3 DEF Table
  <2>7. /\ ActiveOf(u, w) = {i}
        /\ \A v : v # w => ActiveOf(u, v) = ActiveOf(t, v)
    BY <1>1, <1>3, <1>5, <2>3 DEF ActiveOf
  <2>8. \A v : \A a, b \in ActiveOf(u, v) : a = b
    <3>1. \A v : \A a, b \in ActiveOf(t, v) : a = b
      BY DEF Table
    <3>2. QED
      BY <2>7, <3>1
  <2>9. Table(u, ws)
    BY <2>4, <2>5, <2>6, <2>8 DEF Table
  <2>10. Grows(t, u)
    BY <2>3 DEF Grows
  <2>11. u[i].wallet = w
    BY <1>1, <2>3
  <2>12. QED
    BY <1>5, <2>1, <2>3, <2>7, <2>9, <2>10, <2>11 DEF u, Inserts
<1>6. QED
  BY <1>4, <1>5

-----------------------------------------------------------------------------
(* A step of call c, which becomes x, keeps the invariant of the others:   *)
(* a call that runs alone is not running while c is.                       *)
LEMMA StepKeeps ==
  ASSUME RotationInv, NEW c \in Callers, c \in Running, NEW x \in Call,
         call' = [call EXCEPT ![c] = x], scenario' = scenario,
         lock' \in [Wallets -> Callers \cup {None}], faults' \in Nat,
         DOMAIN wallets' = DOMAIN wallets,
         Table(addrs', DOMAIN wallets), Grows(addrs, addrs'),
         Known(x, addrs', DOMAIN wallets),
         x.pc = "solana" => scenario.chain = "solana",
         x.alone /\ x.pc # "idle" =>
           /\ call[c].alone
           /\ scenario.chain # "solana" => Served(x, addrs', lock'[x.w]),
         Keeps(call', addrs', DOMAIN wallets, scenario, faults')
  PROVE  RotationInv'
<1>1. /\ call' \in [Callers -> Call] /\ call'[c] = x
      /\ \A d \in Callers \ {c} : call'[d] = call[d]
  BY DEF RotationInv
<1>2. call[c].pc \notin {"idle", "done"}
  BY DEF Running
<1>3. \A d \in Callers : Known(call'[d], addrs', DOMAIN wallets)
  BY <1>1, KnownKept DEF RotationInv
<1>4. \A d \in Callers : call'[d].pc = "solana" => scenario.chain = "solana"
  BY <1>1 DEF RotationInv
<1>5. ASSUME NEW d \in Callers
      PROVE  Lone(call', d, addrs', lock', scenario)
  <2>1. CASE d = c
    <3>1. Lone(call, c, addrs, lock, scenario)
      BY DEF RotationInv
    <3>2. call[c].alone => \A e \in Callers \ {c} : call[e].pc \in {"idle", "done"}
      BY <1>2, <3>1 DEF Lone
    <3>3. QED
      BY <1>1, <2>1, <3>2 DEF Lone
  <2>2. CASE d # c
    <3>1. Lone(call, d, addrs, lock, scenario)
      BY DEF RotationInv
    <3>2. call[d].alone /\ call[d].pc # "idle" => call[d].pc = "done"
      BY <1>2, <2>2, <3>1 DEF Lone
    <3>3. call[d].pc = "done" /\ Served(call[d], addrs, lock[call[d].w])
            => Served(call[d], addrs', lock'[call[d].w])
      BY DEF Served
    <3>4. call'[d] = call[d]
      BY <1>1, <2>2
    <3>5. QED
      BY <3>1, <3>2, <3>3, <3>4 DEF Lone
  <2>3. QED
    BY <2>1, <2>2
<1>6. QED
  BY <1>1, <1>3, <1>4, <1>5 DEF RotationInv

LEMMA GrowsSame == ASSUME NEW t PROVE Grows(t, t)
  BY DEF Grows

(* A step that touches no address, of a call that is not between           *)
(* NextAddressIndex and InsertAddress.                                     *)
LEMMA QuietKeeps ==
  ASSUME RotationInv, NEW c \in Callers, c \in Running, NEW x \in Call,
         call' = [call EXCEPT ![c] = x], scenario' = scenario,
         lock' \in [Wallets -> Callers \cup {None}], faults' = faults,
         DOMAIN wallets' = DOMAIN wallets, addrs' = addrs,
         call[c].pc \notin {"index", "insert"},
         Known(x, addrs, DOMAIN wallets), x.pc # "solana",
         x.alone /\ x.pc # "idle" =>
           /\ call[c].alone
           /\ scenario.chain # "solana" => Served(x, addrs, lock'[x.w])
  PROVE  RotationInv'
<1>1. \A d \in Callers \ {c} : call'[d] = call[d]
  BY DEF RotationInv
<1>2. Mended(call, addrs) => Mended(call', addrs)
  BY <1>1 DEF Mended
<1>3. Keeps(call', addrs, DOMAIN wallets, scenario, faults)
  BY <1>2 DEF Keeps, RotationInv
<1>4. Table(addrs, DOMAIN wallets) /\ faults \in Nat
  BY DEF RotationInv
<1>5. QED
  BY <1>3, <1>4, GrowsSame, StepKeeps

(* The facts of call c that its steps use.                                 *)
LEMMA CallFacts ==
  ASSUME RotationInv, NEW c \in Callers
  PROVE  /\ call[c] \in Call /\ Known(call[c], addrs, DOMAIN wallets)
         /\ call[c].pc # "idle" => call[c].w \in Wallets
         /\ call[c].alone /\ call[c].pc # "idle" /\ scenario.chain # "solana"
              => Served(call[c], addrs, lock[call[c].w])
         /\ ActiveAddress(call[c].w) = ActiveOf(addrs, call[c].w)
         /\ DOMAIN addrs \subseteq Nat
<1>1. Lone(call, c, addrs, lock, scenario) /\ Table(addrs, DOMAIN wallets)
      /\ Known(call[c], addrs, DOMAIN wallets) /\ DOMAIN wallets \subseteq Wallets
  BY DEF RotationInv
<1>2. call[c] \in Call
  BY DEF RotationInv
<1>3. ActiveAddress(call[c].w) = ActiveOf(addrs, call[c].w)
  BY <1>1, ActiveIs
<1>4. QED
  BY <1>1, <1>2, <1>3 DEF Lone, Known, Table

(* Call y after a step.                                                    *)
Moved(y, l, rep, old, idx, tries) ==
  [y EXCEPT !.pc = l, !.ret = rep, !.old = old, !.idx = idx, !.tries = tries]

Replies == [s : {"ok", "retired", "busy", "error"}, a : Nat \cup {None}]

(* Goto and Finish, as such steps.                                         *)
LEMMA GotoMoves ==
  ASSUME call \in [Callers -> Call], NEW c \in Callers, NEW l, Goto(c, l)
  PROVE  LET y == call[c] IN
         /\ y.ret \in Replies /\ y.old \in Nat \cup {None} /\ y.idx \in Nat /\ y.tries \in Nat
         /\ call' = [call EXCEPT ![c] = Moved(y, l, y.ret, y.old, y.idx, y.tries)]
<1>1. call[c] \in Call
  OBVIOUS
<1>2. [call[c] EXCEPT !.pc = l]
        = Moved(call[c], l, call[c].ret, call[c].old, call[c].idx, call[c].tries)
  BY <1>1 DEF Moved, Call
<1>3. QED
  BY <1>1, <1>2 DEF Goto, Call, Replies

LEMMA FinishMoves ==
  ASSUME call \in [Callers -> Call], NEW c \in Callers, NEW rep, Finish(c, rep)
  PROVE  LET y == call[c]  l == IF y.pc \in Locked THEN "release" ELSE "done" IN
         /\ y.old \in Nat \cup {None} /\ y.idx \in Nat /\ y.tries \in Nat
         /\ call' = [call EXCEPT ![c] = Moved(y, l, rep, y.old, y.idx, y.tries)]
<1> DEFINE l == IF call[c].pc \in Locked THEN "release" ELSE "done"
<1>1. call[c] \in Call
  OBVIOUS
<1>2. call' = [call EXCEPT ![c].ret = rep, ![c].pc = l]
  BY DEF Finish
<1> HIDE DEF l
<1>3. [[call[c] EXCEPT !.ret = rep] EXCEPT !.pc = l]
        = Moved(call[c], l, rep, call[c].old, call[c].idx, call[c].tries)
  BY <1>1 DEF Moved, Call
<1>4. call' = [call EXCEPT ![c] = [[call[c] EXCEPT !.ret = rep] EXCEPT !.pc = l]]
  BY <1>2
<1>5. QED
  BY <1>1, <1>3, <1>4 DEF Call, l

(* What a reply may hold: nothing, an active address that no rotation was  *)
(* forced for, or what it held.                                            *)
LEMMA QuietMove ==
  ASSUME RotationInv, NEW c \in Callers, c \in Running, NEW l \in PC \ {"idle", "solana"},
         NEW rep \in Replies, NEW old \in Nat \cup {None}, NEW idx \in Nat, NEW tries \in Nat,
         call' = [call EXCEPT ![c] = Moved(call[c], l, rep, old, idx, tries)],
         scenario' = scenario, faults' = faults, addrs' = addrs,
         DOMAIN wallets' = DOMAIN wallets,
         lock' \in [Wallets -> Callers \cup {None}],
         call[c].pc \notin {"index", "insert"},
         l \in {"rotate", "first", "active"} \cup Locked => call[c].op \in {"current", "force"},
         l \in {"spin", "peek", "recheck"} => call[c].op = "current",
         \/ rep.a = None
         \/ rep.a \in ActiveOf(addrs, call[c].w) /\ call[c].op # "force"
         \/ rep = call[c].ret,
         Served(call[c], addrs, lock[call[c].w]) =>
           /\ l \in {"wallet", "active", "rotate", "first", "spin"} => lock'[call[c].w] = None
           /\ l # "peek"
           /\ l \in {"rotate", "deprecate"} => old \in ActiveOf(addrs, call[c].w)
           /\ l \in {"first", "index", "insert"} => ActiveOf(addrs, call[c].w) = {}
           /\ l # "insert"
           /\ l \in {"release", "delete", "done"} /\ call[c].op \in {"current", "force"}
                => rep.s \in {"ok", "retired"}
  PROVE  RotationInv'
<1> DEFINE x == Moved(call[c], l, rep, old, idx, tries)
<1>1. /\ call[c] \in Call /\ Known(call[c], addrs, DOMAIN wallets)
      /\ call[c].pc # "idle"
      /\ call[c].alone /\ scenario.chain # "solana" => Served(call[c], addrs, lock[call[c].w])
  BY CallFacts DEF Running
<1>2. /\ x \in Call /\ x.pc = l /\ x.ret = rep /\ x.old = old /\ x.idx = idx
      /\ x.op = call[c].op /\ x.w = call[c].w /\ x.seen = call[c].seen
      /\ x.dead = call[c].dead /\ x.alone = call[c].alone
  <2>1. call[c] \in Call
    BY <1>1
  <2>2. QED
    BY <2>1 DEF Moved, Call, Replies
<1>3. call' = [call EXCEPT ![c] = x]
  OBVIOUS
<1> HIDE DEF x
<1>4. rep.a # None => /\ rep.a \in DOMAIN addrs \ x.dead /\ addrs[rep.a].wallet = x.w
                      /\ x.op = "force" => rep.a \notin x.seen
  BY <1>1, <1>2 DEF Known, ActiveOf, Gone
<1>5. Known(x, addrs, DOMAIN wallets)
  BY <1>1, <1>2, <1>4 DEF Known
<1>6. x.alone /\ scenario.chain # "solana" => Served(x, addrs, lock'[x.w])
  BY <1>1, <1>2 DEF Served
<1>7. x.alone /\ x.pc # "idle" =>
           /\ call[c].alone
           /\ scenario.chain # "solana" => Served(x, addrs, lock'[x.w])
  BY <1>2, <1>6
<1>8. QED
  BY <1>2, <1>3, <1>5, <1>7, QuietKeeps

-----------------------------------------------------------------------------
LEMMA ReadWalletKeeps ==
  ASSUME RotationInv, NEW c \in Callers, ReadWallet(c)
  PROVE  RotationInv'
<1> DEFINE y == call[c]
<1>1. /\ y.pc = "wallet" /\ c \in Running
      /\ UNCHANGED <<scenario, wallets, addrs, lock, faults>>
  BY DEF ReadWallet, At, Running
<1>2. call \in [Callers -> Call] /\ lock \in [Wallets -> Callers \cup {None}]
  BY DEF RotationInv
<1>3. ASSUME NEW l \in {"active", "update"}, Goto(c, l),
             l = "active" => y.op \in {"current", "force"}
      PROVE  RotationInv'
  <2>1. /\ y.ret \in Replies /\ y.old \in Nat \cup {None} /\ y.idx \in Nat /\ y.tries \in Nat
        /\ call' = [call EXCEPT ![c] = Moved(y, l, y.ret, y.old, y.idx, y.tries)]
    BY <1>2, <1>3, GotoMoves
  <2>2. l \in PC \ {"idle", "solana"} /\ l \notin {"rotate", "first", "spin", "peek"} \cup Locked
    BY DEF PC, Locked
  <2>3. Served(y, addrs, lock[y.w]) => lock'[y.w] = None
    BY <1>1 DEF Served
  <2> HIDE DEF y
  <2>4. QED
    BY <1>1, <1>2, <1>3, <2>1, <2>2, <2>3, QuietMove DEF y, Locked
<1>4. ASSUME NEW rep \in {Reply("retired"), Reply("error")}, Finish(c, rep),
             y.op \in {"current", "force"} => rep = Reply("retired")
      PROVE  RotationInv'
  <2> DEFINE l == "done"
  <2>1. /\ y.old \in Nat \cup {None} /\ y.idx \in Nat /\ y.tries \in Nat
        /\ call' = [call EXCEPT ![c] = Moved(y, l, rep, y.old, y.idx, y.tries)]
    BY <1>1, <1>2, <1>4, FinishMoves DEF Locked
  <2>2. rep \in Replies /\ rep.a = None /\ (y.op \in {"current", "force"} => rep.s = "retired")
    BY <1>4 DEF Reply, Replies
  <2>3. /\ l \in PC \ {"idle", "solana"}
        /\ l \in {"rotate", "first", "active"} \cup Locked => y.op \in {"current", "force"}
        /\ l \in {"spin", "peek", "recheck"} => y.op = "current"
        /\ l # "peek" /\ l # "insert"
        /\ l \notin {"wallet", "active", "rotate", "first", "spin", "deprecate", "index"}
    BY DEF PC, Locked
  <2> HIDE DEF l
  <2>4. QED
    BY <1>1, <1>2, <2>1, <2>2, <2>3, QuietMove
<1>5. QED
  BY <1>3, <1>4 DEF ReadWallet

LEMMA UpdateStateKeeps ==
  ASSUME RotationInv, NEW c \in Callers, UpdateState(c)
  PROVE  RotationInv'
<1> DEFINE y == call[c]
<1>1. /\ y.pc = "update" /\ c \in Running /\ Finish(c, NoReply)
      /\ UNCHANGED <<scenario, addrs, lock, faults>>
  BY DEF UpdateState, At, Running
<1>2. call \in [Callers -> Call] /\ lock \in [Wallets -> Callers \cup {None}]
  BY DEF RotationInv
<1>3. DOMAIN wallets' = DOMAIN wallets
  <2>1. PICK s : wallets' = UpdateWalletState(wallets, y.w, s).t
    BY DEF UpdateState
  <2>2. QED
    BY <2>1 DEF UpdateWalletState, Update, Ok, Fail
<1> DEFINE l == "done"
<1>4. /\ y.old \in Nat \cup {None} /\ y.idx \in Nat /\ y.tries \in Nat
      /\ call' = [call EXCEPT ![c] = Moved(y, l, NoReply, y.old, y.idx, y.tries)]
  BY <1>1, <1>2, FinishMoves DEF Locked
<1>5. NoReply \in Replies /\ NoReply.a = None /\ NoReply.s = "ok"
  BY DEF NoReply, Replies
<1>6. /\ l \in PC \ {"idle", "solana"}
      /\ l \in {"rotate", "first", "active"} \cup Locked => y.op \in {"current", "force"}
      /\ l \in {"spin", "peek", "recheck"} => y.op = "current"
      /\ l # "peek" /\ l # "insert"
      /\ l \notin {"wallet", "active", "rotate", "first", "spin", "deprecate", "index"}
  BY DEF PC, Locked
<1> HIDE DEF l
<1>7. QED
  BY <1>1, <1>2, <1>3, <1>4, <1>5, <1>6, QuietMove

(* A step that returns the active address, before the lock or under it.    *)
LEMMA ReturnActive ==
  ASSUME RotationInv, NEW c \in Callers, call[c].pc \in {"active", "peek", "recheck"},
         call[c].op = "current", NEW a \in ActiveAddress(call[c].w),
         Finish(c, [s |-> "ok", a |-> a]), UNCHANGED <<scenario, wallets, addrs, lock, faults>>
  PROVE  RotationInv'
<1> DEFINE y == call[c]
           l == IF y.pc \in Locked THEN "release" ELSE "done"
           rep == [s |-> "ok", a |-> a]
<1>1. call \in [Callers -> Call] /\ lock \in [Wallets -> Callers \cup {None}] /\ c \in Running
  BY DEF RotationInv, Running
<1>2. a \in ActiveOf(addrs, y.w) /\ a \in Nat
  BY CallFacts DEF ActiveOf
<1>3. /\ y.old \in Nat \cup {None} /\ y.idx \in Nat /\ y.tries \in Nat
      /\ call' = [call EXCEPT ![c] = Moved(y, l, rep, y.old, y.idx, y.tries)]
  BY <1>1, FinishMoves
<1>4. l \in {"release", "done"} /\ l \in PC
  BY DEF PC
<1>5. rep \in Replies /\ rep.a = a /\ rep.s = "ok"
  BY <1>2 DEF Replies
<1> HIDE DEF l, rep
<1>6. QED
  BY <1>1, <1>2, <1>3, <1>4, <1>5, QuietMove DEF Locked

LEMMA ReadActiveKeeps ==
  ASSUME RotationInv, NEW c \in Callers, ReadActive(c)
  PROVE  RotationInv'
<1> DEFINE y == call[c]  active == ActiveAddress(y.w)
<1>1. /\ y.pc = "active" /\ c \in Running
      /\ UNCHANGED <<scenario, wallets, addrs, lock, faults>>
  BY DEF ReadActive, At, Running
<1>2. call \in [Callers -> Call] /\ lock \in [Wallets -> Callers \cup {None}]
  BY DEF RotationInv
<1>3. /\ active = ActiveOf(addrs, y.w) /\ y.op \in {"current", "force"} /\ y \in Call
      /\ DOMAIN addrs \subseteq Nat
  BY <1>1, CallFacts DEF Known
<1>4. Served(y, addrs, lock[y.w]) => lock[y.w] = None
  BY <1>1 DEF Served
<1>5. ASSUME active = {}, Goto(c, IF y.op = "force" THEN "first" ELSE "spin")
      PROVE  RotationInv'
  <2> DEFINE l == IF y.op = "force" THEN "first" ELSE "spin"
  <2>1. /\ y.ret \in Replies /\ y.old \in Nat \cup {None} /\ y.idx \in Nat /\ y.tries \in Nat
        /\ call' = [call EXCEPT ![c] = Moved(y, l, y.ret, y.old, y.idx, y.tries)]
    BY <1>2, <1>5, GotoMoves
  <2>2. l \in {"first", "spin"} /\ l \in PC /\ (l = "spin" => y.op = "current")
    BY <1>3 DEF PC
  <2>3. ActiveOf(addrs, y.w) = {}
    BY <1>3, <1>5
  <2> HIDE DEF l
  <2>4. QED
    BY <1>1, <1>2, <1>3, <1>4, <2>1, <2>2, <2>3, QuietMove DEF Locked
<1>6. ASSUME NEW a \in active, call' = [call EXCEPT ![c].pc = "rotate", ![c].old = a]
      PROVE  RotationInv'
  <2>1. a \in ActiveOf(addrs, y.w) /\ a \in Nat \cup {None}
    BY <1>3, <1>6 DEF ActiveOf
  <2>2. y.ret \in Replies /\ y.idx \in Nat /\ y.tries \in Nat
    BY <1>3 DEF Call, Replies
  <2> DEFINE l == "rotate"
  <2>3. [[y EXCEPT !.pc = l] EXCEPT !.old = a] = Moved(y, l, y.ret, a, y.idx, y.tries)
    BY <1>3 DEF Call, Moved
  <2>4. call' = [call EXCEPT ![c] = Moved(y, l, y.ret, a, y.idx, y.tries)]
    BY <1>2, <1>6, <2>3
  <2>5. /\ l \in PC \ {"idle", "solana"}
        /\ l \in {"rotate", "first", "active"} \cup Locked => y.op \in {"current", "force"}
        /\ l \in {"spin", "peek", "recheck"} => y.op = "current"
        /\ l # "peek" /\ l # "insert"
        /\ l \notin {"first", "index", "release", "delete", "done"}
    BY <1>3 DEF PC, Locked
  <2> HIDE DEF l
  <2>6. QED
    BY <1>1, <1>2, <1>4, <2>1, <2>2, <2>4, <2>5, QuietMove
<1>7. ASSUME NEW a \in active, y.op # "force", Finish(c, [s |-> "ok", a |-> a])
      PROVE  RotationInv'
  BY <1>1, <1>3, <1>7, ReturnActive
<1>8. QED
  BY <1>5, <1>6, <1>7 DEF ReadActive

LEMMA AcquireOkKeeps ==
  ASSUME RotationInv, NEW c \in Callers, AcquireOk(c)
  PROVE  RotationInv'
<1> DEFINE y == call[c]
           l == CASE At(c, "rotate") -> "deprecate" [] At(c, "first") -> "index"
                  [] OTHER -> "recheck"
<1>1. /\ y.pc \in {"rotate", "first", "spin"} /\ c \in Running /\ Goto(c, l)
      /\ lock' = [lock EXCEPT ![y.w] = c]
      /\ UNCHANGED <<scenario, wallets, addrs, faults>>
  BY DEF AcquireOk, Running
<1>2. call \in [Callers -> Call] /\ lock' \in [Wallets -> Callers \cup {None}]
  BY <1>1 DEF RotationInv
<1>3. /\ y.ret \in Replies /\ y.old \in Nat \cup {None} /\ y.idx \in Nat /\ y.tries \in Nat
      /\ call' = [call EXCEPT ![c] = Moved(y, l, y.ret, y.old, y.idx, y.tries)]
  BY <1>1, <1>2, GotoMoves
<1>4. \/ y.pc = "rotate" /\ l = "deprecate"
      \/ y.pc = "first" /\ l = "index"
      \/ y.pc = "spin" /\ l = "recheck"
  BY <1>1 DEF At
<1> HIDE DEF l
<1>5. /\ l \in PC \ {"idle", "solana"}
      /\ l # "peek" /\ l # "insert"
      /\ l \notin {"wallet", "active", "rotate", "first", "spin", "release", "delete", "done"}
  BY <1>4 DEF PC, Locked
<1>6. /\ l \in {"rotate", "first", "active"} \cup Locked => y.op \in {"current", "force"}
      /\ l \in {"spin", "peek", "recheck"} => y.op = "current"
  <2>1. Known(y, addrs, DOMAIN wallets)
    BY CallFacts
  <2>2. QED
    BY <1>4, <2>1 DEF Known
<1>7. Served(y, addrs, lock[y.w]) =>
        /\ l = "deprecate" => y.old \in ActiveOf(addrs, y.w)
        /\ l = "index" => ActiveOf(addrs, y.w) = {}
  BY <1>4 DEF Served
<1>8. y.pc \notin {"index", "insert"}
  BY <1>1
<1>9. QED
  BY <1>1, <1>2, <1>3, <1>5, <1>6, <1>7, <1>8, QuietMove

(* The lock is busy: never for a call that runs alone.                     *)
LEMMA AcquireBusyKeeps ==
  ASSUME RotationInv, NEW c \in Callers, AcquireBusy(c)
  PROVE  RotationInv'
<1> DEFINE y == call[c]
<1>1. /\ y.pc \in {"rotate", "first", "spin"} /\ c \in Running
      /\ UNCHANGED <<scenario, wallets, addrs, lock, faults>>
  BY DEF AcquireBusy, Running
<1>2. call \in [Callers -> Call] /\ lock \in [Wallets -> Callers \cup {None}]
  BY DEF RotationInv
<1>3. ~Served(y, addrs, lock[y.w])
  BY DEF AcquireBusy, Served
<1>4. ASSUME y.pc = "spin", Goto(c, "peek")
      PROVE  RotationInv'
  <2> DEFINE l == "peek"
  <2>1. /\ y.ret \in Replies /\ y.old \in Nat \cup {None} /\ y.idx \in Nat /\ y.tries \in Nat
        /\ call' = [call EXCEPT ![c] = Moved(y, l, y.ret, y.old, y.idx, y.tries)]
    BY <1>2, <1>4, GotoMoves
  <2>2. y.op = "current"
    BY <1>4, CallFacts DEF Known
  <2>3. l \in PC \ {"idle", "solana"}
    BY DEF PC
  <2>4. y.pc \notin {"index", "insert"}
    BY <1>1
  <2> HIDE DEF l
  <2>5. QED
    BY <1>1, <1>2, <1>3, <2>1, <2>2, <2>3, <2>4, QuietMove
<1>5. ASSUME Finish(c, Reply("busy"))
      PROVE  RotationInv'
  <2> DEFINE l == "done"  rep == Reply("busy")
  <2>1. /\ y.old \in Nat \cup {None} /\ y.idx \in Nat /\ y.tries \in Nat
        /\ call' = [call EXCEPT ![c] = Moved(y, l, rep, y.old, y.idx, y.tries)]
    BY <1>1, <1>2, <1>5, FinishMoves DEF Locked
  <2>2. rep \in Replies /\ rep.a = None
    BY DEF Reply, Replies
  <2>3. /\ l \in PC \ {"idle", "solana"}
        /\ l \notin {"rotate", "first", "active", "spin", "peek", "recheck"} \cup Locked
    BY DEF PC, Locked
  <2>4. y.pc \notin {"index", "insert"}
    BY <1>1
  <2> HIDE DEF l, rep
  <2>5. QED
    BY <1>1, <1>2, <1>3, <2>1, <2>2, <2>3, <2>4, QuietMove
<1>6. QED
  BY <1>4, <1>5 DEF AcquireBusy, At

LEMMA PeekKeeps ==
  ASSUME RotationInv, NEW c \in Callers, Peek(c)
  PROVE  RotationInv'
<1> DEFINE y == call[c]
<1>1. /\ y.pc = "peek" /\ c \in Running
      /\ UNCHANGED <<scenario, wallets, addrs, lock, faults>>
  BY DEF Peek, Running, At
<1>2. call \in [Callers -> Call] /\ lock \in [Wallets -> Callers \cup {None}]
  BY DEF RotationInv
<1>3. ~Served(y, addrs, lock[y.w])
  BY <1>1 DEF Served
<1>4. y.op = "current" /\ y \in Call
  BY <1>1, CallFacts DEF Known
<1>5. ASSUME NEW a \in ActiveAddress(y.w), Finish(c, [s |-> "ok", a |-> a])
      PROVE  RotationInv'
  BY <1>1, <1>4, <1>5, ReturnActive
<1>6. ASSUME call' = [call EXCEPT ![c].pc = "spin", ![c].tries = y.tries + 1]
      PROVE  RotationInv'
  <2> DEFINE l == "spin"  n == y.tries + 1
  <2>1. /\ y.ret \in Replies /\ y.old \in Nat \cup {None} /\ y.idx \in Nat /\ n \in Nat
    BY <1>4 DEF Call, Replies
  <2>2. [[y EXCEPT !.pc = l] EXCEPT !.tries = n] = Moved(y, l, y.ret, y.old, y.idx, n)
    BY <1>4 DEF Call, Moved
  <2>3. call' = [call EXCEPT ![c] = Moved(y, l, y.ret, y.old, y.idx, n)]
    BY <1>2, <1>6, <2>2
  <2>4. l \in PC \ {"idle", "solana"}
    BY DEF PC
  <2>5. y.pc \notin {"index", "insert"}
    BY <1>1
  <2> HIDE DEF l, n
  <2>6. QED
    BY <1>1, <1>2, <1>3, <1>4, <2>1, <2>3, <2>4, <2>5, QuietMove
<1>7. ASSUME Finish(c, Reply("busy"))
      PROVE  RotationInv'
  <2> DEFINE l == "done"  rep == Reply("busy")
  <2>1. /\ y.old \in Nat \cup {None} /\ y.idx \in Nat /\ y.tries \in Nat
        /\ call' = [call EXCEPT ![c] = Moved(y, l, rep, y.old, y.idx, y.tries)]
    BY <1>1, <1>2, <1>7, FinishMoves DEF Locked
  <2>2. rep \in Replies /\ rep.a = None
    BY DEF Reply, Replies
  <2>3. l \in PC \ {"idle", "solana"}
    BY DEF PC, Locked
  <2>4. y.pc \notin {"index", "insert"}
    BY <1>1
  <2> HIDE DEF l, rep
  <2>5. QED
    BY <1>1, <1>2, <1>3, <1>4, <2>1, <2>2, <2>3, <2>4, QuietMove
<1>8. QED
  BY <1>5, <1>6, <1>7 DEF Peek

LEMMA RecheckKeeps ==
  ASSUME RotationInv, NEW c \in Callers, Recheck(c)
  PROVE  RotationInv'
<1> DEFINE y == call[c]
<1>1. /\ y.pc = "recheck" /\ c \in Running
      /\ UNCHANGED <<scenario, wallets, addrs, lock, faults>>
  BY DEF Recheck, Running, At
<1>2. call \in [Callers -> Call] /\ lock \in [Wallets -> Callers \cup {None}]
  BY DEF RotationInv
<1>3. y.op = "current" /\ ActiveAddress(y.w) = ActiveOf(addrs, y.w)
  BY <1>1, CallFacts DEF Known
<1>4. ASSUME NEW a \in ActiveAddress(y.w), Finish(c, [s |-> "ok", a |-> a])
      PROVE  RotationInv'
  BY <1>1, <1>3, <1>4, ReturnActive
<1>5. ASSUME ActiveAddress(y.w) = {}, Goto(c, "index")
      PROVE  RotationInv'
  <2> DEFINE l == "index"
  <2>1. /\ y.ret \in Replies /\ y.old \in Nat \cup {None} /\ y.idx \in Nat /\ y.tries \in Nat
        /\ call' = [call EXCEPT ![c] = Moved(y, l, y.ret, y.old, y.idx, y.tries)]
    BY <1>2, <1>5, GotoMoves
  <2>2. /\ l \in PC \ {"idle", "solana"}
        /\ l \notin {"wallet", "active", "rotate", "first", "spin", "peek", "deprecate", "insert",
                     "release", "delete", "done"}
    BY DEF PC, Locked
  <2>3. y.pc \notin {"index", "insert"} /\ y.op \in {"current", "force"}
    BY <1>1, <1>3
  <2>4. ActiveOf(addrs, y.w) = {}
    BY <1>3, <1>5
  <2> HIDE DEF l
  <2>5. QED
    BY <1>1, <1>2, <1>3, <2>1, <2>2, <2>3, <2>4, QuietMove
<1>6. QED
  BY <1>4, <1>5 DEF Recheck

LEMMA ReleaseKeeps ==
  ASSUME RotationInv, NEW c \in Callers, ReleaseGet(c) \/ ReleaseDel(c)
  PROVE  RotationInv'
<1> DEFINE y == call[c]
<1>1. /\ y.pc \in {"release", "delete"} /\ c \in Running
      /\ UNCHANGED <<scenario, wallets, addrs, faults>>
      /\ lock' \in {lock, [lock EXCEPT ![y.w] = None]}
  BY DEF ReleaseGet, ReleaseDel, Running, At
<1>2. PICK l \in {"delete", "done"} : Goto(c, l)
  BY DEF ReleaseGet, ReleaseDel
<1>3. call \in [Callers -> Call] /\ lock' \in [Wallets -> Callers \cup {None}]
  BY <1>1 DEF RotationInv
<1>4. /\ y.ret \in Replies /\ y.old \in Nat \cup {None} /\ y.idx \in Nat /\ y.tries \in Nat
      /\ call' = [call EXCEPT ![c] = Moved(y, l, y.ret, y.old, y.idx, y.tries)]
  BY <1>2, <1>3, GotoMoves
<1>5. /\ l \in PC \ {"idle", "solana"}
      /\ l \notin {"rotate", "first", "active", "spin", "peek", "recheck", "wallet", "deprecate",
                   "index", "insert"} \cup Locked
  BY <1>2 DEF PC, Locked
<1>6. y.pc \notin {"index", "insert"}
  BY <1>1
<1>7. Served(y, addrs, lock[y.w]) => (y.op \in {"current", "force"} => y.ret.s \in {"ok", "retired"})
  BY <1>1 DEF Served
<1>8. QED
  BY <1>1, <1>3, <1>4, <1>5, <1>6, <1>7, QuietMove

(* A fault: nothing is said of the call, nor of the address from now on.   *)
LEMMA FaultKeeps ==
  ASSUME RotationInv, NEW c \in Callers, StepFails(c) \/ Crash(c)
  PROVE  RotationInv'
<1> DEFINE y == call[c]
<1>1. /\ c \in Running /\ faults \in Nat /\ faults' = faults + 1
      /\ UNCHANGED <<scenario, wallets, addrs, lock>>
      /\ call \in [Callers -> Call] /\ lock \in [Wallets -> Callers \cup {None}]
      /\ Table(addrs, DOMAIN wallets)
  BY DEF StepFails, Crash, RotationInv
<1>2. y \in Call /\ Known(y, addrs, DOMAIN wallets) /\ y.pc # "idle"
  BY <1>1, CallFacts DEF Running
<1>3. /\ Keeps(call', addrs', DOMAIN wallets, scenario, faults')
      /\ Table(addrs', DOMAIN wallets) /\ Grows(addrs, addrs')
      /\ scenario' = scenario /\ DOMAIN wallets' = DOMAIN wallets /\ faults' \in Nat
      /\ lock' \in [Wallets -> Callers \cup {None}] /\ c \in Running
  BY <1>1, GrowsSame DEF Keeps
<1>4. CASE StepFails(c)
  <2> DEFINE rep == IF y.pc \in {"release", "delete"} THEN y.ret ELSE Reply("error")
             l == IF y.pc \in Locked THEN "release" ELSE "done"
             x == [[[y EXCEPT !.alone = FALSE] EXCEPT !.ret = rep] EXCEPT !.pc = l]
  <2>1. call' = [call EXCEPT ![c].alone = FALSE, ![c].ret = rep, ![c].pc = l]
    BY <1>4 DEF StepFails
  <2>2. rep \in Replies /\ (rep.a = None \/ rep = y.ret) /\ l \in PC /\ l \in {"release", "done"}
    BY <1>2 DEF Reply, Replies, Call, PC
  <2> HIDE DEF rep, l
  <2>3. call' = [call EXCEPT ![c] = x]
    BY <1>1, <2>1
  <2>4. /\ x \in Call /\ x.pc = l /\ x.ret = rep /\ x.op = y.op /\ x.w = y.w
        /\ x.seen = y.seen /\ x.dead = y.dead /\ x.alone = FALSE
    BY <1>2, <2>2 DEF Call, Replies
  <2> HIDE DEF x
  <2>5. Known(x, addrs', DOMAIN wallets)
    BY <1>1, <1>2, <2>2, <2>4 DEF Known, Locked
  <2>6. x.pc # "solana" /\ ~x.alone
    BY <2>2, <2>4
  <2>7. x \in Call
    BY <2>4
  <2>8. QED
    BY <1>3, <2>3, <2>5, <2>6, <2>7, StepKeeps
<1>5. CASE Crash(c)
  <2> DEFINE x == IdleCall
  <2>1. call' = [call EXCEPT ![c] = x]
    BY <1>5 DEF Crash
  <2>2. x \in Call /\ x.pc = "idle" /\ x.seen = {} /\ x.dead = {} /\ x.ret.a = None
    BY DEF IdleCall, Call, NoReply, PC
  <2> HIDE DEF x
  <2>3. x.pc # "solana" /\ Known(x, addrs', DOMAIN wallets) /\ x \in Call /\ ~(x.pc # "idle")
    BY <2>2 DEF Known, Locked
  <2>4. QED
    BY <1>3, <2>1, <2>3, StepKeeps
<1>6. QED
  BY <1>4, <1>5

-----------------------------------------------------------------------------
(* A step under the lock that may change addresses.                        *)
LEMMA LockedMove ==
  ASSUME RotationInv, NEW c \in Callers, call[c].pc \in {"deprecate", "index", "solana", "insert"},
         NEW l \in {"index", "solana", "insert", "release"},
         NEW rep \in Replies, NEW old \in Nat \cup {None}, NEW idx \in Nat, NEW tries \in Nat,
         call' = [call EXCEPT ![c] = Moved(call[c], l, rep, old, idx, tries)],
         UNCHANGED <<scenario, faults, wallets, lock>>,
         Table(addrs', DOMAIN wallets), Grows(addrs, addrs'),
         l = "solana" => scenario.chain = "solana",
         \/ rep.a = None \/ rep = call[c].ret
         \/ rep.a \in DOMAIN addrs' \ DOMAIN addrs /\ addrs'[rep.a].wallet = call[c].w,
         Served(call[c], addrs, lock[call[c].w]) /\ scenario.chain # "solana" =>
           /\ l \in {"index", "insert"} => ActiveOf(addrs', call[c].w) = {}
           /\ l = "insert" => idx \notin DOMAIN addrs'
           /\ l = "release" => rep.s = "ok",
         Keeps(call', addrs', DOMAIN wallets, scenario, faults)
  PROVE  RotationInv'
<1> DEFINE x == Moved(call[c], l, rep, old, idx, tries)
<1>1. /\ call[c] \in Call /\ Known(call[c], addrs, DOMAIN wallets)
      /\ call[c].alone /\ scenario.chain # "solana" => Served(call[c], addrs, lock[call[c].w])
  BY CallFacts
<1>2. l \in PC
  BY DEF PC, Locked
<1>3. /\ x \in Call /\ x.pc = l /\ x.ret = rep /\ x.old = old /\ x.idx = idx
      /\ x.op = call[c].op /\ x.w = call[c].w /\ x.seen = call[c].seen
      /\ x.dead = call[c].dead /\ x.alone = call[c].alone
  <2>1. call[c] \in Call
    BY <1>1
  <2>2. QED
    BY <1>2, <2>1 DEF Moved, Call, Replies
<1>4. call' = [call EXCEPT ![c] = x] /\ c \in Running
  BY DEF Running
<1> HIDE DEF x
<1>5. Known(call[c], addrs', DOMAIN wallets)
  BY <1>1, KnownKept
<1>6. rep.a # None => /\ rep.a \in DOMAIN addrs' \ x.dead /\ addrs'[rep.a].wallet = x.w
                      /\ x.op = "force" => rep.a \notin x.seen
  BY <1>1, <1>3, <1>5 DEF Known, Gone
<1>7. Known(x, addrs', DOMAIN wallets)
  BY <1>3, <1>5, <1>6 DEF Known, Locked
<1>8. x.alone /\ scenario.chain # "solana" => Served(x, addrs', lock'[x.w])
  BY <1>1, <1>3 DEF Served
<1>9. x.alone /\ x.pc # "idle" =>
           /\ call[c].alone
           /\ scenario.chain # "solana" => Served(x, addrs', lock'[x.w])
  BY <1>3, <1>8
<1>10. /\ x \in Call /\ (x.pc = "solana" => scenario.chain = "solana")
       /\ scenario' = scenario /\ DOMAIN wallets' = DOMAIN wallets
       /\ lock' \in [Wallets -> Callers \cup {None}] /\ faults' \in Nat
       /\ Keeps(call', addrs', DOMAIN wallets, scenario, faults')
  BY <1>3 DEF RotationInv
<1>11. QED
  BY <1>4, <1>7, <1>9, <1>10, StepKeeps

LEMMA DeprecateKeeps ==
  ASSUME RotationInv, NEW c \in Callers, Deprecate(c)
  PROVE  RotationInv'
<1> DEFINE y == call[c]
           l == "index"
<1>1. /\ y.pc = "deprecate" /\ Goto(c, l)
      /\ addrs' = DeprecateAddress(addrs, y.old).t
      /\ UNCHANGED <<scenario, wallets, lock, faults>>
      /\ call \in [Callers -> Call] /\ Table(addrs, DOMAIN wallets)
  BY DEF Deprecate, At, RotationInv
<1>2. /\ Table(addrs', DOMAIN wallets) /\ Grows(addrs, addrs')
      /\ \A w : ActiveOf(addrs', w) = ActiveOf(addrs, w) \ {y.old}
  <2>1. Table(addrs, DOMAIN wallets) /\ addrs' = DeprecateAddress(addrs, y.old).t
    BY <1>1
  <2> DEFINE id == y.old  u == addrs'
  <2>2. Table(addrs, DOMAIN wallets) /\ u = DeprecateAddress(addrs, id).t
    BY <2>1
  <2> HIDE DEF id, u
  <2>3. /\ Table(u, DOMAIN wallets) /\ Grows(addrs, u)
        /\ \A w : ActiveOf(u, w) = ActiveOf(addrs, w) \ {id}
    BY <2>2, DeprecateTable
  <2>4. QED
    BY <2>3 DEF id, u
<1>3. /\ y.ret \in Replies /\ y.old \in Nat \cup {None} /\ y.idx \in Nat /\ y.tries \in Nat
      /\ call' = [call EXCEPT ![c] = Moved(y, l, y.ret, y.old, y.idx, y.tries)]
  BY <1>1, GotoMoves
<1>4. ASSUME Served(y, addrs, lock[y.w])
      PROVE  ActiveOf(addrs', y.w) = {}
  <2>1. y.old \in ActiveOf(addrs, y.w)
    BY <1>1, <1>4 DEF Served
  <2>2. \A a, b \in ActiveOf(addrs, y.w) : a = b
    BY <1>1 DEF Table
  <2>3. QED
    BY <1>2, <2>1, <2>2
<1>5. Keeps(call', addrs', DOMAIN wallets, scenario, faults)
  <2>1. call'[c].pc = "index"
    BY <1>1 DEF Goto
  <2>2. QED
    BY <2>1 DEF Keeps, Mended
<1>6. /\ l \in {"index", "solana", "insert", "release"} /\ l # "insert" /\ l # "release"
      /\ l # "solana" /\ y.pc \in {"deprecate", "index", "solana", "insert"}
  BY <1>1
<1> HIDE DEF l
<1>7. QED
  BY <1>1, <1>2, <1>3, <1>4, <1>5, <1>6, LockedMove

LEMMA NextIndexKeeps ==
  ASSUME RotationInv, NEW c \in Callers, NextIndex(c)
  PROVE  RotationInv'
<1> DEFINE y == call[c]
           l == IF scenario.chain = "solana" THEN "solana" ELSE "insert"
<1>1. PICK i \in NextAddressIndex(addrs).r.v :
        call' = [call EXCEPT ![c].idx = DeriveAt(i), ![c].pc = l]
  BY DEF NextIndex
<1> DEFINE idx == DeriveAt(i)
<1>2. /\ y.pc = "index" /\ UNCHANGED <<scenario, wallets, addrs, lock, faults>>
      /\ call \in [Callers -> Call] /\ Table(addrs, DOMAIN wallets) /\ y \in Call
  BY DEF NextIndex, At, RotationInv
<1>3. i \in Nat /\ i \notin DOMAIN addrs
  BY <1>2, NextFresh
<1>4. idx \in Nat /\ (scenario.chain # "solana" => idx \notin DOMAIN addrs)
  BY <1>3 DEF DeriveAt
<1> HIDE DEF idx
<1>5. /\ l \in {"index", "solana", "insert", "release"} /\ l # "index" /\ l # "release"
      /\ l = "solana" => scenario.chain = "solana"
      /\ y.pc \in {"deprecate", "index", "solana", "insert"}
      /\ scenario.chain # "solana" => l = "insert"
  BY <1>2
<1> HIDE DEF l
<1>6. y.ret \in Replies /\ y.old \in Nat \cup {None} /\ y.tries \in Nat
  BY <1>2 DEF Call, Replies
<1>7. [[y EXCEPT !.idx = idx] EXCEPT !.pc = l] = Moved(y, l, y.ret, y.old, idx, y.tries)
  BY <1>2 DEF Call, Moved
<1>8. call' = [call EXCEPT ![c] = Moved(y, l, y.ret, y.old, idx, y.tries)]
  BY <1>1, <1>2, <1>7 DEF idx
<1>9. Keeps(call', addrs', DOMAIN wallets, scenario, faults)
  <2>1. /\ call'[c].pc = l /\ call'[c].idx = idx
        /\ \A d \in Callers \ {c} : call'[d] = call[d]
    BY <1>1, <1>2 DEF idx, Call
  <2>2. scenario.chain # "solana" => Mended(call', addrs)
    BY <1>4, <1>5, <2>1 DEF Mended
  <2>3. QED
    BY <1>2, <2>2 DEF Keeps
<1>10. /\ Table(addrs', DOMAIN wallets) /\ Grows(addrs, addrs')
       /\ Served(y, addrs, lock[y.w]) => ActiveOf(addrs', y.w) = {}
       /\ scenario.chain # "solana" => idx \notin DOMAIN addrs'
  BY <1>2, <1>4, GrowsSame DEF Served
<1>11. UNCHANGED <<scenario, faults, wallets, lock>>
  BY <1>2
<1>12. QED
  BY <1>4, <1>5, <1>6, <1>8, <1>9, <1>10, <1>11, LockedMove

LEMMA DeprecateSolanaKeeps ==
  ASSUME RotationInv, NEW c \in Callers, DeprecateSolana(c)
  PROVE  RotationInv'
<1> DEFINE y == call[c]
           l == "insert"
<1>1. /\ y.pc = "solana" /\ Goto(c, l)
      /\ UNCHANGED <<scenario, wallets, lock, faults>>
      /\ call \in [Callers -> Call] /\ scenario.chain = "solana"
  BY DEF DeprecateSolana, At, RotationInv
<1>2. Table(addrs', DOMAIN wallets) /\ Grows(addrs, addrs')
  <2> DEFINE u == addrs'
             mine == {a \in DOMAIN addrs : addrs[a].wallet = y.w}
             id == Min(mine)
  <2>1. Table(addrs, DOMAIN wallets) /\ (u = addrs \/ u = DeprecateAddress(addrs, id).t)
    BY DEF DeprecateSolana, RotationInv
  <2> HIDE DEF u, mine, id
  <2>2. Table(u, DOMAIN wallets) /\ Grows(addrs, u)
    BY <2>1, DeprecateTable, GrowsSame
  <2>3. QED
    BY <2>2 DEF u
<1>3. /\ y.ret \in Replies /\ y.old \in Nat \cup {None} /\ y.idx \in Nat /\ y.tries \in Nat
      /\ call' = [call EXCEPT ![c] = Moved(y, l, y.ret, y.old, y.idx, y.tries)]
  BY <1>1, GotoMoves
<1>4. Keeps(call', addrs', DOMAIN wallets, scenario, faults)
  BY <1>1 DEF Keeps
<1>5. /\ l \in {"index", "solana", "insert", "release"} /\ l # "solana"
      /\ y.pc \in {"deprecate", "index", "solana", "insert"}
  BY <1>1
<1> HIDE DEF l
<1>6. QED
  BY <1>1, <1>2, <1>3, <1>4, <1>5, LockedMove

(* A call whose insert fails while the wallet has no active address is not *)
(* the one that was about to give it one.                                  *)
LEMMA InsertRowKeeps ==
  ASSUME RotationInv, NEW c \in Callers, InsertRow(c)
  PROVE  RotationInv'
<1> DEFINE y == call[c]
           i == y.idx
           ws == DOMAIN wallets
           r == InsertAddress(addrs, i, [wallet |-> y.w, index |-> i, address |-> i,
                                         state |-> "ACTIVE", receives |-> 0])
           rep == IF r.r.s = "ok" THEN [s |-> "ok", a |-> i] ELSE Reply("error")
           l == "release"
<1>1. /\ y.pc = "insert" /\ Finish(c, rep) /\ addrs' = r.t
      /\ UNCHANGED <<scenario, wallets, lock, faults>>
  BY DEF InsertRow, At
<1>2. /\ call \in [Callers -> Call] /\ Table(addrs, ws) /\ ws \subseteq Wallets
      /\ y \in Call /\ Known(y, addrs, ws)
  BY DEF RotationInv
<1>3. i \in Nat /\ y.w \in ws
  BY <1>1, <1>2 DEF Call, Known
<1>4. Inserts(addrs, ws, i, y.w, r)
  <2> DEFINE w == y.w  j == i  q == r
  <2>1. /\ ws \subseteq Wallets /\ Table(addrs, ws) /\ j \in Nat /\ w \in ws
        /\ q = InsertAddress(addrs, j, [wallet |-> w, index |-> j, address |-> j,
                                        state |-> "ACTIVE", receives |-> 0])
    BY <1>2, <1>3
  <2> HIDE DEF w, j, q, ws
  <2>2. Inserts(addrs, ws, j, w, q)
    BY <2>1, InsertTable
  <2>3. QED
    BY <2>2 DEF w, j, q
<1> HIDE DEF r
<1>5. /\ y.old \in Nat \cup {None} /\ y.tries \in Nat
      /\ call' = [call EXCEPT ![c] = Moved(y, l, rep, y.old, i, y.tries)]
  BY <1>1, <1>2, FinishMoves DEF Locked
<1>6. /\ rep \in Replies
      /\ r.r.s = "ok" => rep.s = "ok" /\ rep.a = i
      /\ r.r.s # "ok" => rep.a = None
  BY <1>3 DEF Reply, Replies
<1>7. \A d \in Callers \ {c} : call'[d] = call[d]
  BY <1>2, <1>5
<1> HIDE DEF rep
<1>8. Table(addrs', ws) /\ Grows(addrs, addrs')
  BY <1>1, <1>2, <1>4, GrowsSame DEF Inserts
<1>9. Keeps(call', addrs', ws, scenario, faults)
  <2> SUFFICES ASSUME NEW w \in Wallets, ws = {w}, scenario.chain # "solana", faults = 0,
                      ActiveOf(addrs', w) = {}
               PROVE  Mended(call', addrs')
    BY DEF Keeps
  <2>1. y.w = w
    BY <1>3
  <2>2. addrs' = addrs /\ i \in DOMAIN addrs
    BY <1>1, <1>4, <2>1 DEF Inserts
  <2>3. DOMAIN addrs # {} /\ ActiveOf(addrs, w) = {}
    BY <2>2
  <2>4. Mended(call, addrs)
    BY <2>3 DEF RotationInv, Keeps
  <2>5. PICK d \in Callers :
          call[d].pc = "index" \/ (call[d].pc = "insert" /\ call[d].idx \notin DOMAIN addrs)
    BY <2>4 DEF Mended
  <2>6. d # c
    BY <1>1, <2>2, <2>5
  <2>7. QED
    BY <1>7, <2>2, <2>5, <2>6 DEF Mended
<1>10. Served(y, addrs, lock[y.w]) => r.r.s = "ok"
  BY <1>1, <1>4 DEF Served, Inserts
<1>11. \/ rep.a = None
       \/ rep.a \in DOMAIN addrs' \ DOMAIN addrs /\ addrs'[rep.a].wallet = y.w
  BY <1>1, <1>4, <1>6 DEF Inserts
<1>12. /\ l \in {"index", "solana", "insert", "release"} /\ l # "index" /\ l # "insert"
       /\ l # "solana" /\ y.pc \in {"deprecate", "index", "solana", "insert"}
  BY <1>1
<1>13. UNCHANGED <<scenario, faults, wallets, lock>>
  BY <1>1
<1>14. Served(y, addrs, lock[y.w]) => rep.s = "ok"
  BY <1>6, <1>10
<1> HIDE DEF l
<1>15. QED
  BY <1>3, <1>5, <1>6, <1>8, <1>9, <1>11, <1>12, <1>13, <1>14, LockedMove

LEMMA StepsKeep ==
  ASSUME RotationInv, NEW c \in Callers, Step(c)
  PROVE  RotationInv'
  BY ReadWalletKeeps, UpdateStateKeeps, ReadActiveKeeps, AcquireOkKeeps, AcquireBusyKeeps,
     PeekKeeps, RecheckKeeps, DeprecateKeeps, NextIndexKeeps, DeprecateSolanaKeeps,
     InsertRowKeeps, ReleaseKeeps DEF Step

-----------------------------------------------------------------------------
LEMMA BeginKeeps ==
  ASSUME RotationInv, NEW c \in Callers, NEW w \in Wallets, NEW op \in AllOperations,
         Begin(c, w, op)
  PROVE  RotationInv'
<1> DEFINE ws == DOMAIN wallets
           x == [IdleCall EXCEPT !.pc = "wallet", !.op = op, !.w = w, !.seen = DOMAIN addrs,
                   !.dead = Deprecated, !.alone = Running = {} /\ lock[w] = None]
           other(d) == IF call[d].pc = "done" THEN IdleCall ELSE [call[d] EXCEPT !.alone = FALSE]
<1>1. /\ call[c].pc \in {"idle", "done"} /\ w \in ws
      /\ call' = [d \in Callers |-> IF d = c THEN x ELSE other(d)]
      /\ UNCHANGED <<scenario, wallets, addrs, lock, faults>>
  BY DEF Begin, At
<1>2. /\ call \in [Callers -> Call] /\ lock \in [Wallets -> Callers \cup {None}]
      /\ faults \in Nat /\ ws \subseteq Wallets /\ Table(addrs, ws)
      /\ \A d \in Callers : Known(call[d], addrs, ws)
      /\ Keeps(call, addrs, ws, scenario, faults)
  BY DEF RotationInv
<1>3. DOMAIN addrs \subseteq Nat /\ Deprecated = Gone(addrs) /\ Gone(addrs) \subseteq DOMAIN addrs
  BY <1>2 DEF Table, Deprecated, Gone
<1>4. /\ x \in Call /\ x.pc = "wallet" /\ x.w = w /\ x.seen = DOMAIN addrs /\ x.dead = Gone(addrs)
      /\ x.ret.a = None /\ (x.alone => Running = {} /\ lock[w] = None)
  BY <1>3 DEF IdleCall, Call, NoReply, PC, AllOperations
<1>5. ASSUME NEW d \in Callers
      PROVE  /\ other(d) \in Call /\ Known(other(d), addrs, ws)
             /\ other(d).pc # "idle" => ~other(d).alone
             /\ other(d).pc = IF call[d].pc = "done" THEN "idle" ELSE call[d].pc
             /\ call[d].pc # "done" => other(d).idx = call[d].idx
  <2>1. CASE call[d].pc = "done"
    <3>1. /\ IdleCall \in Call /\ IdleCall.pc = "idle" /\ IdleCall.seen = {} /\ IdleCall.dead = {}
          /\ IdleCall.ret.a = None
      BY DEF IdleCall, Call, NoReply, PC
    <3>2. Known(IdleCall, addrs, ws)
      BY <3>1 DEF Known, Locked
    <3>3. QED
      BY <2>1, <3>1, <3>2
  <2>2. CASE call[d].pc # "done"
    <3> DEFINE z == [call[d] EXCEPT !.alone = FALSE]
    <3>1. call[d] \in Call /\ Known(call[d], addrs, ws)
      BY <1>2
    <3>2. /\ z \in Call /\ z.pc = call[d].pc /\ z.op = call[d].op /\ z.w = call[d].w
          /\ z.idx = call[d].idx /\ z.ret = call[d].ret /\ z.seen = call[d].seen
          /\ z.dead = call[d].dead /\ ~z.alone
      BY <3>1 DEF Call
    <3>3. other(d) = z
      BY <2>2
    <3> HIDE DEF z
    <3>4. Known(z, addrs, ws)
      BY <3>1, <3>2 DEF Known
    <3>5. QED
      BY <2>2, <3>2, <3>3, <3>4
  <2>3. QED
    BY <2>1, <2>2
<1> HIDE DEF x, other
<1>6. /\ call' \in [Callers -> Call] /\ call'[c] = x
      /\ \A d \in Callers \ {c} : call'[d] = other(d)
  BY <1>1, <1>4, <1>5
<1>7. Known(x, addrs, ws)
  BY <1>1, <1>4 DEF Known, Locked
<1>8. \A d \in Callers : Known(call'[d], addrs, ws)
  BY <1>5, <1>6, <1>7
<1>9. \A d \in Callers : call'[d].pc = "solana" => scenario.chain = "solana"
  BY <1>4, <1>5, <1>6 DEF RotationInv
<1>10. ASSUME NEW d \in Callers
       PROVE  Lone(call', d, addrs, lock, scenario)
  <2>1. CASE d # c
    BY <1>5, <1>6, <2>1 DEF Lone
  <2>2. CASE d = c
    <3>1. x.alone => \A e \in Callers \ {c} : call'[e].pc = "idle"
      <4> SUFFICES ASSUME x.alone, NEW e \in Callers \ {c} PROVE call'[e].pc = "idle"
        OBVIOUS
      <4>1. call[e].pc \in {"idle", "done"}
        BY <1>4 DEF Running
      <4>2. QED
        BY <1>5, <1>6, <4>1
    <3>2. x.alone => Served(x, addrs, lock[w])
      BY <1>4 DEF Served
    <3>3. QED
      BY <1>4, <1>6, <2>2, <3>1, <3>2 DEF Lone
  <2>3. QED
    BY <2>1, <2>2
<1>11. Keeps(call', addrs, ws, scenario, faults)
  <2>1. ASSUME Mended(call, addrs) PROVE Mended(call', addrs)
    <3>1. PICK d \in Callers :
            call[d].pc = "index" \/ (call[d].pc = "insert" /\ call[d].idx \notin DOMAIN addrs)
      BY <2>1 DEF Mended
    <3>2. d # c
      BY <1>1, <3>1
    <3>3. call'[d].pc = call[d].pc /\ call'[d].idx = call[d].idx
      BY <1>5, <1>6, <3>1, <3>2
    <3>4. QED
      BY <3>1, <3>3 DEF Mended
  <2>2. QED
    BY <1>2, <2>1 DEF Keeps
<1>12. QED
  BY <1>1, <1>2, <1>6, <1>8, <1>9, <1>10, <1>11 DEF RotationInv

LEMMA CreateKeeps ==
  ASSUME RotationInv, NEW w \in Wallets, Create(w)
  PROVE  RotationInv'
<1> DEFINE ws == DOMAIN wallets
<1>1. /\ w \notin ws /\ UNCHANGED <<scenario, addrs, lock, call, faults>>
      /\ DOMAIN wallets' \in {ws, ws \cup {w}}
  BY DEF Create, CreateWallet, Insert, Fail, Ok, Put
<1>2. /\ ws \subseteq DOMAIN wallets' /\ DOMAIN wallets' \subseteq Wallets
      /\ Table(addrs, ws) /\ Keeps(call, addrs, ws, scenario, faults)
  BY <1>1 DEF RotationInv
<1>3. Table(addrs, DOMAIN wallets')
  BY <1>2 DEF Table
<1>4. \A c \in Callers : Known(call[c], addrs, DOMAIN wallets')
  BY <1>2, KnownKept, GrowsSame DEF RotationInv
<1>5. Keeps(call, addrs, DOMAIN wallets', scenario, faults)
  <2>1. CASE DOMAIN wallets' = ws
    BY <1>2, <2>1
  <2>2. CASE DOMAIN wallets' = ws \cup {w}
    <3> SUFFICES ASSUME NEW v, DOMAIN wallets' = {v} PROVE DOMAIN addrs = {}
      BY DEF Keeps
    <3>1. ws = {}
      BY <1>1, <2>2
    <3>2. QED
      BY <1>2, <3>1 DEF Table
  <2>3. QED
    BY <1>1, <2>1, <2>2
<1>6. QED
  BY <1>1, <1>2, <1>3, <1>4, <1>5 DEF RotationInv

LEMMA LockExpiresKeeps ==
  ASSUME RotationInv, NEW w \in Wallets, LockExpires(w)
  PROVE  RotationInv'
<1>1. /\ lock' = [lock EXCEPT ![w] = None] /\ UNCHANGED <<scenario, wallets, addrs, call, faults>>
      /\ lock \in [Wallets -> Callers \cup {None}]
  BY DEF LockExpires, RotationInv
<1>2. lock' \in [Wallets -> Callers \cup {None}]
      /\ \A v \in Wallets : lock'[v] = lock[v] \/ lock'[v] = None
  BY <1>1
<1>3. ASSUME NEW c \in Callers
      PROVE  Lone(call, c, addrs, lock', scenario)
  <2>1. Lone(call, c, addrs, lock, scenario) /\ (call[c].pc # "idle" => call[c].w \in Wallets)
    BY CallFacts DEF RotationInv
  <2>2. call[c].w \in Wallets /\ Served(call[c], addrs, lock[call[c].w])
          => Served(call[c], addrs, lock'[call[c].w])
    BY <1>2 DEF Served
  <2>3. QED
    BY <2>1, <2>2 DEF Lone
<1>4. QED
  BY <1>1, <1>2, <1>3 DEF RotationInv

LEMMA InitRotation == RotationInit => RotationInv
<1> SUFFICES ASSUME RotationInit PROVE RotationInv
  OBVIOUS
<1>1. /\ DOMAIN wallets = {} /\ DOMAIN addrs = {} /\ addrs \in [DOMAIN addrs -> AddressRow]
      /\ faults = 0
      /\ lock \in [Wallets -> Callers \cup {None}]
  BY DEF RotationInit
<1>2. /\ IdleCall \in Call /\ IdleCall.pc = "idle" /\ IdleCall.seen = {} /\ IdleCall.dead = {}
      /\ IdleCall.ret.a = None
  BY DEF IdleCall, Call, NoReply, PC
<1>3. call \in [Callers -> Call] /\ \A c \in Callers : call[c] = IdleCall
  BY <1>2 DEF RotationInit
<1>4. Table(addrs, DOMAIN wallets)
  <2>1. 0 \in Nat /\ \A a \in DOMAIN addrs : a <= 0
    BY <1>1
  <2>2. QED
    BY <1>1, <2>1 DEF Table, ActiveOf
<1>5. Known(IdleCall, addrs, DOMAIN wallets)
  BY <1>2 DEF Known, Locked
<1>6. \A c \in Callers : /\ Known(call[c], addrs, DOMAIN wallets) /\ call[c].pc # "solana"
                         /\ Lone(call, c, addrs, lock, scenario)
  BY <1>2, <1>3, <1>5 DEF Lone
<1>7. Keeps(call, addrs, DOMAIN wallets, scenario, faults)
  BY <1>1 DEF Keeps
<1>8. QED
  BY <1>1, <1>3, <1>4, <1>6, <1>7 DEF RotationInv

LEMMA NextRotation == RotationInv /\ [Next]_vars => RotationInv'
<1> SUFFICES ASSUME RotationInv, [Next]_vars PROVE RotationInv'
  OBVIOUS
<1>1. CASE UNCHANGED rotationVars
  BY <1>1 DEF RotationInv, rotationVars
<1>2. CASE RotationNext
  <2>1. ASSUME NEW c \in Callers, Step(c) PROVE RotationInv'
    BY <2>1, StepsKeep
  <2>2. ASSUME NEW c \in Callers, StepFails(c) \/ Crash(c) PROVE RotationInv'
    BY <2>2, FaultKeeps
  <2>3. ASSUME NEW c \in Callers, NEW w \in Wallets, NEW op \in AllOperations, Begin(c, w, op)
        PROVE  RotationInv'
    BY <2>3, BeginKeeps
  <2>4. ASSUME NEW w \in Wallets, Create(w) \/ LockExpires(w) PROVE RotationInv'
    BY <2>4, CreateKeeps, LockExpiresKeeps
  <2>5. ASSUME NEW a, BecomesDue(a) PROVE RotationInv'
    BY <2>5 DEF BecomesDue, RotationInv
  <2>6. QED
    BY <1>2, <2>1, <2>2, <2>3, <2>4, <2>5 DEF RotationNext
<1>3. QED
  BY <1>1, <1>2 DEF Next, vars

LEMMA RotationHolds == Spec => []RotationInv
<1>1. Init => RotationInv
  BY InitRotation DEF Init
<1>2. RotationInv /\ [Next]_vars => RotationInv'
  BY NextRotation
<1>3. QED
  BY <1>1, <1>2, PTL DEF Spec

(* Every address that CurrentOrRotate or ForceRotate returns belongs to    *)
(* the wallet and was not deprecated when the call began, and a forced     *)
(* rotation returns a new one, for any number of concurrent calls, with    *)
(* failures, crashes and locks that expire at any time.                    *)
THEOREM UsableReturned == Spec => []ReturnsUsable
<1>1. RotationInv => ReturnsUsable
  BY DEF RotationInv, Known, ReturnsUsable, Returned, At
<1>2. QED
  BY <1>1, RotationHolds, PTL

(* A wallet that has its chain to itself never ends without an active      *)
(* address, whichever rotations race: the rotation that finds none active  *)
(* and cannot insert its own has been overtaken by one that will.          *)
THEOREM AddressKept == Spec => []KeepsAddress
<1>1. RotationInv => KeepsAddress
  <2> SUFFICES ASSUME RotationInv, NEW w \in Wallets, DOMAIN wallets = {w},
                      scenario.chain # "solana", faults = 0, DOMAIN addrs # {}, Running = {}
               PROVE  ActiveAddress(w) # {}
    BY DEF KeepsAddress
  <2>1. ~Mended(call, addrs)
    BY DEF Mended, Running
  <2>2. ActiveOf(addrs, w) # {}
    BY <2>1 DEF RotationInv, Keeps
  <2>3. QED
    BY <2>2, ActiveIs DEF RotationInv
<1>2. QED
  BY <1>1, RotationHolds, PTL

(* A call of DeriveAddress that has the wallet to itself succeeds unless   *)
(* the wallet is retired, in whatever state earlier calls have left it.    *)
THEOREM LoneCallServed == Spec => []LoneCallSucceeds
<1>1. RotationInv => LoneCallSucceeds
  BY DEF RotationInv, Lone, Served, LoneCallSucceeds, At
<1>2. QED
  BY <1>1, RotationHolds, PTL
=============================================================================
