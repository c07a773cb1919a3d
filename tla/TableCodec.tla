----------------------------- MODULE TableCodec -----------------------------
(***************************************************************************)
(* How parse tables become bytes and come back: serializeTables,           *)
(* deserializeTables and the digest (lalr.ts), the varints and the reader  *)
(* of a cache file (tableCache.ts).                                        *)
(*                                                                         *)
(* Tables are [action, goto], a sequence of rows each, a row the sequence  *)
(* of its pairs in the order its Map was filled.  A grammar is what the    *)
(* codec reads of a GrammarBuilder: [terms, always, skip, rules].          *)
(***************************************************************************)
EXTENDS Naturals, Sequences, SequencesExt, FiniteSetsExt

CONSTANTS
  VarintBase,   \* what a byte of a varint counts up to: 128 in the code
  Magic,        \* the bytes every cache file begins with
  Hash(_)       \* FNV-1a of what grammarDigest mixes in, in their order

ASSUME CodecAssumption ==
  /\ VarintBase \in Nat /\ VarintBase > 1
  /\ Magic \in Seq(0..(2 * VarintBase - 1))

Position(seq, x) == SelectInSeq(seq, LAMBDA y : y = x)
-----------------------------------------------------------------------------
(* Entries of an action row.  A conflict holds shifts and reduces.          *)
Shift(s) == [kind |-> "shift", to |-> s]
Reduce(r) == [kind |-> "reduce", to |-> r]
AcceptEntry == [kind |-> "accept"]
Conflict(entries) == [kind |-> "conflict", of |-> entries]
ErrorEntry == [kind |-> "error"]
IgnoreEntry == [kind |-> "ignore"]
NoEntry == [kind |-> "undefined"]

(* `terminalsByIndex`, and `indexNonTerminals`: in the order of first use.  *)
TermOrder(g) == g.terms \o <<"$end", "$error">>
NtOrder(g) ==
  LET uses == FlattenSeq([r \in 1..Len(g.rules) |->
                <<g.rules[r].lhs>> \o SelectSeq(g.rules[r].rhs, LAMBDA s : ~Contains(g.terms, s) /\ s # "$end")])
      firsts == SelectSeq([i \in 1..Len(uses) |-> i], LAMBDA i : Position(uses, uses[i]) = i)
  IN  [i \in 1..Len(firsts) |-> uses[firsts[i]]]

(* `fillAlwaysEntries`: what is lexed in every state, where nothing else    *)
(* is said.                                                                 *)
FillAlways(g, row) ==
  LET Fill(acc, t, e) == IF \E i \in 1..Len(acc) : acc[i][1] = t THEN acc ELSE Append(acc, <<t, e>>)
      errors == FoldLeft(LAMBDA acc, t : Fill(acc, t, ErrorEntry), row, g.always)
  IN  FoldLeft(LAMBDA acc, t : Fill(acc, t, IgnoreEntry), errors, g.skip)

EncodeBare(e) ==
  CASE e.kind = "shift" -> <<0, e.to>>
    [] e.kind = "reduce" -> <<1, e.to>>
    [] e.kind = "accept" -> <<2>>
EncodeEntry(e) ==
  IF e.kind = "conflict" THEN <<3, Len(e.of)>> \o FlattenSeq([i \in 1..Len(e.of) |-> EncodeBare(e.of[i])])
  ELSE EncodeBare(e)

(* The entry the row repeats most, the first such. *)
Commonest(row) ==
  LET Count(i) == Len(SelectSeq(row, LAMBDA x : x[2] = row[i][2]))
  IN  row[CHOOSE i \in 1..Len(row) : \A j \in 1..Len(row) :
            Count(j) < Count(i) \/ (Count(j) = Count(i) /\ i <= j)][2]

(* A row: its commonest entry, then every terminal, doubled, and one more   *)
(* before an entry of its own.  `error` and `ignore` are left to be filled  *)
(* in again.                                                                *)
EncodeRow(g, row) ==
  LET real == SelectSeq(row, LAMBDA x : x[2].kind \notin {"error", "ignore"})
      Tagged(x) == LET idx == Position(TermOrder(g), x[1]) - 1
                   IN  IF x[2] = Commonest(real) THEN <<2 * idx>> ELSE <<2 * idx + 1>> \o EncodeEntry(x[2])
  IN  IF real = <<>> THEN <<>>
      ELSE EncodeEntry(Commonest(real)) \o FlattenSeq([i \in 1..Len(real) |-> Tagged(real[i])])

EncodeGoto(g, row) ==
  FlattenSeq([i \in 1..Len(row) |-> <<Position(NtOrder(g), row[i][1]) - 1, row[i][2]>>])

Serialize(g, tables) ==
  [action |-> [s \in 1..Len(tables.action) |-> EncodeRow(g, tables.action[s])],
   goto |-> [s \in 1..Len(tables.goto) |-> EncodeGoto(g, tables.goto[s])]]
-----------------------------------------------------------------------------
(* Decoding answers with the value and the place behind it.  A number that  *)
(* is not there, undefined, is one no table holds.                          *)
At(row, i) == IF i <= Len(row) THEN row[i] ELSE 1000000

DecodeBare(row, i) ==
  CASE At(row, i) = 0 -> [entry |-> Shift(At(row, i + 1)), next |-> i + 2]
    [] At(row, i) = 1 -> [entry |-> Reduce(At(row, i + 1)), next |-> i + 2]
    [] At(row, i) = 2 -> [entry |-> AcceptEntry, next |-> i + 1]
    [] OTHER -> [entry |-> NoEntry, next |-> i + 1]
DecodeEntry(row, i) ==
  IF At(row, i) # 3 THEN DecodeBare(row, i)
  ELSE LET parts == FoldLeftDomain(LAMBDA acc, k : LET d == DecodeBare(row, acc.next)
                                                   IN  [of |-> Append(acc.of, d.entry), next |-> d.next],
                                   [of |-> <<>>, next |-> i + 2],
                                   [k \in 1..Min({At(row, i + 1), Len(row)}) |-> k])
       IN  [entry |-> Conflict(parts.of), next |-> parts.next]

(* The loop over the tagged terminals, one turn for each that could be.     *)
DecodeRow(g, row) ==
  LET default == DecodeEntry(row, 1)
      Turn(acc, k) ==
        IF acc.next > Len(row) THEN acc
        ELSE LET tagged == row[acc.next]
                 own == DecodeEntry(row, acc.next + 1)
                 term == IF tagged \div 2 < Len(TermOrder(g)) THEN TermOrder(g)[tagged \div 2 + 1] ELSE "undefined"
             IN  IF tagged % 2 = 1 THEN [pairs |-> Append(acc.pairs, <<term, own.entry>>), next |-> own.next]
                 ELSE [pairs |-> Append(acc.pairs, <<term, default.entry>>), next |-> acc.next + 1]
  IN  IF row = <<>> THEN <<>>
      ELSE FoldLeftDomain(Turn, [pairs |-> <<>>, next |-> default.next], row).pairs

DecodeGoto(g, row) ==
  [i \in 1..((Len(row) + 1) \div 2) |->
     <<IF row[2 * i - 1] < Len(NtOrder(g)) THEN NtOrder(g)[row[2 * i - 1] + 1] ELSE "undefined",
       At(row, 2 * i)>>]

(* deserializeTables.  A faulty one does not fill in what was left out.     *)
DeserializeBare(g, s) ==
  [action |-> [i \in 1..Len(s.action) |-> DecodeRow(g, s.action[i])],
   goto |-> [i \in 1..Len(s.goto) |-> DecodeGoto(g, s.goto[i])]]
Deserialize(g, s) ==
  [action |-> [i \in 1..Len(s.action) |-> FillAlways(g, DecodeRow(g, s.action[i]))],
   goto |-> [i \in 1..Len(s.goto) |-> DecodeGoto(g, s.goto[i])]]

(* What tables say: the order of a row is not looked at. *)
Canonical(t) ==
  [action |-> [i \in 1..Len(t.action) |-> ToSet(t.action[i])],
   goto |-> [i \in 1..Len(t.goto) |-> ToSet(t.goto[i])]]
-----------------------------------------------------------------------------
(* grammarDigest: terminals, the lists of those always lexed, and the shape *)
(* and precedence of every rule; not whether a rule has the default action. *)
Digest(g) ==
  LET Sym(s) == IF Contains(NtOrder(g), s) THEN <<"n", Position(NtOrder(g), s)>> ELSE <<"t", s>>
  IN  Hash(<<g.terms, g.always, g.skip,
             [r \in 1..Len(g.rules) |-> <<Sym(g.rules[r].lhs),
                [k \in 1..Len(g.rules[r].rhs) |-> Sym(g.rules[r].rhs[k])], g.rules[r].prec>>]>>)

PutVarint(value) ==
  LET digits[v \in Nat] == IF v < VarintBase THEN <<v>>
                           ELSE <<(v % VarintBase) + VarintBase>> \o digits[v \div VarintBase]
  IN  digits[value]
PutRows(rows) ==
  FlattenSeq([i \in 1..Len(rows) |->
    PutVarint(Len(rows[i])) \o FlattenSeq([k \in 1..Len(rows[i]) |-> PutVarint(rows[i][k])])])

(* A stamp is the time, one byte here and eight in the code, and the size.  *)
PutStamp(stamp) == <<stamp.mtime>> \o PutVarint(stamp.size)

(* What a file is good for: the engine's version, the options that reach    *)
(* the tables, the digest of the grammar and the stamps of its sources.     *)
Header(key) ==
  Magic \o PutVarint(key.engine) \o PutVarint(key.flags) \o PutVarint(key.digest) \o PutVarint(Len(key.stamps))
    \o FlattenSeq([i \in 1..Len(key.stamps) |-> PutStamp(key.stamps[i])])
FileBytes(key, s) == Header(key) \o PutVarint(Len(s.action)) \o PutRows(s.action) \o PutRows(s.goto)

(* Reader.varint: 0 when the bytes end within it, and past the end then.    *)
GetVarint(bytes, i) ==
  LET ends == {j \in i..Len(bytes) : bytes[j] < VarintBase}
  IN  IF ends = {} THEN [value |-> 0, next |-> Max({i, Len(bytes) + 1}) + 1]
      ELSE [value |-> MapThenSumSet(LAMBDA j : (bytes[j] % VarintBase) * VarintBase ^ (j - i), i..Min(ends)),
            next |-> Min(ends) + 1]

(* Reader.row and Reader.rows: a count that runs off the end of the bytes   *)
(* stops.                                                                   *)
Fits(bytes, i) == i <= Len(bytes)
Several(get(_, _), bytes, i, count) ==
  FoldLeftDomain(LAMBDA acc, k : IF ~Fits(bytes, acc.next) THEN acc
                                 ELSE LET x == get(bytes, acc.next)
                                      IN  [value |-> Append(acc.value, x.value), next |-> x.next],
                 [value |-> <<>>, next |-> i], [k \in 1..Min({count, Len(bytes) + 1}) |-> k])
GetRow(bytes, i) == LET n == GetVarint(bytes, i) IN Several(GetVarint, bytes, n.next, n.value)
GetRows(bytes, i, count) == Several(GetRow, bytes, i, count)

(* Reader.tables: usable if the bytes end where the last row does.          *)
EndsAt(bytes, next) == next = Len(bytes) + 1
NoTables == [action |-> <<>>, goto |-> <<>>, found |-> FALSE]
GetTables(bytes, i) ==
  LET n == GetVarint(bytes, i)
      action == GetRows(bytes, n.next, n.value)
      goto == GetRows(bytes, action.next, n.value)
  IN  IF EndsAt(bytes, goto.next) THEN [action |-> action.value, goto |-> goto.value, found |-> TRUE]
      ELSE NoTables

(* sameStamp, the time.  A faulty one leaves it to the size. *)
AnyMtime(bytes, i, stamp) == TRUE
SameMtime(bytes, i, stamp) == bytes[i] = stamp.mtime

(* loadTables: the header, read piece by piece, has to be that of the key;  *)
(* a stamp past the end is NaN, which equals nothing.                       *)
LoadTables(bytes, key) ==
  LET Field(acc, value) == LET x == GetVarint(bytes, acc.next)
                           IN  [same |-> acc.same /\ x.value = value, next |-> x.next]
      Stamp(acc, stamp) == IF ~Fits(bytes, acc.next) THEN [acc EXCEPT !.same = FALSE]
                           ELSE Field([same |-> acc.same /\ SameMtime(bytes, acc.next, stamp), next |-> acc.next + 1],
                                      stamp.size)
      fields == FoldLeft(Field, [same |-> IsPrefix(Magic, bytes), next |-> Len(Magic) + 1],
                         <<key.engine, key.flags, key.digest, Len(key.stamps)>>)
      header == FoldLeft(Stamp, fields, key.stamps)
  IN  IF header.same THEN GetTables(bytes, header.next) ELSE NoTables
=============================================================================
