------------------------------- MODULE Codec -------------------------------
(***************************************************************************)
(* Payloads of the wire protocol, byte for byte: the writers of encode.rs, *)
(* the plans of plan.rs, which size a payload from its descriptor tables   *)
(* before anything is allocated, the decoders and the views over the       *)
(* decoded arena, and the two small messages of messages.rs.               *)
(*                                                                         *)
(* A byte has ByteBits bits, so that a u32 is a word of Field and a u64 a  *)
(* double word; a u128 is an instance identifier, kept as its bytes.  A    *)
(* table is given by the bytes of each field of its descriptors.           *)
(***************************************************************************)
EXTENDS Transform

CONSTANTS
  Usize,         \* the lengths of the host are below
  ChunkFields    \* CHUNK_FIELDS, 4096 in the code

ASSUME CodecAssumption ==
  /\ Usize \in Nat /\ Usize <= Wide
  /\ ChunkFields \in Nat \ {0}

Byte == 2 ^ ByteBits
FieldBytes == 4

UPLOAD == <<8, 8, 8, 4, 16, 8, 8>>    \* k, ell, b, lambda, instance, rows, columns
EVALUATE_ENTRY == <<8, 8, 8>>         \* matrix, queries, width
EVALUATE_QUERY == <<16, 8>>           \* instance, query
PRODUCTS_ENTRY == <<8, 16, 8, 8, 8>>  \* matrix, instance, rows, blocks, answers
PRODUCTS_ANSWER == <<8>>              \* query

Total(numbers) == FoldLeft(LAMBDA sum, n : sum + n, 0, numbers)

Concatenated(parts) == FoldLeft(LAMBDA all, part : all \o part, <<>>, parts)

\* checked_mul and checked_add of numbers below width.
CheckedMul(a, b, width) ==
  IF b # 0 /\ a > (width - 1) \div b THEN Err("DimensionOverflow") ELSE Ok(a * b)
CheckedAdd(a, b, width) == IF a + b >= width THEN Err("DimensionOverflow") ELSE Ok(a + b)

HostLen(value) == IF value >= Usize THEN Err("ValueOutOfRange") ELSE Ok(value)

Number(bytes) ==
  FoldLeft(LAMBDA sum, i : sum + bytes[i] * Byte^(i - 1), 0, Indices(bytes))
Bytes(value, count) == [i \in 1 .. count |-> (value \div Byte^(i - 1)) % Byte]

-----------------------------------------------------------------------------
(* FrameReader: the bytes of the stream, how many of them the header        *)
(* declared, and what is reserved of the memory there is.                   *)

OpenFrame(stream, declared, memory) ==
  [inner |-> stream, remaining |-> declared, reserved |-> 0, memory |-> memory]

\* read_exact_checked: the frame may be too short, or the stream end early.
Take(frame, count) ==
  IF count > frame.remaining \/ count > Len(frame.inner) THEN Err("TruncatedFrame")
  ELSE Ok([bytes |-> SubSeq(frame.inner, 1, count),
           frame |-> [frame EXCEPT !.inner = SubSeq(@, count + 1, Len(@)),
                                   !.remaining = @ - count]])

\* The fields of a descriptor, read one by one; whichever is cut off, the error
\* is the same.
Descriptor(frame, fields) ==
  LET Field(bytes, i) ==
        LET start == Total(SubSeq(fields, 1, i - 1))
            part == SubSeq(bytes, start + 1, start + fields[i])
        IN  IF fields[i] = 16 THEN part ELSE Number(part)
  IN  Then(Take(frame, Total(fields)), LAMBDA taken :
        Ok([values |-> Map(LAMBDA i : Field(taken.bytes, i), Indices(fields)),
            frame |-> taken.frame]))

\* try_reserve_exact
Reserve(frame, bytes) ==
  IF frame.reserved + bytes > frame.memory THEN Err("AllocationFailed")
  ELSE Ok([frame EXCEPT !.reserved = @ + bytes])

\* A chunk of elements is decoded before the next is read.
ReadFieldSlice(p, frame, count) ==
  LET Chunked(state, i) ==
        LET fields == IF count - i < ChunkFields THEN count - i ELSE ChunkFields
            Element(bytes, k) == Decode(p, SubSeq(bytes, 4 * k - 3, 4 * k))
        IN  IF i % ChunkFields # 0 THEN state
            ELSE Then(state, LAMBDA s :
                 Then(Take(s.frame, fields * FieldBytes), LAMBDA taken :
                   LET read == Map(LAMBDA k : Element(taken.bytes, k), Upto(fields))
                   IN  IF \E k \in 1 .. fields : Failed(read[k]) THEN Err("NonCanonicalField")
                       ELSE Ok([values |-> s.values \o Map(LAMBDA r : r.ok, read),
                                frame |-> taken.frame])))
  IN  IF count * FieldBytes > frame.remaining THEN Err("TruncatedFrame")
      ELSE FoldLeft(LAMBDA state, i : Chunked(state, i - 1),
                    Ok([values |-> <<>>, frame |-> frame]), Upto(count))

FinishFrame(frame) ==
  IF frame.remaining = 0 THEN Ok(frame) ELSE Err("TrailingFrameBytes")

-----------------------------------------------------------------------------
(* Plans.                                                                  *)

\* What the descriptors of a table take, of the frame and of memory.
TableSize(counts, tables) ==
  Total([i \in 1 .. Len(counts) |-> counts[i] * Total(tables[i])])

\* Mutant of TableBytes: the products and the sum wrap.
TableBytesWrapping(counts, tables) == Ok(TableSize(counts, tables) % Wide)

TableBytes(counts, tables) ==
  FoldLeft(LAMBDA total, i :
             Then(total, LAMBDA t :
             Then(CheckedMul(counts[i], Total(tables[i]), Wide), LAMBDA bytes :
               CheckedAdd(t, bytes, Wide))),
           Ok(0), Indices(counts))

\* The tables must fit what is left of the frame, before anything is reserved.
RequireDescriptorFit(frame, counts, tables) ==
  Then(TableBytes(counts, tables), LAMBDA bytes :
    IF bytes > frame.remaining THEN Err("TruncatedFrame") ELSE Ok(frame))

RequireExactValueRegion(frame, fields) ==
  Then(CheckedMul(fields, FieldBytes, Wide), LAMBDA bytes :
    IF bytes < frame.remaining THEN Err("TrailingFrameBytes")
    ELSE IF bytes > frame.remaining THEN Err("TruncatedFrame")
    ELSE Ok(frame))

EmptyPlan == [entries |-> <<>>, items |-> 0, valueFields |-> 0, itemTable |-> <<>>]

\* An entry of count items of width words each, behind the entries before it.
AppendEntry(plan, values, count, width) ==
  Then(CheckedAdd(plan.items, count, Usize), LAMBDA items :
  Then(CheckedMul(count, width, Usize), LAMBDA fields :
  Then(CheckedAdd(plan.valueFields, fields, Usize), LAMBDA valueFields :
    Ok([plan EXCEPT !.items = items, !.valueFields = valueFields,
          !.entries = Append(@, [values |-> values, count |-> count, width |-> width,
                                 itemOffset |-> plan.items,
                                 valueOffset |-> plan.valueFields])]))))

\* A matrix is one item of rows * columns words; it has no table of items.
AcceptMatrix(plan, v) ==
  IF v[6] = 0 \/ v[7] = 0 THEN Err("InvalidDimensions")
  ELSE Then(HostLen(v[6]), LAMBDA rows :
       Then(HostLen(v[7]), LAMBDA columns :
       Then(CheckedMul(rows, columns, Usize), LAMBDA fields :
       Then(AppendEntry(plan, v, 1, fields), LAMBDA next :
         IF \E i \in 1 .. 3 : Failed(HostLen(v[i])) THEN Err("ValueOutOfRange")
         ELSE Ok(next)))))

\* An entry without queries has width zero, one with queries has not.
AcceptEvaluateEntry(plan, v) ==
  IF v[2] = 0 /\ v[3] # 0 THEN Err("CountMismatch")
  ELSE IF v[2] # 0 /\ v[3] = 0 THEN Err("InvalidDimensions")
  ELSE Then(HostLen(v[2]), LAMBDA count :
       Then(HostLen(v[3]), LAMBDA width : AppendEntry(plan, v, count, width)))

AcceptProductsEntry(plan, v) ==
  IF v[3] = 0 \/ v[4] = 0 THEN Err("InvalidDimensions")
  ELSE Then(HostLen(v[3]), LAMBDA rows :
       Then(HostLen(v[4]), LAMBDA blocks :
       Then(HostLen(v[5]), LAMBDA count :
       Then(CheckedMul(rows, blocks, Usize), LAMBDA words :
         AppendEntry(plan, v, count, words)))))

AcceptItem(plan, v) == Ok([plan EXCEPT !.itemTable = Append(@, v)])

\* One descriptor after the other, each accepted before the next is read.
Table(frame, count, fields, Accept(_, _), plan) ==
  FoldLeft(LAMBDA state, i :
             Then(state, LAMBDA s :
             Then(Descriptor(s.frame, fields), LAMBDA d :
             Then(Accept(s.plan, d.values), LAMBDA next :
               Ok([frame |-> d.frame, plan |-> next])))),
           Ok([frame |-> frame, plan |-> plan]), Upto(count))

\* What the plans have in common, up to the end of the first table.
PlanEntries(frame, tables, Accept(_, _)) ==
  Then(Descriptor(frame, [i \in 1 .. Len(tables) |-> 8]), LAMBDA summary :
  Then(RequireDescriptorFit(summary.frame, summary.values, tables), LAMBDA fit :
    IF \E i \in 1 .. Len(tables) : Failed(HostLen(summary.values[i]))
    THEN Err("ValueOutOfRange")
    ELSE Then(Reserve(fit, TableSize(summary.values, tables)), LAMBDA reserved :
         Then(Table(reserved, summary.values[1], tables[1], Accept, EmptyPlan),
              LAMBDA t : Ok([frame |-> t.frame, plan |-> t.plan, counts |-> summary.values])))))

\* The entries must add up to the items the summary counts.
PlanItems(planned, fields) ==
  Then(planned, LAMBDA s :
    IF s.plan.items # s.counts[2] THEN Err("CountMismatch")
    ELSE Then(Table(s.frame, s.counts[2], fields, AcceptItem, s.plan), LAMBDA t :
         Then(RequireExactValueRegion(t.frame, t.plan.valueFields), LAMBDA end : Ok(t))))

PlanUpload(frame) ==
  Then(PlanEntries(frame, <<UPLOAD>>, AcceptMatrix), LAMBDA s :
  Then(RequireExactValueRegion(s.frame, s.plan.valueFields), LAMBDA end :
    Ok([frame |-> end, plan |-> s.plan])))

PlanEvaluate(frame) ==
  PlanItems(PlanEntries(frame, <<EVALUATE_ENTRY, EVALUATE_QUERY>>, AcceptEvaluateEntry),
            EVALUATE_QUERY)

PlanProducts(frame) ==
  PlanItems(PlanEntries(frame, <<PRODUCTS_ENTRY, PRODUCTS_ANSWER>>, AcceptProductsEntry),
            PRODUCTS_ANSWER)

-----------------------------------------------------------------------------
(* Decoding into an arena, and the views over it.                          *)

\* Every entry at its offset; words of the arena behind the plan's stay.
DecodeEntries(p, planned, arena) ==
  LET Entry(state, entry) ==
        LET words == entry.count * entry.width
            end == entry.valueOffset + words
        IN  Then(state, LAMBDA s :
              IF end > Len(s.arena) THEN Err("AllocationFailed")
              ELSE Then(ReadFieldSlice(p, s.frame, words), LAMBDA read :
                   Ok([frame |-> read.frame,
                       arena |-> SubSeq(s.arena, 1, entry.valueOffset) \o read.values
                                 \o SubSeq(s.arena, end + 1, Len(s.arena))])))
      decoded == FoldLeft(Entry, Ok([frame |-> planned.frame, arena |-> arena]),
                          planned.plan.entries)
  IN  Then(decoded, LAMBDA d :
      Then(FinishFrame(d.frame), LAMBDA end :
        Ok([frame |-> end, arena |-> d.arena, plan |-> planned.plan])))

\* Mutant of ItemValues: the offset of the entry is left out.
ItemValuesOfArena(arena, entry, index) ==
  SubSeq(arena, index * entry.width + 1, (index + 1) * entry.width)

\* The words of item index of an entry, within the entry's part of the arena.
ItemValues(arena, entry, index) ==
  LET part == SubSeq(arena, entry.valueOffset + 1,
                     entry.valueOffset + entry.count * entry.width)
  IN  SubSeq(part, index * entry.width + 1, (index + 1) * entry.width)

UploadView(decoded, entry) ==
  LET v == entry.values
  IN  [params |-> [k |-> v[1], ell |-> v[2], b |-> v[3], lambda |-> v[4]],
       instance |-> v[5], rows |-> v[6], columns |-> v[7],
       values |-> ItemValues(decoded.arena, entry, 0)]

EvaluateView(decoded, entry) ==
  LET Query(i) == LET item == decoded.plan.itemTable[entry.itemOffset + i]
                  IN  [instance |-> item[1], query |-> item[2],
                       values |-> ItemValues(decoded.arena, entry, i - 1)]
  IN  [matrix |-> entry.values[1], queries |-> Map(Query, Upto(entry.count))]

ProductsView(decoded, entry) ==
  LET v == entry.values
      Answer(i) == [instance |-> v[2], query |-> decoded.plan.itemTable[entry.itemOffset + i][1],
                    rows |-> v[3], blocks |-> v[4],
                    values |-> ItemValues(decoded.arena, entry, i - 1)]
  IN  [matrix |-> v[1], instance |-> v[2], rows |-> v[3], blocks |-> v[4],
       answers |-> Map(Answer, Upto(entry.count))]

\* A payload is planned, the arena grown for it, and the payload decoded.  What is
\* read is a message and where the frame and the stream stand.
ReadWith(p, planned, View(_, _), stale) ==
  Then(planned, LAMBDA s :
  Then(Reserve(s.frame, s.plan.valueFields * FieldBytes), LAMBDA reserved :
  Then(DecodeEntries(p, [s EXCEPT !.frame = reserved], Filled(stale, s.plan.valueFields + 1)),
       LAMBDA d :
    Ok([message |-> Map(LAMBDA entry : View(d, entry), d.plan.entries), frame |-> d.frame]))))

ReadUpload(p, frame, stale) == ReadWith(p, PlanUpload(frame), UploadView, stale)
ReadEvaluate(p, frame, stale) == ReadWith(p, PlanEvaluate(frame), EvaluateView, stale)
ReadProducts(p, frame, stale) == ReadWith(p, PlanProducts(frame), ProductsView, stale)

\* The identifiers fill their frame, and none is zero.
ReadUploadAccepted(frame) ==
  Then(Descriptor(frame, <<8>>), LAMBDA summary :
    LET count == summary.values[1]
        Identifier(plan, v) == IF v[1] = 0 THEN Err("InvalidDimensions")
                               ELSE AcceptItem(plan, v[1])
    IN  Then(CheckedMul(count, 8, Wide), LAMBDA bytes :
          IF bytes < summary.frame.remaining THEN Err("TrailingFrameBytes")
          ELSE IF bytes > summary.frame.remaining THEN Err("TruncatedFrame")
          ELSE Then(HostLen(count), LAMBDA length :
               Then(Reserve(summary.frame, bytes), LAMBDA reserved :
               Then(Table(reserved, length, <<8>>, Identifier, EmptyPlan), LAMBDA t :
                 Ok([message |-> t.plan.itemTable, frame |-> t.frame]))))))

\* A text is valid when it has no byte of the last value.
ReadError(frame) ==
  Then(Descriptor(frame, <<4, 8>>), LAMBDA head :
    IF head.values[2] > head.frame.remaining THEN Err("TruncatedFrame")
    ELSE Then(HostLen(head.values[2]), LAMBDA length :
         Then(Reserve(head.frame, length), LAMBDA reserved :
         Then(Take(reserved, length), LAMBDA text :
           IF \E i \in 1 .. length : text.bytes[i] = Byte - 1 THEN Err("InvalidUtf8")
           ELSE Then(FinishFrame(text.frame), LAMBDA end :
                  Ok([message |-> [code |-> head.values[1], text |-> text.bytes],
                      frame |-> end]))))))

-----------------------------------------------------------------------------
(* Writers: the length is computed and checked before a byte is written.    *)

RecordBytes(fields, values) ==
  Concatenated([i \in 1 .. Len(fields) |->
                  IF fields[i] = 16 THEN values[i] ELSE Bytes(values[i], fields[i])])

Elements32(p, values) == Concatenated(Map(LAMBDA v : Encode(p, v), values))

\* The declared length and the bytes of a payload.
Payload(counts, tables, records, values, p) ==
  Then(TableBytes(counts, tables), LAMBDA table :
  Then(CheckedMul(Len(values), FieldBytes, Wide), LAMBDA fields :
  Then(CheckedAdd(table, fields, Wide), LAMBDA sum :
  Then(CheckedAdd(sum, 8 * Len(counts), Wide), LAMBDA length :
    Ok([declared |-> length,
        body |-> Concatenated(Map(LAMBDA count : Bytes(count, 8), counts))
                 \o Concatenated(records) \o Elements32(p, values)])))))

WriteUpload(p, uploads) ==
  LET Matrix(u) == RecordBytes(UPLOAD, <<u.params.k, u.params.ell, u.params.b,
                                              u.params.lambda, u.instance, u.rows, u.columns>>)
  IN  Payload(<<Len(uploads)>>, <<UPLOAD>>, Map(Matrix, uploads),
              Concatenated(Map(LAMBDA u : u.values, uploads)), p)

\* All queries of an entry are as wide as its first.
WriteEvaluate(p, entries) ==
  LET Width(e) == IF e.queries = <<>> THEN 0 ELSE Len(e.queries[1].values)
      queries == Concatenated(Map(LAMBDA e : e.queries, entries))
      Entry(e) == RecordBytes(EVALUATE_ENTRY, <<e.matrix, Len(e.queries), Width(e)>>)
      Query(q) == RecordBytes(EVALUATE_QUERY, <<q.instance, q.query>>)
  IN  IF \E i \in 1 .. Len(entries) : \E j \in 1 .. Len(entries[i].queries) :
           Len(entries[i].queries[j].values) # Width(entries[i])
      THEN Err("CountMismatch")
      ELSE Payload(<<Len(entries), Len(queries)>>, <<EVALUATE_ENTRY, EVALUATE_QUERY>>,
                   Map(Entry, entries) \o Map(Query, queries),
                   Concatenated(Map(LAMBDA q : q.values, queries)), p)

\* Every answer has the shape of its entry.
WriteProducts(p, entries) ==
  LET answers == Concatenated(Map(LAMBDA e : e.answers, entries))
      Entry(e) == RecordBytes(PRODUCTS_ENTRY, <<e.matrix, e.instance, e.rows, e.blocks,
                                                Len(e.answers)>>)
      Checked(state, e) ==
        IF Failed(state) THEN state
        ELSE IF Failed(CheckedMul(e.rows, e.blocks, Usize)) THEN Err("DimensionOverflow")
        ELSE IF \E j \in 1 .. Len(e.answers) : Len(e.answers[j].values) # e.rows * e.blocks
        THEN Err("CountMismatch")
        ELSE state
      shape == FoldLeft(Checked, Ok(0), entries)
  IN  IF Failed(shape) THEN shape
      ELSE Payload(<<Len(entries), Len(answers)>>, <<PRODUCTS_ENTRY, PRODUCTS_ANSWER>>,
                   Map(Entry, entries) \o Map(LAMBDA a : Bytes(a.query, 8), answers),
                   Concatenated(Map(LAMBDA a : a.values, answers)), p)

WriteUploadAccepted(identifiers) ==
  Payload(<<Len(identifiers)>>, <<PRODUCTS_ANSWER>>,
          Map(LAMBDA identifier : Bytes(identifier, 8), identifiers), <<>>, 2)

WriteError(error) ==
  Then(CheckedAdd(12, Len(error.text), Wide), LAMBDA length :
    Ok([declared |-> length,
        body |-> Bytes(error.code, 4) \o Bytes(Len(error.text), 8) \o error.text]))
-----------------------------------------------------------------------------
(* The payload of a frame by its kind.                                      *)

WritePayload(kind, p, message) ==
  CASE kind = "UploadMatrices" -> WriteUpload(p, message)
    [] kind = "UploadAccepted" -> WriteUploadAccepted(message)
    [] kind = "Evaluate" -> WriteEvaluate(p, message)
    [] kind = "Products" -> WriteProducts(p, message)
    [] kind = "Error" -> WriteError(message)

ReadPayload(kind, p, frame, stale) ==
  CASE kind = "UploadMatrices" -> ReadUpload(p, frame, stale)
    [] kind = "UploadAccepted" -> ReadUploadAccepted(frame)
    [] kind = "Evaluate" -> ReadEvaluate(p, frame, stale)
    [] kind = "Products" -> ReadProducts(p, frame, stale)
    [] kind = "Error" -> ReadError(frame)
=============================================================================
