-------------------------- MODULE PrepareWorkspace --------------------------
(***************************************************************************)
(* The upload path of emvp/src/engine.rs: plan_prepare fixes the shape of  *)
(* a set of matrices, a reusable workspace reserves a slot for each, copy  *)
(* fills the slots from the uploads, and prepare_committed moves them into *)
(* the matrices that prepare_batch_core then charges and loads.            *)
(*                                                                         *)
(* A slot is a Vec: its elements and its capacity.  The allocator refuses  *)
(* what would take the workspace beyond its memory.                        *)
(***************************************************************************)
EXTENDS Protocol, Codec

EmptyWorkspace(memory) == [slots |-> <<>>, memory |-> memory, error |-> "None"]

\* The words the workspace holds, and one for every slot.
Held(slots) == Total([i \in 1 .. Len(slots) |-> slots[i].capacity + 1])

\* An upload without its values.
Shape(upload) ==
  [params |-> upload.params, instance |-> upload.instance,
   rows |-> upload.rows, columns |-> upload.columns, words |-> Len(upload.values)]

PlanPrepare(uploads) ==
  LET Entry(plan, upload) ==
        Then(ValidateMatrixShape(upload.params, upload), LAMBDA n :
        Then(CheckedAdd(plan.totalWords, Len(upload.values), Usize), LAMBDA total :
          Ok([entries |-> Append(plan.entries, Shape(upload)), totalWords |-> total])))
      planned == FoldLeft(LAMBDA plan, upload : Then(plan, LAMBDA p : Entry(p, upload)),
                          Ok([entries |-> <<>>, totalWords |-> 0]), uploads)
  IN  IF uploads = <<>> THEN Err("Empty") ELSE planned

-----------------------------------------------------------------------------
(* reserve: every step is left out once one was refused.                   *)

\* The workspace with the slot at index as given, if its memory holds it.
Allocated(ws, index, slot) ==
  LET slots == [i \in DOMAIN ws.slots \cup {index} |->
                  IF i = index THEN slot ELSE ws.slots[i]]
  IN  IF Held(slots) > ws.memory THEN [ws EXCEPT !.error = "Capacity"]
      ELSE [ws EXCEPT !.slots = slots]

NewSlot(ws, index) ==
  IF ws.error # "None" \/ index <= Len(ws.slots) THEN ws
  ELSE Allocated(ws, index, [values |-> <<>>, capacity |-> 0])

\* Mutant of MissingWords: counted from the capacity, as grow_capacity does.
MissingWordsOfCapacity(slot, words) == words - slot.capacity

\* What try_reserve_exact is asked for, beyond the length.
MissingWords(slot, words) == words - Len(slot.values)

GrowSlot(ws, index, words) ==
  LET Larger(a, b) == IF a < b THEN b ELSE a
      Grown(slot) == [slot EXCEPT !.capacity =
                        Larger(@, Len(slot.values) + MissingWords(slot, words))]
  IN  IF ws.error # "None" \/ ws.slots[index].capacity >= words THEN ws
      ELSE Allocated(ws, index, Grown(ws.slots[index]))

\* resize: cut, or filled up with zeros; what the capacity lacks is allocated
\* without asking.
ResizeSlot(ws, index, words) ==
  IF ws.error # "None" THEN ws
  ELSE [ws EXCEPT !.slots[index].values = Padded(@, words),
                  !.slots[index].capacity = IF @ < words THEN words ELSE @]

ReserveSlots(workspace, plan) ==
  LET Slot(ws, index) ==
        LET words == plan.entries[index].words
        IN  ResizeSlot(GrowSlot(NewSlot(ws, index), index, words), index, words)
  IN  FoldLeft(Slot, [workspace EXCEPT !.error = "None"], Indices(plan.entries))

-----------------------------------------------------------------------------
\* Mutant of Agrees: slots of a larger plan, or of an older one, will do.
AgreesLoosely(slot, entry, upload) ==
  IF Shape(upload) # entry THEN Err("PlanMismatch")
  ELSE IF Len(slot.values) < entry.words THEN Err("Capacity")
  ELSE Ok(entry)

\* The upload is the planned one, and its slot has the planned size.
Agrees(slot, entry, upload) ==
  IF Shape(upload) # entry THEN Err("PlanMismatch")
  ELSE IF Len(slot.values) # entry.words THEN Err("Capacity")
  ELSE Ok(entry)

\* copy: all entries are checked before the first slot is written.
CopyUploads(ws, plan, uploads) ==
  LET entries == plan.entries
      Written(slot, i) == IF i <= Len(uploads) THEN [slot EXCEPT !.values = uploads[i].values]
                          ELSE slot
      Copied(checked) ==
        IF Failed(checked) THEN [ws EXCEPT !.error = checked.err]
        ELSE [ws EXCEPT !.error = "None", !.slots = [i \in DOMAIN @ |-> Written(@[i], i)]]
  IN  IF Len(uploads) # Len(entries) \/ Len(ws.slots) < Len(entries)
      THEN [ws EXCEPT !.error = "PlanMismatch"]
      ELSE Copied(Collected(Map(LAMBDA i : Agrees(ws.slots[i], entries[i], uploads[i]),
                                Indices(entries))))

\* prepare_committed, up to the call of prepare_batch_core.
CommitSlots(plan, ws) ==
  LET entries == plan.entries
      Matrix(i) == [params |-> entries[i].params, instance |-> entries[i].instance,
                    rows |-> entries[i].rows, columns |-> entries[i].columns,
                    values |-> ws.slots[i].values]
      paired == IF Len(ws.slots) < Len(entries) THEN Len(ws.slots) ELSE Len(entries)
  IN  IF entries = <<>> THEN Err("Empty")
      ELSE IF \E i \in 1 .. paired : Len(ws.slots[i].values) # entries[i].words
      THEN Err("Capacity")
      ELSE IF paired # Len(entries) THEN Err("PlanMismatch")
      ELSE Ok(Map(Matrix, Upto(paired)))
=============================================================================
