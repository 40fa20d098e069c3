# A verification development for UltraJSON

TLA+ modules that model UltraJSON (`src/src/ujson`), TLC configurations that
check them on small instances, and theorems about them checked by TLAPS.
Paths below are relative to the repository; `lib/` is `src/ujson/lib/` and
`python/` is `src/ujson/python/`.

## 1. Inventory

UltraJSON is a CPython extension: a generic C encoder and decoder (`lib/`) that
know nothing of Python, and a binding (`python/`) that gives them callbacks. It
is sequential. Nothing is persisted and nothing is sent: what makes it hard is
that every callback may fail, that failures travel through two channels (an
`errorMsg`/`errorStr` of the C library and the pending Python exception), that
references are counted by hand along every error path, that several small
pieces of state are reused for different purposes, and that scans and appends
are unchecked and rely on something established elsewhere.

| component | state | operations | what makes it correct |
|---|---|---|---|
| decoder core, `lib/ultrajsondec.c` | `DecoderState` (`start`, `end`, `escStart/End/Heap`, `lastType`, `objDepth`), the C stack, `errorStr` | `JSON_DecodeObject`, `decode_any`, `decode_array`, `decode_object`, `decode_string`, `decode_numeric`, `decode_true/false/null`, `SkipWhitespace`, `SetError` | accepts exactly the JSON texts within the depth limit, builds the object they denote, releases what it built on every error path, bounds its recursion, stops at the NUL |
| decoder binding, `python/JSONtoObj.c` | reference counts, the pending exception, the pinned argument, the s2d converter | `JSONToObj` and the 18 callbacks of `JSONObjectDecoder` | returns an object or raises, exactly one; frees what it acquired |
| encoder core, `lib/ultrajsonenc.c` | `JSONObjectEncoder` (`level`, `errorMsg`, the buffer), the C stack | `JSON_EncodeObject`, `encode`, `Buffer_*` | writes the text of the object graph; stops at the first error; bounds its recursion |
| type contexts, `python/objToJSON.c` | one `TypeContext` for each `encode()` (`newObj`, `dictObj`, `itemName`, `itemValue`, `index`, `size`, `utf8BytesObj`, `rawJSONValue`) | `Object_beginTypeContext`, `Object_endTypeContext`, `*_iterNext`, `*_iterEnd`, `Dict_convertKey`, `default=` | each context releases what it owns; every dictionary is iterated completely, sorted on demand; `default=` ends |
| encoder binding, `objToJSON` | converter, separators, the stack buffer of 65536 bytes | argument checks, `JSON_EncodeObject`, final checks | returns a str or raises, exactly one |
| output buffer, `lib/ultrajsonenc.c:116-182` | `start`, `offset`, `end`, `heap` | `Buffer_Realloc`, `Buffer_Reserve`, the `Unchecked` appends | each append is covered by a reservation; blocks are freed; growth is linear |
| string codec | UTF-8 and `\u` state of one string | `decode_string`, `Buffer_EscapeStringValidated`, `Buffer_EscapeStringUnvalidated` | decoding inverts encoding; surrogates pair exactly when adjacent; overlong forms are refused |
| number codec | 64-bit accumulator | `decode_numeric`, `decodeDouble`, `Buffer_AppendLongUnchecked`, `Buffer_AppendUnsignedLongUnchecked` | the value written, also at 2^31, 2^63, 2^64 and beyond |
| file API | the file object | `JSONFileToObj` (`load`), `objToJSONFile` (`dump`) | writes at most once and only what was encoded completely |
| module state, `python/ujson.c` | `modulestate.type_decimal`, the global `JSONDecodeError` | `PyInit_ujson`, `module_traverse`, `module_clear`, `object_is_decimal_type` | the exception raised is the one the module exports |

How they interact: `JSONToObj` and `objToJSON` fill a table of function
pointers and call `JSON_DecodeObject` and `JSON_EncodeObject`; these call back
through the table for each value. Nothing else is shared. `dump` and `load`
call `objToJSON` and `JSONToObj`. Python code runs inside callbacks
(`default=`, `toDict`, `__json__`, `__str__`, `__hash__`).

The hazards, each with its line and with the properties that watch it, are the
list `hazards` of `PROJECT.json`.

## 2. Modules

| module | models | role |
|---|---|---|
| `JSONDecoder` | `lib/ultrajsondec.c` with `python/JSONtoObj.c` | one call of `loads` as a state machine |
| `JSONGrammar` | nothing of the code | the JSON grammar by the places its phrases occupy in a text, and the text of an object: the reference of the decoder (`DecodesGrammar`) |
| `JSONText` | nothing of the code | abstract specification: a reader of JSON texts, one character at a time |
| `JSONDecoderText` | | the refinement mapping from `JSONDecoder` to `JSONText` (`ReadsText`) |
| `MCJSONDecoder` | | documents for TLC, and what is expected of a view |
| `JSONEncoder` | `lib/ultrajsonenc.c` with `python/objToJSON.c` | one call of `dumps` as a state machine, output in tokens |
| `JSONOutput` | nothing of the code | abstract specification: a writer of JSON texts, one token at a time |
| `JSONEncoderText` | | the refinement mapping from `JSONEncoder` to `JSONOutput` (`WritesText`) |
| `JSONReference` | nothing of the code | the text an object graph stands for, the reference of the encoder |
| `MCJSONEncoder` | | object graphs and options for TLC |
| `EncBuffer` | `Buffer_Realloc`, `Buffer_Reserve` and every append of `encode()` | the output buffer by length |
| `Unicode` | external | UTF-8 and surrogate pairs as CPython and the standard define them |
| `StringReader` | `decode_string` | one string, byte by byte, into code points |
| `StringWriter` | both `Buffer_EscapeString*` | one string, byte by byte, into escapes |
| `StringCodec` | `dumps` then `loads` of a string | composes the two through CPython's UTF-8 decoder |
| `StringText` | nothing of the code | what the text of a JSON string means, the references of the codec |
| `NumberReader` | `decode_numeric` | one number, byte by byte, into a constructor call |
| `IntegerWriter` | the int branches of `beginTypeContext`, `Buffer_Append*Long*` | one int into digits |
| `NumberCodec` | `dumps` then `loads` of an int | composes the two |
| `FileApi` | `objToJSONFile`, `JSONFileToObj` | calls of `dump` and `load` interleaved on one file |
| `ModuleState` | `PyInit_ujson`, the module state, the global exception class | imports in several interpreters |
| `MCEncBuffer`, `MCStringCodec`, `MCNumberCodec`, `MCFileApi`, `MCModuleState` | | instances for TLC and reference definitions |
| `JSONDecoderProofs`, `JSONDecoderTextProofs`, `JSONEncoderProofs`, `EncBufferProofs`, `StringProofs`, `NumberProofs`, `FileApiProofs`, `ModuleStateProofs` | | theorems, section 5 |

Definitions marked "Mutant" belong to no specification: each is its successor
with a plausible bug, and documents which property that bug violates.

The modules meet at these seams. A literal is one character of `JSONDecoder`
and one token of `JSONEncoder`; what its bytes do is in the codec modules.
`EncBuffer` writes up to `ReserveString(n)` bytes for a string of `n` bytes, which
`SixPerByte` of `StringWriter` justifies, and at most `Fixed` for a number, which
`CharsBounded` of `IntegerWriter` does. `EscapesFit` of `StringReader` is about the
buffer of one code point for each byte left, which `ReserveEscapes` of
`JSONDecoder` asks for. `FileApi` takes a call of `loads` or `dumps` for one step
with one outcome, which `Outcome` of the two state machines is.

### JSONDecoder

The C stack of `decode_array` and `decode_object` is the variable `stack`; a
frame holds the locals `newObj` (`obj`), `itemName` (`name`) and `len`. `pc`
says where the innermost function is: entering `decode_any` (`any`), at the head
of a loop (`loop`), before the colon (`colon`), after an element (`sep`),
returning from `decode_any` with `ret` (`return`), in `JSON_DecodeObject`
(`skip`, `tail`) and in `JSONToObj` (`call`, `binding`, `done`). Each step runs
from one of these points to the next; white space is skipped a character at a
time, and calling a decoder and the decoder itself are one step each. Since no
other thread touches this state, coarser or finer steps would show the same.

A literal is one character of the document. The classes of `Chars` are what the
control flow tells apart: a string (`s`), a string that `decode_string` refuses
(`q`), another scalar (`n`), a refused literal (`x`), a number of which
`dconv_s2d` consumes nothing (`z`), a byte that starts no value (`j`), white
space and the six structural characters. Behind the document comes the NUL of
a Python object, or, in a view (`Views`), other bytes of the same buffer.

`heap` holds the Python objects made so far, with the number of references the
C code owns (`refs`) and the contents of containers (`kids`). References that
Python containers own are not counted: they are not the C code's to release.
Singletons (`True`, `None`, small integers) count like fresh objects, since the
code treats them alike. `Failures` names the callbacks that may fail, at any
call: `newScalar` (no memory; an integer of more digits than Python converts),
`addItem` (no memory; a `MemoryError` in `PyDict_SetItem`), `malloc` of the
escape buffer, `encode` of the argument. A failing `newArray` or `newObject` is
not modelled: the code does not check for it.

### JSONEncoder

The Python objects are a graph, with cycles and sharing, that is constant
during the call. A frame is an activation of `encode()` with its `TypeContext`;
`slots` is the set of references the context owns (`context` itself, `newObj`,
`dict`, `name`, `raw`), and `lost` collects those that no one released. `pc`
distinguishes the head of `encode()` (`encode`), the switch of
`beginTypeContext` (`begin`), the loops (`next`) and the return (`return`).
Output is a sequence of tokens. An object has a kind by the branch of
`beginTypeContext` it takes; `toDict`, `json` and `object` carry what the method
or `default=` returns, or nothing if it raises. Keys are ranked strings, a key
that does not compare with others, one whose `__str__` raises, and bytes that
are not UTF-8.

The order of a sorted dictionary is any one of `Orders` that sorts its keys, of
which there is one; `Exhausted` is `iterNext` finding no further element.

Exceptions that are pending while encoding goes on are modelled exactly,
because beginTypeContext both clears exceptions and interprets them. `raised` is
history: what was raised so far, with `"silent"` when `encode()` was not told of it by
an `errorMsg`. `Leaks` names what two exits are known to leave behind: `INVALID`
frees the context but not `newObj`, and a failing `getStringValue` ends nothing of
the innermost context (`lib/ultrajsonenc.c:763`, `:923`); `NothingLost` is that nothing
else is ever lost, whatever fails. Bytes that `__json__` returns are copied as they
are, and found not to be UTF-8 only when `dumps` makes a `str` of its output. Whether an
attribute lookup of CPython keeps a pending exception depends on the type's
method cache; `AfterLookup` allows both.

### JSONText and JSONDecoderText

The abstract reader knows the position, the kinds of the open containers and
what may follow (`expect`), and rejects at the first character that may not. The
mapping computes these from the decoder's `start`, `stack`, `pc` and errors. Two
things make it more than a change of names. The decoder finds out that a key is
no string only after it has decoded it, whatever it is, and a container may even
get past that check: such a decoder is `Doomed`, which the reader has noticed at
the key's first character. And a callback that fails does not stop the decoder,
which goes on reading behind a pending exception: the reader has rejected.

### JSONOutput and JSONEncoderText

The abstract writer knows what it has written, the kinds of the open containers
and what it writes next (`expect`), and may give up. The mapping computes these
from the frames' `type` and `count`, the name and the place in `encode()`. It
gives up when an error is recorded, and when a callback has raised: an iterator
that fails makes `encode()` return without closing its container and without
`errorMsg`, and its callers go on writing.

### EncBuffer

`start`, `size` and `offset` are the buffer, with `size = end - start`; what is
encoded is chosen as the encoder goes, as names, texts, numbers and containers
of some length. Each unchecked append is one `Write` of its worst case, and a
`pc` lies between the `Reserve` and the `Write` it is meant for. `Buffer_Realloc`
is the loop `Double`, then `Allocate` or `FailToAllocate`, and returns to `after`.
`blocks` and `moved` are history: blocks of the heap in use, bytes copied.

### StringReader, StringWriter, StringCodec, Unicode

A step is one iteration of the loop of the C function. Strings, texts and output
are bytes; `out` has the code points. The C code compares pointers to see
whether a low surrogate escape directly follows a high one: `lastHigh` is that
pointer as an index. The order in which the bytes of a sequence or an escape are
read is kept, because nothing else keeps the scan from passing the NUL. In
`StringCodec` the text comes from the writer by `Pass`, where `dumps` makes a `str`
of it with `surrogatepass`, or is one of `Inputs` that `dumps` did not write.
`StringText` says what such a text means, without a scan and without `lastHigh`:
the width and the character at each place, `NoChar` where there is none, and two
adjacent characters `Paired` to one code point only if both are escapes. It follows
the code where that is more liberal than RFC 8259: `decode_string` takes control
characters other than NUL as they are (`g_decoderLookup`, `lib/ultrajsondec.c:343`),
and encoded surrogates, which `dumps` writes without `ensure_ascii`. The escape
functions do not make use of the first: `WellFormed` is that no control character
of their output is bare.

### NumberReader, IntegerWriter, NumberCodec

`intValue` counts modulo `Modulus`; `IntLimit`, `Half` and `Modulus` stand for 2^31,
2^63 and 2^64 and are constants, so that TLC meets them with four digits while
the theorems hold for any. `LongChars` and `ULongChars` are what the code reserves,
20 and 21; they are assumed to be enough for the limits of the types, 2^63 with a
sign and 2^64 - 1, in powers of ten. `value` is history: the unbounded number read so far.
In `IntegerWriter` an int is written as `JT_LONG`, `JT_ULONG` or, beyond both, as
`JT_RAW` text of `PyNumber_ToBase`. That, and `PyLong_FromString` in the reader, raise a
`ValueError` for more digits than `sys.get_int_max_str_digits()`
(`tests/test_ujson.py:792`, `:801`): `WriteDigits` and `ReadDigits` are that limit when
`dumps` and when `loads` is called, since a program may change it in between, and 0
is none. That `PyNumber_ToBase` may run out of memory is in `JSONEncoder`, as the failure of
`EncodeBigInteger`, which stands for both. Doubles are handed to double-conversion and
not followed further.

### FileApi

A step has at most one place where Python code may run, and sets at most one local,
so calls of several threads, or of a callback, interleave there, and each exit
finds the references acquired before it. `owned` counts the references each C local
owns, and `Balanced` says which at each place. Interleaving matters little to
`WholeDocuments`, because `write` is the only step that touches the file: what could
break it is a second call of `write`, a call with part of the text, or one before
the encoding has succeeded. `write` may raise having written nothing, part
(`torn`) or all; a file only grows.

### ModuleState

Interpreters take turns at the import of `decimal` and between calls. `refs`
counts references to each exception class made: one for each module that
exports it and one for the global that names it; a class the global no longer
names keeps the reference that was the global's, which is what the code does. A
failed import leaves the global NULL, which names no class. `decimal` is the module
state; `StateReleased` watches that an import which fails behind it releases it.

## 3. Runs

| run | instance | shows |
|---|---|---|
| `decoder_faults` | 27636 start states: all documents of up to 3 characters of all 13 classes, of up to 4 structural ones, of up to 3 inside `[ ]` and behind a key, all one-character edits of seven documents of up to 15 characters; depth limit 2; escape buffer of 1; all callbacks and allocations may fail | references, resources, outcome, depth, both error channels, the language and the object are the grammar's, the abstract reader is implemented, `loads` returns |
| `decoder_view` | views of buffers of up to 4 characters | violated, see findings |
| `encoder_faults` | graphs of four objects: a list of two, which share a third, which may refer to the root; all pairs of scalars, containers and custom objects, and each kind with each failure; recursion limit 3, `default=` limit 2; failing allocations | level, outcome, error channels, ownership up to the known leaks; the output is the reference text, and there is none where that has none; the abstract writer is implemented; `dumps` returns |
| `encoder_null`, `encoder_sort`, `encoder_invalid` | the graphs that show it | violated, see findings |
| `encbuffer` | three formats, a first buffer of 3 bytes, `Fixed` 2, texts of 0 and 1 bytes, containers of up to 2 elements nested to 2, failing `malloc` | every append is reserved for, growth is linear, blocks are freed, `dumps` returns |
| `string_codec` | strings of up to 3 of 14 characters and of up to 2 with 12 kinds of broken bytes, eight option sets; texts of up to 4 of 11 characters and escapes, and of up to 3 with 13 kinds of error | round trip; six bytes per byte; the output is the inside of a JSON string; decoding means what the text means |
| `number_codec` | ints from -1100 to 1100, and up to 12000 those next to a thousand, with types of 4 and 8 bits and digit limits of 4 and 3; all numbers of up to four digits, signed or not, and the words | round trip or refusal beyond the limit, exact overflow, the constructor fits |
| `module_imports` | two interpreters, four classes, every failure | the class `loads` raises is alive and stable; no module state is left behind |
| `module_global` | two interpreters, two classes | violated, see findings |
| `file_calls` | two dumps and a load on one file, every failure | balanced references, whole documents |

Bounds. `MaxDepth = 2`, `RecursionMax` of 2 and 3 and `DefaultMax = 2` scale 1024,
1024 and 3 down; documents and graphs reach one level beyond each limit, which
is where counters could be wrong. `EscStack = 1` makes the second string and
longer documents need the heap. The edits of the seed documents put an error at
every position of a nested document, so every error path is taken with up to
two containers, a pending key and earlier elements on the stack. A frame never
looks further than its own locals and the value just returned, so two levels
and two siblings already show every combination a frame can be in. The first
buffer of 3 bytes is outgrown several times over by one string, and its
neighbours at every alignment; 8-bit integers reach the limits of each type,
and numbers beyond 2^64, with three and four digits; the digit limits of 4 and 3
are met by ints that no type holds, those between being written and not read. Pairs of surrogates need
two escapes and what could come between them: three and four units.
`decoder_faults` has `Views = FALSE`: with a view, `ReadsText` and `DecodesGrammar`
do not hold, and `decoder_view` shows why.

The types of the codecs' variables are not checked by a run of their own: the
theorems `ReaderTypeCorrect` and `NumberTypeCorrect` state them.

Deadlock is not checked: a call that has returned is meant to stop. That it
does not stop earlier is what `Returns` of three runs checks.

Fairness. `FairSpec` is weak fairness of `Next`: a C function that can run runs
on, and the callbacks it makes return. Nothing else is assumed. In `EncBuffer`
objects are finite (`MaxCount`). `FileApi` and `ModuleState` have none: their calls
wait for code outside of UltraJSON.

## 4. Findings

- `encoder_null`: an exception raised by a key's `__str__` or by a conversion
  to float can be dropped, and `dumps` returns a str. Example:
  `dumps([Decimal('sNaN'), 2**63])` returns `[-1.0,9223372036854775808]`.
- `encoder_sort`: with `sort_keys`, a dictionary returned by `default=` is
  written as `{}`, since the sorted iterator takes `newObj == NULL` for its
  first call.
- `encoder_invalid`: what `default=` returned is leaked when it cannot be
  encoded; a comment in `encode()` says that `beginTypeContext` cleans up.
- `decoder_view`: a view of a longer buffer whose text is followed by white
  space behind the view is refused as "Trailing data", since the last
  `SkipWhitespace` does not stop at `ds.end`.
- `module_global`: `loads` raises the `JSONDecodeError` of the interpreter that
  imported ujson last.

Also met while modelling, and not runs of their own: a failed reallocation is
only recorded in `errorMsg`, and most callers of `Buffer_Reserve` write on
(`Covered` therefore speaks of the time before that); if `realloc` fails, the
old block is not freed (`Released` therefore needs `"realloc" \notin Failures`); a
minus sign without digits is the number 0 to `decode_numeric` (`NumberExact`
allows it).

## 5. Proofs

All theorems hold for every value of the constants; `ReadsTextCorrect` and
`DecodesGrammarCorrect` alone ask for one of them, `Views = FALSE`. The assumptions
(`DecoderAssumption`, `EncoderAssumption`, `BufferAssumption`, `ReaderAssumption`,
`WriterAssumption`, `NumberAssumption`, `CodecAssumption` and those of `FileApi`
and `ModuleState`) type them, and relate the widths of integers to each other
and to the characters reserved for them; TLC evaluates them in the runs.

The decoder:

- `JSONDecoderProofs`, first part: `TypeCorrect`, `OutcomeCorrect`, `DepthCorrect`
  and `FirstErrorCorrect`. None is inductive by itself. The invariant `Control`
  joins `TypeOK` and `Outcome` with what holds between control points: the loops
  run in an activation and the rest in none (`Activations`); nothing has been
  returned and nothing went wrong while decoding goes on (`GoingOn`); a message
  comes with NULL (`ErrorIsNull`) and NULL with a message or an exception
  (`NullIsError`), which is what makes the three checks of `JSONToObj` produce one
  outcome; the depth is also right while an object, but not NULL, is being
  returned (`Depth`): on error paths the counter is not restored, and that is
  harmless only because nothing decodes afterwards; a frame has a key only
  between the key and its value (`Keys`), and its variables point to objects that
  exist (`Pointers`).
- Second part: `RefsCorrect`. That every count is right does not follow
  through a step that releases the container and the pending key of a frame
  unless these are different objects and no outer frame owns them too. `Refs`
  says so: no two variables of the frames own the same object, `ret` owns none
  that a frame owns, and the count of an object is 1 when `ret` or a frame owns
  it and 0 otherwise. One lemma for each way of a step to move or drop a
  reference, joined by `RefsStep`.
- Third part: `NulCorrect`, `HeldCorrect`, `GrowsOnceCorrect`,
  `ExceptionCorrect` by the invariant `Reading`, and `StringKeysCorrect` by `Shape`.
  `Reading` says that without an error the scan is not behind the NUL, that the
  heap escape buffer is as long as what is left (so it never grows again), and
  what is held at the ends of a call. `Shape` is why the check of `lastType`
  suffices: it lets a container through as a key, but a container that was made
  a key was never a scalar, `lastType` is that of the scalar just returned, and
  `objectAddKey` of an unhashable key raises without adding it.
- `JSONDecoderTextProofs`: `ReadsTextCorrect`, the decoder implements `JSONText`
  when its argument is no view. Until the reader rejects, every step is one of
  its steps or a stutter; after it rejected, `RejectedStays`: a doomed decoder,
  or one with a pending exception, cannot become sound again whatever it
  decodes.

`DecodesGrammarCorrect` (in the same module) is the whole of what `loads` promises:
it returns an object exactly for the texts of the grammar, and then the one the
text denotes, for every document, depth and choice of failing callbacks. Like
`ReadsTextCorrect` it is about arguments that are no views (`Views = FALSE`), because
for views the code does not do this (run `decoder_view`). The grammar knows no
order of reading: a phrase is the set of its occurrences in the stripped text, the
values are given by the depth that is left. The proof needs two invariants, both
over `Control`, `Reading` and `Shape`.

- `Judged`, for the language: a decoder without error or doom is at a place from
  which its text can still be completed (`Completes`) exactly when its argument is
  a text; one that rejected has an argument that is none; one that `Failed` had a
  callback, an allocation or the argument fail. What can be completed is said with
  continuations: `Rests` gives for each open container the set of places from which
  the text goes on behind one of its elements, and `Leads` says that the place is
  one where what is expected, and then those, can follow. Each character read
  moves the place without changing that (`ScalarLeads` to `CloseLeads`, one lemma
  for each kind of character), and `StepsClean` says what the steps of the decoder
  read. So `loads` decides as the grammar does although it never looks
  ahead, also at the limit of the depth.
- `Builds`, for the object: if the argument is a text, there are places `a` and `b`
  of every object made so far between which it stands in the stripped text. A
  container that is complete has its items one behind the other, with the right
  characters in between, up to its bracket (`Spans`, `Laid`); one that is being
  built begins where the activation below it waits for an element (`Placed`), and
  the character due there is a comma, a colon or a bracket (`Awaits`); the value
  just returned ends where the scan is (`Standing`). As objects only refer to
  objects made after their container, the text of an object is what lies between
  its places (`RenderedLies`), by induction over the levels that are left.

The encoder (`JSONEncoderProofs`): `TypeCorrect`, `LevelCorrect`, `OutcomeCorrect`,
`NothingLostCorrect`, `ErrorStopsCorrect`, by one invariant `Inv`. A frame that is
returned to must still be able to go on, so `Contexts` says of every frame, not
only of the innermost, that its object has as many items as its `size` and its
order consists of keys of its dictionary, and that only an iterator over a
dictionary owns `name` and `dict`, which `endTypeContext` does not release.
`Classified` says that only the innermost object may be without a type, `GoesOn`
that no code but that of returning runs with an error recorded, which is what
`level` (wrong after some errors) and `ErrorStops` rest on, and `Accounted` that
only the slots of `Leaks` are lost, together with the message of the exit that loses
them, hence none by a `dumps` that returns a str, and that an exception is either
silent or comes with a message. `WritesTextCorrect`: the encoder implements `JSONOutput`. Each
action is a step of the writer (`EncodeElement` the separator, `BeginTypeContext`
the name, `Begin*` the bracket) or a stutter, or makes it give up, after which it
stays given up; that a bracket is closed by its own follows because a step
touches no frame but the innermost.

`EncodesReferenceCorrect`: `dumps` returns the text of `JSONReference`, or raises when
that has no text, for every object graph, with cycles and shared objects too. It
says nothing of three things. A call in which an allocation failed, or the conversion
of a big int, may raise although there is a text. If `default=` makes a dictionary, or an
object with `toDict`, under `sort_keys` (`DefaultMadeDict`), the output is wrong, as
`encoder_sort` shows; other uses of `default=` with `sort_keys` are included. And
where an exception was silent, `dumps` may return a str that is no reference text,
as `encoder_null` shows, but only where there is none: all other failing callbacks,
and objects that nothing makes JSON of, make it raise, and no failure of a callback
or of a conversion happens where there is a text. What
an object stands for is a recursive function of the levels that are left and of
the calls of `default=` that are left, so it is defined for cycles: there it ends
in an error, as the program does. The invariant is `Follows`. Without an error
(`OnTrack`), the output, followed by the text of what is being written (`Now`) and by
what is due of each open container from the inside out (`Due`, by `FrameRest`: the
elements behind `index` and the bracket), is the expected text; `Placed` says that
an iterator is where its counters say, which for a sorted dictionary includes that
keys were sorted before the first was written; and `Counted` that `index`, by which
an element is found, is one ahead of `count`, by which its comma is written, exactly
while that element is being encoded. With an error, the expected text has a token
that is no JSON. The same of exceptions is a second invariant, `Refuses`: the first
one is raised on an object whose text is an error (`ClassifyRefuses`) or in a
dictionary of which what is due has one (`IterateRefuses`), and that remains so. A scalar moves its token from `Now` to the output (`TrackWrite`), a
bracket opens a container (`TrackOpen`), an element moves from what is due to what
is being written (`TrackElement`), the last bracket closes it (`TrackClose`). That
there is one order of keys that sort (`OrderExists`, `OrderUnique`) and that the
recursive functions of the reference satisfy their equations (`MadeFacts`,
`RestFacts`, `TextsFacts`) is proved by induction in the way described for powers of
ten below.

The output buffer (`EncBufferProofs`): `TypeCorrect`, `CoveredCorrect`,
`MovesCorrect`, `ReleasedCorrect`. `Ready` says for each place behind a reservation
how much room there is, or that `Buffer_Realloc` is making it; it is inductive
only with `Levels`, that `enc->level` is the depth of the recursion, and
`Reserves`, that what a loop reserves for its elements, computed once before the
level is counted up, is what their indentation takes.

Strings (`StringProofs`): `ReaderTypeCorrect`, `EscapesFitCorrect`,
`PairsWithHighCorrect`, `SixPerByteCorrect`, `WellFormedCorrect`, for the codec, of
any text and any string, by an invariant of each half: in the reader, `lastHigh`
is not ahead of the scan; in the writer, what is written is `Inside` a string.
That is kept because what a step appends is itself the inside of a string, and
two such pieces joined are one (`InsideJoined`): the places where escapes start
are those of the first and, shifted, those of the second.

`DecodesTextCorrect`: of every text, `decode_string` returns the characters it
means, paired, or fails if it is not a string. The invariant is `ReadsChars`: the
characters read so far, followed by `CharsFrom(text)[pos]`, are `Chars(text)`; `out`
is what was read, paired; and `lastHigh = pos` exactly when the character read
last is an escaped high surrogate that has not been paired, which is what the
comparison of pointers stands for. It rests on `SequenceIsCharacter`, that the
masks and minima of the C code accept exactly the sequences of `IsCharacter`
(the overlong forms refused by the value computed, not by the second byte), and
on the equations of the recursive functions (`CharsEquation`, `PairedEquation`).

`RoundTripCorrect`: what `dumps` has written of a string, put between quotes and read
by `loads`, is the string, or no str at all if the string is not UTF-8. It needs no
further invariant of the reader, because `DecodesTextCorrect` has reduced it to what
the text means; the writer's half is the invariant `HasTrace`. It keeps the places
of the string at which a step of the writer has started and where in the output
each of them wrote: either one byte, as `OneByte` writes it, or the escapes of a
whole character, and these only where the string has one (`AcceptedIsCharacter`:
what the masks, shifts and minima of the writer let through is a character, and
conversely). When the string is done, text and string are compared from the
front. A place is `Aligned` if the characters read before it in the text are those
of the string (`Alike`: the same when paired, with the same pending surrogate) and
what is behind it is UTF-8 in both or in neither. The first place is aligned; of
the aligned ones take the last: if it were not the end, a plain byte
(`PlainStep`), an escaped character (`EscapedStep`) or one that
`Buffer_EscapeStringUnvalidated` copied byte by byte (`CopiedStep`) would lead to
another, or there is no character in either (`NoneAligned`). That a copied
character is read as one although its bytes are copied in separate steps is
`CharacterCopied`: a step that does not start a character writes bytes below 128
only for a byte below 128.

Numbers (`NumberProofs`): `NumberTypeCorrect`, `OverflowCorrect` and
`NumberCorrect`, for `decode_numeric` on any text and at any width: the first
test fails exactly when the multiplication would pass the limit, and the second
is therefore made with numbers that did not wrap, or no longer matters.
`CharsBoundedCorrect` and `IntRoundTripCorrect` are about all ints in types of any
width and any limits on digits: up to the limit of `loads` the int that was written
is read, and beyond that of either function it is refused, which concerns only ints
that no type holds. While digits are written, last one first, what `uvalue` has been
before each of them is a function `d` whose steps are divisions (`Dividing`), and
what is left is below the power of ten there is room for (`Within`): a digit less
of the value makes room for a digit. Reversed, the same steps are the other way
around multiplications: the text is a `Numeral` of the number, with a `d` that
counts it up from the front, which is also what is shown of `PyNumber_ToBase`. In
the reader, `Reading` says that at each digit the accumulated value is what `d`
says there.

Powers of ten are a recursive function, and what is proved of them is proved by
induction: as the induction theorems of the library cannot be used (their
parameter is an operator), as an argument about the least number of which it is
false (`LeastNumber`, from `WFMin` and `NatLessThanWellFounded`). That the recursive
functions of `StringText` and `Unicode` satisfy their equations is shown in the
same way: there is such a function up to each place.

`FileApiProofs`: `BalancedCorrect`, `OutcomeCorrect`, `WholeDocumentsCorrect`, for
any set of interleaved calls, with an invariant that adds to the properties
which places belong to which function and that a call has no result before it
is done. `OutcomeCorrect`, that a call which is done returns a value or has raised,
is decided by the last step of each call and only proved. The step of one call
changes neither what another owns nor, since a file only grows at its end, what
another has written.

`ModuleStateProofs`: `NeverDanglingCorrect`, `ExportStableCorrect`,
`StateReleasedCorrect`, for any finite set of interpreters. References are compared with the number of modules that export
a class, a cardinality that each step changes by one or not at all; `Single` adds
that `PyState_FindModule` finds exactly the modules that export a class and that
an import under way has found none.

Only model-checked: liveness (`Returns` of the decoder, the encoder and the output
buffer), which needs fairness and ENABLED. Every invariant and every other action
property or refinement that a passing run checks is stated by a theorem.

## 6. Not modelled, and why

- Objects that change while they are encoded: `src/README.md:145` calls that
  unsupported, and what a borrowed reference to a freed item yields is
  undefined.
- A NULL from `newArray` or `newObject`, which the decoder does not check: it
  reaches undefined behaviour, and only when an empty list or dict cannot be
  allocated.
- What is written after a failed reallocation.
- double-conversion and its wrapper: vendored arithmetic; how it ends is an
  outcome of `DecodeScalar`, `EncodeNan` and `DecodeDouble`.
- `object_is_decimal_type`, which only reads the module state, and its variant
  for PyPy; argument parsing by CPython, wording of messages, option defaults.
- The build, the tests and the type stubs keep no state at run time.

## 7. Plan

Done: all components of section 1, in the modules of section 2, each with an
inductive invariant and the theorems of section 5.

Next, in this order:

1. An abstract specification of a call (one outcome, nothing kept) implemented
   by both state machines.
