# A TLA+ model of fwf

fwf reads fixed-width text (plain, gzip or zip; files, pipes or memory) into
Arrow record batches, in parallel, and writes them as CSV or Parquet. This
directory holds TLA+ modules that model it, TLC configurations that check them,
and proofs checked by TLAPS. Paths and line numbers refer to the repository
(`src/docs/design.md` is its design document).

## The system

| Part | State | Operations | Works with |
| --- | --- | --- | --- |
| Schema, options (`schema.rs`, `options.rs`, `error.rs`) | the fields so far, the columns picked | `from_json`, `with_columns`, the fields a parser takes | everything |
| Framing (`framing.rs`) | none (an iterator's position) | `strip_eof_marker`, `lines`, `after_lines`, `last_line_end`, `chunks` | both forms of reading |
| Slice reading (`read_impl.rs` `parse_slice`, `parse_wave`) | the chunks left | cut off the marker, the skipped lines and what is past `n_rows`; divide into chunks | framing; the pool |
| Stream reading (`parse_stream`, `parse_blocks`) | `buf`, `offset`, `records`, `rows_left`, `at_end` | read a block, carry its last line, count, skip, limit; a read error | framing; the input's reader; the pool |
| Parallel parsing (`batches`, `parse_wave`, `parse_blocks`) | the wave, its results, a line index per worker, the error latch | `next()`, parse a chunk | rayon's pool; the caller of `scan()` |
| Column building (`builder.rs`, `field.rs`, `parse_chunk`) | builders of one chunk, a scratch string | `column`, `value`, `parse_f64` | called per chunk; returns a column or the first error in it |
| Encodings (`encoding.rs`, `tables.rs`) | none | `decode` | column building, whose scratch it fills |
| Opening (`input/mod.rs`) | the bytes sniffed | choose the container, map, spool, decode | yields a unit: a slice or a stream |
| Zip members (`input/zip.rs`) | a running CRC-32 and size | choose and check a member | yields a unit |
| Entry points (`lib.rs`, `reader.rs`) | none | `scan`, `read` | parsing; the writer or the caller |
| CSV writing (`writer.rs` `write_to`, `write_csv`, `in_waves`, `Tracked`) | the wave, the read-ahead, the buffer, the last I/O error | format in parallel, write in order, read ahead | the batch iterator; the destination |
| Parquet writing (`write_parquet`, `encode`, `close_row_group`) | the open row group, the format writer's buffer | split rows into groups, encode and close columns in parallel | `in_waves`; the parquet crate; `Tracked` |
| File replacement (`to_file`) | a temp file | create, write, rename | the file system; other writers |
| Command line (`main.rs`) | none | `run`, the exit status | everything |

Data flows one way: an opened unit is cut into chunks or blocks, which the pool
parses a wave at a time when the caller asks; the writer asks from one side of
a `rayon::join` while the other side writes the wave before.

What is hard here is not any function but its meeting with the others: a block
is cut without knowing what the next holds, yet the records must be those of
the uncut unit; chunks are parsed out of order, yet results, record numbers and
the error reported must not show it; reading, formatting and writing fail
independently while running at once, and an error that comes late must not hide
the one that came first; and memory must stay bounded throughout.
`PROJECT.json` lists these hazards at their lines.

What makes each part correct:

- layouts: the fields read are those asked for, by name and at their place; a
  layout is refused for its first fault and never for none; an end of field
  that is accepted can be computed;
- reading, of either form: exactly the records asked for, once, in order,
  numbered by line and placed by byte, the same in both forms; a unit that
  breaks off fails, without anything false before that;
- opening: every byte handed on once, whatever the source and however short its
  reads; the container told from the bytes alone;
- zip members: nothing taken for whole that its header contradicts, and nothing
  intact refused;
- values: each record's own, from its own bytes; an error placed at the very
  byte;
- parsing: one chunk's own result per call, in order, up to the first failure,
  then `None`; no more than a wave ahead; every call returns;
- `read()`: all the batches or the first error;
- writing: the output of writing batch after batch; the result tells how it
  ended; no more than two waves held, three with the parser's; it ends;
- Parquet: the row groups of a single writer, however fields are encoded and
  closed; bytes in order through two buffers; no refusal taken for success;
- files: replaced whole or left alone;
- the command: nothing touched in vain; the exit status tells what became of the
  output.

## The modules

| Module | Models | Its state and steps |
| --- | --- | --- |
| `Framing` | `framing.rs` | Operators only. Offsets count from 0; a byte is one of `LF`, `CR`, `SUB` or any other. Lines are defined by where they start, not by the iterator's walk, so that lines can be counted in a proof. |
| `UnitRecords` | the promise of reading a unit | `delivered` grows along `Wanted`, the records cut out of the whole unit at once, until `done` or, if the unit is broken, `failed`. |
| `StreamBlocks` | `parse_stream`'s `read_block`, `parse_blocks`' choice of lines | A turn of the loop is one of `ReadError`, `LongLine`, `CutBlock`; the end of it is `Finish`. Variables have the closure's names; `pos` is the reader's. |
| `SliceChunks` | `parse_slice`, `chunks`, `parse_wave`'s numbering | `NextChunk` is a turn of the iterator over `Window`. |
| `BothWays` | the same unit read in both forms | `Stream`, then `TakeSlice`. |
| `Layout` | `from_json`, `with_columns`, the fields of `Parser::new` | A turn of `from_json`'s loop is `AddField` or `RejectField`, of `with_columns`' `PickName` or `RejectName`; `EndSchema`, `EndCall` and `NewParser` are the code around them. |
| `Columns` | `parse_chunk`, `builder::column`, `field::value`, `decode` | A turn of a builder's loop is `AppendValue` or `Fail`; `EndColumn` and `EndChunk` are the code around it. `decode` borrows ASCII and fills `scratch` with the rest. Chunks are parsed one after another. |
| `ParseByLayout` | both, one after the other | `MakeParser`, then `ParseUnit` with the fields it made. |
| `OpenUnit` | `input::open`, `sniff`, `from_file`, `spool`, `Detect` | `Get`, then reads of the head as short as the source likes, `Place`, and whoever reads or spools: `ReadHead`, `ReadSource`, `ReadEnd`. |
| `ZipMember` | `zip::member`, `Checked` | `Choose` and the header's checks, then a `read` of `Checked` per `Read`, and `ReadEnd` at the empty one. |
| `BatchIterator` | the promise of `scan()`'s reader | `Ask`, `Answer`, `AnswerNone`. |
| `ParserWaves` | `batches`, the waves of both forms, the pool | The caller's call runs `Deliver`, `AnswerNone`, `TakeChunks` (slice), `ReadBlock` and `StartWave` (stream), `FinishWave`; each worker runs `StartChunk` and `FinishChunk`. A chunk is its place and its fate. |
| `ReadWhole` | `read()` | `AskForAll` and `Collect` over `ParserWaves`, then `Join`. |
| `SequentialWrite` | the promise of `write()` for CSV | Texts reach the destination in order; a result only when it is true. |
| `WriteWaves` | `write_to`, `write_csv`, `in_waves`, `Tracked` over a `BufWriter` | `Reader` and `Writer` are the two sides of the join; `Main` is the code around it. |
| `Pipeline` | `scan()` in the hands of a caller, of `read()` and of `write()`; `write()` of another reader | `ParserWaves` and `WriteWaves` (and `ReadWhole`) side by side. They meet in `AskForBatch`, `GiveBatch`, `GiveEnd` and `StopAsking`, which are steps of both. |
| `OneWriter` | the promise of writing Parquet | The row groups one `ArrowWriter` makes of the rows, column after column, and the footer after all. |
| `RowGroups` | `write_parquet`, `encode`, `close_row_group` | A turn of the inner loop is `SlicePiece`; each field encodes its pieces and closes its column on its own, and the columns are appended in `AppendOrder`. |
| `ParquetOutput` | the format writer's `BufWriter`, `Tracked` and its own, the end of `write_to` | A write of the format writer is `Gather`, `Straight` or `Empty`; then `Flush`, `Unwind` (its drop) and `Drop` (`Tracked`'s). |
| `AtomicReplace` | the promise of writing to a file | `Replace` or `Leave`. |
| `FileReplace` | `to_file`, for several writers | `Create` to `Rename`, with `Kill` anywhere. |
| `Convert` | `main`, `run` | `Start`, `ReadLayout`, `Scan`, then writing on the promise of `SequentialWrite` (CSV) or with `EndParquet`, then `FileReplace`'s steps for `-o`; other writers step in between. |
| `BothWaysProofs`, `ParseByLayoutProofs`, `OpenUnitProofs`, `ZipMemberProofs`, `PipelineProofs`, `RowGroupsProofs`, `ParquetOutputProofs`, `ConvertProofs` | | Lemmas and theorems; no definitions of the system. |
| `MC...` | | The instances TLC checks. |

The abstract specifications (`UnitRecords`, `BatchIterator`, `SequentialWrite`,
`OneWriter`, `AtomicReplace`) model no code: each states a promise the
documentation makes, and the detailed module instantiates it and is shown to
implement it. `Pipeline` shows more than its parts: that `WriteWaves` over
`ParserWaves`, two machines sharing threads, still implements `SequentialWrite`,
and ends. `OpenUnit` ends where bytes are handed to a decoder, a zip's index or
the parser; `ZipMember` ends in "whole", "stopped" or "failed", the last of which
is the unit that breaks off in `StreamBlocks`. `Columns` says what the fate of a
chunk in `ParserWaves` is made of, on the chunks of `Framing`. `Convert` takes
of writing only what `SequentialWrite` promises, and of Parquet what
`ParquetOutput` leaves of it.

An operator after a comment that begins with `Mutated:` is not part of the
model. It is a plausible mistake in the definition after it, kept to show that
a property notices: `PROJECT.json` pairs each property with one.

### Abstractions

- A turn of a loop that only its own thread can see is one step; whatever other
  threads, the environment or a failure can come between is a step of its own.
- rayon deals chunks, batches and fields to workers in any order; the model lets
  any idle worker take any chunk of the wave, and any field go on, which
  includes every schedule of rayon's.
- The decoders of gzip and zip members are the bytes they give and how they
  end; a CRC-32 is a parameter, `Crc`, that different bytes may share.
- A `Float64` is any sequence of bytes of a set: which byte strings are numbers
  is `parse_f64`'s and the standard library's. A blank value of either type is
  null. An encoding is a table from the bytes above ASCII to texts, which may
  lack some.
- serde has parsed the JSON of a layout: a field is a record, and a position or
  a length any natural number.
- CSV texts are whole: a text of which the destination took a part counts as not
  taken. A `BufWriter` that fails keeps what was not taken and its drop tries
  again. The destination may refuse any write and take a later one. In
  `ParquetOutput`, where parts matter, bytes are counted one by one.
- A text larger than the 1 MiB buffer goes past it; whether batches' texts are
  is a parameter of the job, as both are usual. The parquet crate's writes are
  smaller than that buffer (`OutputAssumption`).
- A Parquet row is its place in the input; a field has one leaf column, as the
  two types of fwf do.
- Panics and failed allocations are left out; every chunk fits its builder.

## What the runs check

| Run | Configuration | Shows | Bounds |
| --- | --- | --- | --- |
| `stream` | `MCBothWays.cfg` | `ReadsTheUnit` (implements `UnitRecords`), `ReadsTheSame`, `NumberedByLine`, `CarryIsOneLine`, `StopsAtTheLimit`, `ChunksReachSize`, `NoOverflow`, `Ends`, types | every unit of up to 4 bytes over `LF CR SUB` and one other byte, whole or broken off at its end, sizes 1 to 3 and `UsizeMax` = 9, `skip_rows` 0 or 1, `n_rows` 0 to 2 or none |
| `stream_limit` | `MCBothWaysLimit.cfg` | a counterexample to `NothingPastTheLimitFails` | the same |
| `open` | `MCOpenUnit.cfg` | `NothingLost`, `AllHandedOn`, `SameContainerForSameBytes`, `Opens` | files, pipes, bytes and readers holding prefixes of up to 6 bytes of archives, gzip members and plain texts that begin like them; each container asked for, or none |
| `zip` | `MCZipMember.cfg` | `WholeIsAsRecorded`, `IntactIsRead` | data of up to 3 bytes of 2 values, a CRC-32 that is their parity, so that it collides; blocks of 1 or 2 bytes; headers that are right, wrong in size or CRC-32, encrypted, out of the archive or of an unknown method; folders and other members beside it |
| `zip_stored` | `MCZipMemberStored.cfg` | a counterexample to `WrongSizeFails` | the same |
| `columns` | `MCParseByLayout.cfg` | `ReadsAsAsked`, `RefusesTheFirst`, `HoldsTheCells`, `PointsAtTheByte`, `FirstOfItsColumn`, types | every unit of up to 4 bytes over `LF CR`, a space, a digit, an accented letter and a byte one encoding does not define, chunk sizes 1 and 3, layouts of two overlapping fields and of one, with all, one and no column asked for, both encodings; and layouts of up to 3 fields with each fault there is, names repeated or not, up to two calls of `with_columns`, `U32Max` = 3, `UsizeMax` = 15 |
| `columns_order` | `MCParseByLayoutOrder.cfg` | a counterexample to `FirstErrorOfTheUnit` | units of up to 5 bytes over 4 |
| `pipeline` | `MCPipeline.cfg` | `IteratesInOrder` (implements `BatchIterator`), `AheadByAWave`, `NothingAfterAnError`, `GivesAllOrTheFirstError`, `ConvertsInSequence` (implements `SequentialWrite`), `HoldsThreeWaves`, `NoReadAfterARefusal`, `EveryClientReturns`, types | 2 workers with 1 chunk each, writer's waves of 3, a buffer of 2 texts, 2 kinds of refusal at any write; a caller of units of up to 5 chunks of any fate; `read()` of up to 3 chunks with text in 2 columns and `Cap` = 3; `write()` of up to 7 batches of its own; `write(scan())` of up to 10 chunks, one of which may fail |
| `groups` | `MCRowGroups.cfg` | `WritesAsOneWriter` (implements `OneWriter`), `Terminates`, types | groups of 2 rows, 2 fields, up to 2 waves of up to 2 batches of up to 5 rows, ending well or not |
| `parquet_output` | `MCParquetOutput.cfg` | `FirstBytes`, `OkIsAll` | every sequence of up to 5 writes of 1 to 3 bytes over buffers of 2 and 4, every refusal of every part, and every way to end |
| `parquet_pipe` | `MCParquetOutputPipe.cfg` | a counterexample to `ClosedPipeIsReported` | the same |
| `convert` | `MCConvert.cfg` | `SuccessIsWhole`, `TouchesNothingInVain`, `StatusTellsOfTheFile`, `ReplacesWhole` (both implement `AtomicReplace`), `OnlyTheKilledLeaveATemp` | every combination of format, output, terminal, `--force`, bad layout and bad input, up to 2 batches ending in either way, and 2 other writers of the same file |

Why the bounds are enough to be of use: 4 bytes in blocks of 1 make four
blocks, so a cut falls between a line ending and the marker, between `\r` and
`\n`, inside a line longer than several blocks, and exactly at the end; skipped
lines fill whole blocks, and the limit falls inside one. Ten chunks in waves of
2 and of 3 make full waves, short ones and an empty one on both sides, with the
parser's and the writer's never in step, and failures in and after each. Five
rows in groups of 2 fill two groups from one batch and leave a rest. Five writes
over buffers of 2 and 4 fill either, pass one by and leave a rest when the pipe
closes. A head of 4 bytes is read in every division of them, from sources
shorter, as long and longer; a zip member ends inside a block and exactly where
one does; 4 bytes make a short line, a blank one and a value with whitespace on
both sides, and two chunks of which either fails. Two other writers of a file are
enough for one to rename between two steps of the command, and a second to be
killed there. In each module nothing depends on the size of a unit beyond these
cases. For layouts, values and errors, the stream's blocks, the slice's chunks,
the parallel parser and the writer, alone and together, row groups, Parquet's
buffers, opening, zip members, replaced files and the command the proofs below
say so outright. The types are checked in `stream`,
`columns`, `pipeline` and `groups`; elsewhere the proofs alone state them.

`UsizeMax` stands for `usize::MAX`: it is `rows_left`'s start when there is no
`n_rows`, and the largest size; a slice is at most half as long, as Rust's are
(`isize::MAX`). `Cap` stands for `i32::MAX`.

Deadlock is not checked: every system here ends, and the caller of
`pipeline` may stop asking. Where something must not stop before its end a
liveness property says so.

### Fairness

- `BothWays!SpecBoth`: the loop goes on. The stream's caller asks again until
  `None`; a slice's chunks are collected at once.
- `OpenUnit!FairSpec`: the source answers and the reader goes on. No failure is
  assumed to happen, so waiting for bytes that never come shows.
- `Pipeline!SpecAll`: a call in progress goes on, each worker does, and so does
  each side of the join, which assumes that the input answers and that the
  destination takes or refuses. rayon's workers never leave a job of the pool's
  undone. Nothing is assumed of a caller between calls. An idle pipe does not
  answer: `rayon::join` then waits, even after the write has failed.
- `RowGroups!FairSpec`: slicing, encoding and closing go on; they wait for
  nothing but each other.

The other runs check safety alone.

### Findings

`src/docs/design.md:218` says of a stream with `n_rows` that "nothing past it is
parsed or can fail". `NothingPastTheLimitFails` says so, and TLC violates it in
one step: the read of a block fails as a whole (`read_impl.rs:138-145`), so a
truncated gzip stream or a CRC-32 mismatch within the block that also holds the
last line asked for fails the read. Past that block it is true:
`StopsAtTheLimit`.

`src/docs/design.md:212` says of a zip's member that data that fails "its size
or CRC-32" is an error. `WrongSizeFails` says so of the size, and TLC violates
it with a stored member: `input/zip.rs:61` compares its CRC-32 alone, so a
header with a wrong uncompressed size, whose CRC-32 still matches the data, is
read. Of compressed members it is true: `WholeIsAsRecorded`.

`src/docs/design.md:225` says that if several chunks of a unit fail, "the error
reported is the first in the unit". `FirstErrorOfTheUnit` says so, and TLC
violates it with a first chunk whose second line fails in the first column and
whose first line fails in the second: a chunk's columns are built one after
another (`read_impl.rs:222`), so the error reported is the first in the first
failing column. It is the first in its column whatever the chunks:
`FirstOfItsColumn`.

`src/src/writer.rs:62-64` says that a reader of stdout that stops reading ends
the write with an error of kind `BrokenPipe`. `ClosedPipeIsReported` says so,
and TLC violates it for Parquet: after the error the format writer is dropped,
which writes its own buffer once more; the write that failed had driven out a
part of `Tracked`'s buffer, so there can be room, and `Tracked` forgets its error
(`writer.rs:303`). The write then ends with an error of kind `Other`, and the
command with a failure instead of a success. No refusal is taken for success:
`OkIsAll`.

Two more disagreements are at sizes the model does not reach. On a 32-bit
target the sum in `field.rs:5` can exceed `usize`, though `schema.rs:80` says
that it cannot; `ReadsAsAsked` has it with a `UsizeMax` of at least twice
`U32Max`, where the comment is right. And a chunk with more than 2 GiB of text
in one column panics in Arrow's builder (`builder.rs:50`) instead of failing as
`design.md:155` has it.

## What is proved

Nothing in the proofs bounds units, sizes, layouts, options, workers, waves,
rows, archives, buffers or writers. Each theorem below holds of every behaviour
of the specification named with it; each rests on the `ASSUME` of its module,
which says what a job, a size or a kind of refusal may be, and on nothing else
but what is said here.

**`BothWaysProofs`: framing.** Lemmas that the others cite: slices of slices
(`SliceOfSlice`, `AdjacentSlices`); cutting after a line ending splits the count
of lines, by a bijection between the lines after the cut and their places in the
whole (`LineCountAtCut`); `memrchr`'s and `memchr`'s offsets exist, are the
greatest and the least (`LastLineEndIsLast`, `NextLineFeedIsNext`), by
well-foundedness of the naturals; the n-th line starts after n lines
(`NthLineStart`), for any n below their count; and a part that begins and ends
with a line has the whole's lines from there on, each with the same text
(`LineOfPart`), which is what makes chunks invisible. The last lemmas are of
`FlattenSeq`: it puts one more sequence after those before it (`FlattenAppend`).
Where a block or a chunk cuts, a line ends or the unit does (`AtCut`). Between
two such places lie exactly as many lines as the count before one exceeds the
count before the other (`PartRecords`), with the whole's texts, and at the whole's
offsets once the part's own is added; so the records of two parts on end are
those of both (`RecordsFromAppend`). Taking the end-of-file marker off the last
part is taking it off the unit (`StripPart`), which is why the code may ask
`offset > 0` for it.

**`BothWaysProofs`: streams and slices.** `TypeCorrect`, `BlocksNumberedByLine`,
`CarriesOneLine` and `StopsReading` say that `TypeInvariant`, `NumberedByLine`,
`CarryIsOneLine` and `StopsAtTheLimit` hold of `StreamBlocks!Spec`. They rest on
`JobsAssumption` (a unit is a sequence of bytes, a size is at least 1, which
`with_chunk_size` asserts), `UsizeAssumption` and `MarkersDiffer`.
`NumberedByLine` is not inductive: the next block's number is right only if
`records` is the number of lines before `offset`, which is preserved only if
`offset` is just past a line ending, so that no line is counted in two blocks.
The inductive invariant `IInv` adds both: `Carried` (while reading, `buf` is the
unit from `offset` to `pos`, `offset` follows a line ending, and `buf` has none)
and `Counted` (while reading with rows left, `records` counts the lines before
`offset`). `Counted` says nothing once `rows_left` is 0, where the code's count
really is short. `StopsReading` adds `Remaining`, which relates `rows_left` to
`records`: as long as rows are left, fewer than `skip_rows + n_rows` lines were
cut, so the next read starts before the end of the last of them
(`ReadsBeforeTheLimit`, from `NthLineStart`). `ChunksHaveTheirSize` and
`NoSizeOverflows` say that `ChunksReachSize` and `NoOverflow` hold of
`BothWays!SpecBoth`, from the same assumptions and that a size is a `usize`.
`NoOverflow` is not inductive: the invariant `Cut` adds that once a chunk was
cut at least `size` bytes were taken from a slice, which is at most half of
`UsizeMax`, unless all of it was. That a chunk exceeds its size by less than a
line follows from where its last line starts (`LastLineBefore`).

**`BothWaysProofs`: what both deliver.** `StreamReadsTheUnit` says that
`StreamBlocks!Spec` implements `UnitRecords`, for every unit, size, `skip_rows`
and `n_rows`, with `delivered` mapped to the records of the blocks yielded. The
promise cuts its records out of the whole unit; the code keeps a buffer and four
counters. What relates them is a second invariant, `Ordered`, of three parts:
`InOrder`, that the blocks' records are the unit's from `skip_rows` on, as many
as the lines counted past it, and that `rows_left` is what the limit leaves of
them; `AllRead`, that after the last read with rows left every line was counted
and the unit did not break off; `Framed`, their type. It rests on two lemmas: a
block's bytes are the unit's from `offset` to a place where a line ends, short of
the marker (`BlockIs`), and the block's `skip` and `take`, with a `saturating_sub`
and two `min`s in them, leave right what is still to be skipped and to be taken
(`TakenFollow`). The
refinement is shown for each action: `CutBlock` is a `Deliver` if it takes lines
and a stutter if not, `LongLine` is a stutter, `ReadError` is `Fail`, and `Finish`
is `Finish` because no lines asked for are left then (`EndsWithAll`).

`BothReadTheSame` says that `ReadsTheSame` holds of `SpecBoth`. Two programs
agree here: one cuts a window out of the unit, by finding where its first and
last lines start, and divides it; the other counts as it goes. The invariant
`Divided` has `InTurn`, that the chunks so far give the unit's records from the
window's first line up to `at`, where a line ends, and `AllCut`, that in the end
`at` is the window's. `WindowIsAsked` shows that the window has as many lines as
the promise asks for and begins with the same one. `BothTypeCorrect` has the
types of both; `BothReadTheUnit` is the refinement, of `SpecBoth`.

The first attempt at `AllRead` failed, and rightly: without `n_rows`, `rows_left`
starts at `usize::MAX`, so a unit of exactly that many lines uses it up, reading
stops before its end, and a break there would go unseen. TLC shows it with
`UsizeMax` = 4 and four line endings. No program can read so much, and the last
conjunct of `JobsAssumption` leaves it out: a unit that breaks off, read without
`n_rows`, has fewer than `usize::MAX` bytes.

**`ParseByLayoutProofs`: layouts.** `RefusedForTheFirst` and `ColumnsAsAsked`
say that `RefusesTheFirst` and `ReadsAsAsked` hold of `ParseByLayout!SpecAll`,
for layouts and choices of any length. The inductive invariant `LInv` says that
the fields so far are the layout's first and all of those are good (`Schema`),
that the columns picked stand for the names asked for (`Chosen`), and how far
both are (`Stage`). `PassesIff` is the heart: a field passes the checks, in
their order, exactly when nothing is wrong with it. That an end of field is
below `usize::MAX` rests on `LayoutAssumption`'s `2 * U32Max <= UsizeMax`, true of
64-bit targets.

**`ParseByLayoutProofs`: values and errors.** `ValuesAreTheUnits`,
`ErrorsAreWhereTheyAre`, `ErrorsAreFirst` and `ParseTypesHold` say that
`HoldsTheCells`, `PointsAtTheByte`, `FirstOfItsColumn` and `ParseTypes` hold of
`SpecAll`, for every unit, chunk size, encoding's table and layout.
`ParseAssumption` says what bytes are: line endings, whitespace, digits and
those above ASCII differ. None of the properties is inductive: a batch is only
right because the columns it is made of were, and an error is the first in its
column only because every value before it, in chunks long done with, was good.
The inductive invariant `VInv` adds that chunks are cut where lines start
(`AtALine`) and that each finished column, and what there is of the one at hand,
has the values of its field on the chunk's first lines, none of them bad
(`InColumns`). `CellAtHand` relates the two ways of telling a value: the code's
(the chunk's line, cut to the field, trimmed) and the property's (the unit's
bytes from the first to the last that is no whitespace), with its offset in the
unit; `FailsThere` does so for the byte that cannot be read. There is one lemma
per action (`AppendKeeps`, `FailKeeps`, `EndColumnKeeps`, `EndChunkKeeps`). The
framing they need is `BothWaysProofs`', whose lemmas are taken through an
instance (`Fr`).

**`PipelineProofs`: the parser.** `ImplementsBatchIterator` says that every
behaviour of `ParserWaves!Spec` is one of `BatchIterator!Spec`;
`NeverMoreThanAWaveAhead`, `ErrorIsLast` and `TypeCorrect` say that
`AheadByAWave`, `NothingAfterAnError` and `TypeInvariant` hold of it. They rest
on `WavesAssumption`: a pool of at least one thread, at least one chunk per
thread, and a read error only as the last thing of a stream. The inductive
invariant `IInv` has four parts besides the types. `Ordered`: the chunks taken
are exactly those given, then those ready, then the wave, each in the unit's
order. `AtHand`: a wave is at hand only inside a call with no error latched.
`Shared`: the workers are at different chunks of the wave, none parsed yet, each
with that chunk's lines alone in its index, which is what makes a result
independent of the worker that computed it. `Latched`: only the last result
given can be an error, and `failed` says whether it is. For the refinement,
`PromisedFacts` describes the abstract result sequence (its end exists because
the first failing chunk does, by well-foundedness of the naturals),
`DeliverAnswers` maps `Deliver` to `Answer` and `NoneIsLast` maps `AnswerNone` to
the abstract one; every other action but `Ask` is a stutter.

**`PipelineProofs`: the parser under `read()` and under the writer.** Of
`Pipeline!SpecAll`, so of `scan()` in the hands of a caller, of `read()` and of
`write()`, alike: every step is the parser's or none of its
(`StepOfEach`), so the four properties above hold (`EveryReadIsAParallelRead`);
`PipelineTyped`, `ThreeWavesAtMost` (`HoldsThreeWaves`), `RefusalStopsReading`
(`NoReadAfterARefusal`), `ReadGivesAll` (`GivesAllOrTheFirstError`), and
`ImplementsSequentialWrite`: it is one of `SequentialWrite`'s
(`ConvertsInSequence`). The inductive invariant is `PInv`, of four parts: the
parser's `IInv`; the writer's `WInv`; `Together`, how the two are held (only the
reader of a wave with room left waits for the parser, and what it was given are
the parser's answers); and `JoinedOnce`. `WInv` in turn has `InOrder` (what is at
the destination, in the buffer, in the wave at hand and in the wave read ahead
follow each other, and all but the last two waves are out), `ReadSoFar` (the
reader's error is the source's), `Staged` (nothing is written before all of its
wave was formatted) and `Told` (what `Tracked` holds is the last refusal until
the drop, and what no error tells of was not lost). `Told` is what the result's
mapping needs: a parse error may be reported although the drop was refused, and
a refused write never ends well. For the refinement, a step of the writer adds
one text, ends the write or is a stutter, according to what becomes of the
buffer.

**`RowGroupsProofs`.** `ImplementsOneWriter` says that every behaviour of
`RowGroups!Spec` is one of `OneWriter!Spec`, and `TypeCorrect` that its types
hold, which says also that no slice ends past its batch's or group's end. `IInv`
says where the loops are (`Placed`), that every field has the current group's
rows, or has them once the pieces at hand are encoded (`Held`), that the columns
appended are the first fields' (`Appended`) and that the file has the rows
before the group (`InFile`). A group is closed only when the single writer would:
it is full, or the last of an input that ends well (`CloseGroupAdds`).

**`ParquetOutputProofs`.** `BytesInOrder`, `OkMeansAll` and `TypeCorrect`, from
`OutputAssumption` (the two buffers' sizes, writes smaller than the larger, kinds
of refusal that are no other result). `Placed` says byte by byte that the
destination, `Tracked`'s buffer and the format writer's hold the first bytes,
which `FirstBytes` says of the whole (`MovedIsPlaced`: driving out a part moves
it one piece down). `OkIsAll` needs to know where bytes can be when it ends well:
until an error came back nothing was refused and no byte is anywhere else
(`Complete`); the buffers are emptied from the top before the file ends well
(`Emptied`); and only then is there a result (`Told`).

**`ConvertProofs`: writers of files.** `ImplementsAtomicReplace` says that every
behaviour of `FileReplace!Spec`, of any number of writers, is one of
`AtomicReplace`, and `NoTempIsLeft` that only the killed leave a temp file.
`IInv` says that the file always holds one whole output, that a temp file about
to be renamed is whole (`Whole`), and that there is none before a write creates
its own or after it returned (`NoStrayTemp`).

**`ConvertProofs`: the command.** Of `Convert!SpecRun`, with any other writers
stepping in between: `SuccessMeansWhole`, `NothingTouchedInVain`,
`CommandLeavesNoTemp`, `CommandReplacesWhole` and `StatusTellsTruly` say that
`SuccessIsWhole`, `TouchesNothingInVain`, `OnlyTheKilledLeaveATemp`,
`ReplacesWhole` and `StatusTellsOfTheFile` hold. `ConvertAssumption` says that a
kind of refusal is no other result and that a file named for stdout has no name
to tell a format from; it sets `Parts` to 2, a part of the output and all of it.
`CInv` adds to `IInv` where the command is in `to_file` (`InToFile`), which
checks it has passed (`InOrder`), and what its result says of the write
(`ToldTruly`).

**`OpenUnitProofs`.** `NoByteIsLost`, `EveryByteIsHandedOn`,
`ContainerFromBytesAlone` and `TypeCorrect`, from `OpenAssumption` (the lengths
of the two heads). `NothingLost` is not inductive by itself in a useful form; the
invariant `IInv` says instead that what was handed on and then the head is the
first `pos` bytes (`Placed`), and that nothing is handed on while the container
is looked for (`Before`). `HeadTells` is why short reads do not matter: four
bytes, or all there are, tell the container as well as the whole does.

**`ZipMemberProofs`.** `NothingWrongIsTaken`, `NoFalseAlarm` and `TypeCorrect`,
from `ZipAssumption`; nothing is assumed of `Crc`. `IInv` adds that what was
hashed is what the decoder has given (`Hashed`) and that only a compressed
member with a good header is decoded (`Decoding`), so that at the decoder's end
`Matches` compares the whole member.

**Only model-checked.** Liveness (`Ends`, `Opens`, `EveryClientReturns`,
`Terminates`) is out of the prover's reach, as are `ENABLED` and induction over
data by the library's theorems. (Flattened sequences are reasoned about by their
last element; where a proof needs the first of some numbers, it takes the least
by well-foundedness.) Every other property of the passing runs is stated by a
theorem.

## What is not modelled

- The code tables of the encodings and UTF-8 validation (`decode` is known by
  the text it adds or the offset it stops at), which byte strings `parse_f64`
  takes, Arrow's arrays.
- Memory: allocations that fail, capacities computed from declared lengths
  (`builder.rs:36`, `read_impl.rs:156`) and chunks larger than Arrow's builders
  hold.
- The gzip and deflate decoders and the reading of a zip's index: libraries',
  external to this code.
- The bytes of a Parquet file's columns and footer: the parquet crate's.
- Error texts, the setters of options that assign a value (they are the other
  modules' jobs), the parsing of JSON and of arguments: sequential and stateless.
- A file changed while it is mapped, as the code's comment accepts.

## Plan

Done, in the order of what everything else rests on: `Framing`, `UnitRecords`,
`StreamBlocks`, `SliceChunks`, `BothWays`; `BatchIterator`, `ParserWaves`;
`SequentialWrite`, `WriteWaves`, `ReadWhole`, `Pipeline`; `OneWriter`,
`RowGroups`, `ParquetOutput`; `AtomicReplace`, `FileReplace`, `Convert`;
`Columns`, `Layout`, `ParseByLayout`, `OpenUnit`, `ZipMember`.

Proved: every safety and refinement property of the passing runs. What the
prover could take is done; the liveness properties stay with TLC.
