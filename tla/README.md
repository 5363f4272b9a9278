# pcapsipdump in TLA+

pcapsipdump reads packets from an interface or a capture file and writes every
SIP call, with its media, to a `.pcap` file of its own. This directory holds
TLA+ models of it, the TLC configurations that check them, and TLAPS proofs.
Paths are relative to the repository (`src/` here); `PROJECT.json` maps each
definition to the lines it stands for.

## The system

| Component | Source | State | Operations |
| --- | --- | --- | --- |
| call table | `calltable.cpp`, `.h` | vector of fixed slots (Call-ID prefix and length, up to 4 media flows with SSRC, two times, BYE/T.38 flags, dumper); map from fragment ids to dumpers | `add`, `find_by_call_id`, `add_ip_port`, `find_ip_port_ssrc`, `do_cleanup`, `add_ipfrag`, `get_ipfrag`, `delete_ipfrag` |
| packet loop | `pcapsipdump.cpp` 454-743 | time of the last clean-up, sampling counter, the packet in hand | clean-up gate, fragments, media, SIP, end of capture; `SIGINT`/`SIGTERM` handlers |
| trigger processes | `trigger.cpp` | the two trigger lists; the process table | `init`, `add`, `trigger` (fork, execv); the final `waitpid` |
| daemon start | `pcapsipdump.cpp` 436-453 | pid file, exit status | fork, write the pid file, exit |
| options | `pcapsipdump.cpp` 200-352, `parse_size_string`, `opts_sanity_check_d` | the options | run once, before capture |
| SIP and SDP text | `pcapsipdump_strlib.cpp`, `get_method`, `get_sip_peername`, `get_ip_port_from_sdp` | none | byte scanning |
| link layer | `ethernet_get_header_ip`, `skip_tunnel_ip_header`, `hsaddr`, `hdaddr`, `operator<` | none | header arithmetic |
| file names | `expand_dir_template`, `mkdir_p`, `fn_pcap` | the spool directory | one path for each recorded call |
| cached call table | `calltable.cpp` under `USE_CALLTABLE_CACHE` | two indices over the table | the same operations |
| spool retention | `systemd/pcapsipdump-cleanup.*` | the spool directory | daily find and delete |

**How they interact.** One process runs the loop. For each packet it may call
`do_cleanup`, then consults the fragment map, the media flows and the Call-IDs,
in this order, and the first that knows the packet decides. Call table and loop
share everything: the loop writes `f_pcap` into slots the table has made,
dumpers are referred to both by slots and by the fragment map, and `do_cleanup`
closes them. `add` and `do_cleanup` fire triggers: each forks a copy of the
whole process, table and all. Signal handlers call `do_cleanup` on the same
table. The only clock is the capture's own timestamps.

**What is hard.** Slots, dumper addresses, media addresses and IP ids are all
reused while other records still refer to them; packets come lost, late and
with clocks that step back; the first packet of a call decides its fate; files
may fail to open, forks to succeed, programs to exist; signals come at any
step; children are waited for once, at the very end.

**What makes each part correct.**

- Call table: one live slot per call; dumpers and live slots one to one; freed
  slots leave nothing behind; the table stays as small as the number of calls.
- Packet loop: a packet reaches the file of the call it belongs to and no
  other; a live call gets its media, a finished one no one else's; calls end in
  time and not before; files are closed or erased as `-R t38` says.
- Cached call table: the indices lead where a search of the table would; a call in
  progress is never given a second slot.
- Text and headers: what is read out of a packet is what the packet says; no
  header is looked for where there is none.
- Spool: recorders and the daily clean-up share a tree; no file is lost before
  its time, and the tree does not grow for ever.
- Processes: one recorder; the pid file names it; each trigger is run once for
  each file, or is known to be lost; everything ends.

## Modules

| Module | What it is |
| --- | --- |
| `CallTable` | the operations of the call table as operators on a table; no variables |
| `PacketLoop` | the loop as a state machine over table, fragment map and dumpers |
| `CallRecorder` | what the loop promises: a map from calls to recordings |
| `PacketLoopProperties` | type invariant, invariants, action properties, the refinement mapping |
| `PacketLoopProofs` | TLAPS proofs about the loop: types, slots, dumpers, times, refinement |
| `RoutingProofs` | which file a packet reaches |
| `EndingProofs` | when a call ends, what becomes of its file, how far the table grows |
| `MCPacketLoop` | small sets of calls, packets and timestamps |
| `CachedCallTable` | the call table of `-DUSE_CALLTABLE_CACHE` with the loop around it; implements `CallRecorder` too |
| `CachedTableProofs` | TLAPS proofs about it |
| `SipText` | `gettag` and what is read with it: pure operators |
| `LinkLayer` | from an Ethernet frame to IP header, fragment or UDP datagram, and the fragment key: pure operators |
| `Capture` | composes `PacketLoop`, `SipText` and `LinkLayer`: the loop fed with frames |
| `CaptureProofs` | TLAPS proofs that carry over from the loop, and about frames |
| `Options` | the command line as a function of its arguments |
| `Parsing` | every input of `SipText`, `LinkLayer` and `Options` up to a bound, with reference definitions |
| `ParsingProofs` | TLAPS proofs that `SipText` and `LinkLayer` agree with these on inputs of any length |
| `Spool` | recorders, their directories and files, and the daily clean-up, system call by system call |
| `SpoolProofs` | TLAPS proofs about it |
| `MCCachedCallTable`, `MCCapture`, `MCParsing`, `MCSpool` | their small instances |
| `Processes` | launcher, daemon, recorder and trigger children, with their properties |
| `ProcessesProofs` | TLAPS proofs about the processes: types, one recorder, each trigger once, none forgotten, the pid file |
| `MCProcesses` | small trigger lists and process tables |

### PacketLoop and CallTable

`table` is `ct->table`, a sequence of records with the fields of
`calltable_element` except those that only reach file names and log lines
(`caller`, `callee`, `packets`, `fn_pcap`). A Call-ID is `[len, head, tail]`:
the table keeps `len` and `head` (the first 32 bytes), so two Call-IDs that
differ only in `tail` are one call to it, as in the code. `ipfrags` is the
`std::map`, with the null entries that `operator[]` leaves. `dumpers` says for
each address `pcap_dump_open` can return which call's file is open there, and
whether a T.38 offer of that call has been seen since. `out` (what the last step
wrote, opened, closed, erased or fired) and `frag_owner` (which recording a
fragment id belongs to) are observed by the properties and read by no guard.

An iteration of the loop is two steps: `Receive` takes a packet and passes the
clean-up gate (lines 456-478); one action of `Dispatch` then handles it, chosen
by the conditions of the `if` chain:

| Action | Lines |
| --- | --- |
| `FragmentOfNoFile`, `FragmentDumped`, `FragmentToClosedDumper` | 491-520 |
| `MediaToDestination`, `MediaFromSource` | 580-608 |
| `SipOfKnownCall` | 609-634, 671-709 |
| `SipOfUnwantedMethod`, `SipOfSkippedCall`, `SipOfRecordedCall`, `SipOfCallNotOpened` | 634-709 |
| `Ignored` | 634 with the number filter, 710-726, `continue` at 486 |
| `EndOfCapture`, `Signal` | 730-742, 61-73 |

`Receive` takes a decoded packet, or `NULL` for one the loop passes over: what lines
480-578 and 611-633 make of it, with the SDP reduced to the address it yields or
none, the telephone-event type and whether it offers T.38. `Capture` starts from
frames and does that decoding. Writing to a dumper that has been closed is
undefined: the process dies or the write goes nowhere. The clean-up gate's
subtraction in `unsigned long` is modelled by its outcome: due as well when the
timestamp lies below `last_cleanup`. The default build is modelled here, without
`USE_TCP` and `USE_CALLTABLE_CACHE`. Triggers only appear in `out`; their processes
are the other model's.

### Processes

`proc` is the process table; each record holds what `fork` copies of the process
(the triggers it still has to fork for, the files `do_cleanup` still has to
close, what it knows of each file). `Onward` is the return path from
`Trigger::trigger` through `do_cleanup` to the loop or to `waitpid`.
`Exited` is the operating system's part: zombies until waited for, orphans to
init. `ForkTrigger` and `ForkTriggerFails` are the branches of
`Trigger::trigger`, `Exec` and `ExecFails` what comes of `execv`: when it fails
the child goes `Onward` as its parent would. Packets are left out; the loop
appears as adding calls (`AddCall`), cleaning up, the end of the capture and signals.

### CachedCallTable

The vector is a sequence of buffers, the last of which is the table; a pointer is a
buffer and a slot, so that `push_back` on a full vector leaves the cache's pointers
in an old buffer. `index` is `call_id_cache`, `cache` the map from addresses to
`ce_irtp_ssrc`. `Find` is `find_ip_port_ssrc` with its four ways out, as a function
from one memory to the next, because a look-up that fails leaves an entry and the
loop looks up the destination before the source. `DoCleanup` blanks slots *before*
it looks at what to erase from the indices, as lines 232-245 do: it erases no address,
and no Call-ID but the empty one. Following a pointer into a freed buffer is
undefined; it works as if the buffer still stood there, or the process dies
(`MediaCrashes`). `stale` marks the addresses whose entry has lost its slot or its
buffer; no guard reads it. Time is reduced: a clean-up may find any calls run out.

### SipText, LinkLayer and Capture

A text is a sequence of symbols (the tag looked for, space, end of line, anything
else), an SDP body a sequence of lines. The operators keep what the code's limits
and types do: `atoi` into an `unsigned short`, payload types that must fit in a
byte, a method cut to its buffer, `inet_addr` of no address. `LinkLayer` takes a
frame as 16-bit words; `AddrAddrId` keeps of an IPv6 fragment id the half that
`(uint16_t)frag->id` keeps on a little-endian machine. `Capture` puts them in front
of the loop: `Decode` is the way from frame to packet, `ReceiveFrame` and
`DispatchFrame` refine `Receive` and `Dispatch`, and `origin` remembers, for the
properties only, which datagram each entry of the fragment map came from.

### Options and Parsing

`CommandLine` folds `ReadOption` over the arguments and ends with the test at lines
347-350. `Parsing` grows one input at a time, symbol by symbol; its properties
compare each algorithm with a definition that does not follow the code: `GetTag`
with the first terminated line that begins with the tag, `EthIp` with a walk over
all tags, `CommandLine` with "what was given last". The triggers of an event are in the order
given: each stands where the count of those up to it says.

### Spool

Paths are sequences of components below the spool directory. A recorder goes
through `mkdir_p` one `stat` and one `mkdir` at a time (`level` is the depth of
its recursion, in and out again), then opens the file; `Close` keeps or erases it by
the name in `fn_pcap`. `NextDay` lets a day pass, after which the clean-up looks at
every file (`LookAtFile`), deletes the old ones (`DeleteFile`), and tries to remove
each directory, children first (`DeleteDir`). Everything interleaves.

## What TLC checks

Eight runs pass:

| Run | Question | Properties |
| --- | --- | --- |
| `LifeCycle` | calls that begin, are sampled (`-l 2`), end by time and begin again, one with a fragmented INVITE | `TypeOK`, `CallsAreUnique`, `DumperOwnership`, `NoCallOutstaysItsLimits`, `TableIsBounded`, `EndClosesEveryFile`, `ImplementsCallRecorder`, `SignallingStaysWithItsCall`, `MediaKeepsTheCallOpen` |
| `Media` | one media address announced by two calls, full flow tables, `-R t38` | `TypeOK`, `LiveCallGetsItsMedia`, `AfterByeOnlyKnownSources`, `EndingFitsTheCall` |
| `Capture` | fragmented INVITEs in VLANs, IPv6 and beside PPPoE, tunnels and TCP; IP ids that are shared and taken over; offers with other media first | `FragmentsFollowTheirCall`, `FragmentsJoinTheirDatagram`, `OfferIsTracked` |
| `CachedTable` | calls that end, take over slots and addresses and make the vector move, with `-DUSE_CALLTABLE_CACHE` | `TypeOK`, `IndexedWhileLive`, `CacheMatchesTable`, `LiveCallGetsItsMedia`, `SignallingOfLiveCallIsItsOwn`, `ImplementsCallRecorder` |
| `Spool` | two recorders and the daily clean-up in one tree | `TreeIsWhole`, `OpenFilesAreKept`, `FinishedFilesStay`, `OpenFailsOnlyIfDisturbed`, `SpoolEmpties` |
| `Parsing` | the parsing algorithms on every input up to a bound | `GetTagReadsTheHeader`, `MethodIsTheLeadingToken`, `PeernameIsTheUser`, `EventIsAnnounced`, `HeaderIsBehindTheStack`, `OptionsMeanWhatTheyLastSay` |
| `Daemon` | a daemon whose forks may fail and that may be killed anywhere | `OneRecorder`, `PidFileNamesTheDaemon`, `TriggersRunAtMostOnce`, `EveryTriggerIsAccountedFor`, `WaitingEnds` |
| `Replay` | a replayed file, a missing program, no pid file | `TypeOK`, `ReplayEnds` |

What some of them say under a condition is worth knowing:

- `CachedTable`: `LiveCallGetsItsMedia` and `CacheMatchesTable` leave out the
  addresses in `stale`; the probes `StaleCache` and `DanglingCache` show what
  happens at those. That the build still implements `CallRecorder` means that all
  its staleness misroutes packets and never a call.
- `Spool`: `OpenFilesAreKept` and `FinishedFilesStay` are about calls that do not
  share a path, and about a link that never falls silent for a whole day while a
  call is open (`SharedPath`, `SilentLink` show both otherwise).
- `Capture`: the IPv6 ids of the run differ in the half that is kept
  (`FragmentIds` shows two that do not).
- `Parsing`: `PeernameIsTheUser` is about values without `@` or `>` before the
  address; `OptionsMeanWhatTheyLastSay` about sizes that fit in an int.

Four runs show where the program departs from its documentation:

| Run | What the code does | What is said |
| --- | --- | --- |
| `StaleFragment` | a fragment of an ended call is written to the file that reused its dumper | ARCHITECTURE.md 34-35 |
| `SignalStops` | the signal handlers close nothing and fire no close trigger | man page 126 |
| `MissingProgram` | a child whose `execv` fails returns into the packet loop | README.md 259 |
| `TelephoneEvent` | only the first `a=rtpmap:` line is looked at, so an event behind the codec's line is not found | ARCHITECTURE.md 83 |

### Probes

Further disagreements and limits have a configuration each, to be run by hand; TLC
finds the property named in it violated within seconds.

| Probe (module) | What happens | Said in |
| --- | --- | --- |
| `ResponseFirst` (MCPacketLoop) | after a response or BYE of an unknown call, its INVITE opens no file | ARCHITECTURE.md 43 |
| `IdleSignalling` (MCPacketLoop) | a call with signalling but no media is closed as idle | ARCHITECTURE.md 101-102 |
| `VerboseFax` (MCPacketLoop) | at `-v 2` a T.38 offer without a readable address is not noticed; its file is erased | ARCHITECTURE.md 104-105 |
| `OpenTrigger` (MCPacketLoop) | the open trigger runs for calls without a file | pcapsipdump.cpp 182 |
| `ClockSteps` (MCPacketLoop) | clean-ups less than 15 s apart when the clock steps back | ARCHITECTURE.md 100 |
| `LateCapture` (MCPacketLoop) | `do_cleanup(INT32_MAX)` leaves files open in a capture that nears 2038 | pcapsipdump.cpp 730 |
| `LostFirstFragment` (MCPacketLoop) | null entries of the fragment map are never dropped | ARCHITECTURE.md 64-65 |
| `OddPort` (MCPacketLoop) | media announced at an odd port is not found under `rtp+rtcp` | ARCHITECTURE.md 39 |
| `DtmfMarker` (MCPacketLoop) | telephone events with the marker bit are dropped | ARCHITECTURE.md 83 |
| `FragmentIds` (MCCapture) | IPv6 datagrams whose ids share their upper half share an entry, so one's fragments go to the other's file | ARCHITECTURE.md 34-35 |
| `ExitStatus` (MCProcesses) | exit status 0 after a failed fork | man page, EXIT STATUS |
| `FinalWait` (MCProcesses) | one `waitpid` for several children | pcapsipdump.cpp 737 |
| `Zombies` (MCProcesses) | dead children use up the process ids that triggers need | man page 126 |
| `StaleCache` (MCCachedCallTable) | the address of a finished call leads to a blank slot, and a new call's media there is lost | ARCHITECTURE.md 94-96 |
| `DanglingCache` (MCCachedCallTable) | the cache points into a buffer the vector has left | - |
| `EmptyCallId` (MCCachedCallTable) | every clean-up forgets the call whose Call-ID is empty, in progress or not | - |
| `TwoRecorders` (MCSpool) | two recorders make one directory; the slower stops at EEXIST and its file does not open | pcapsipdump_lib.cpp 16 |
| `SharedPath` (MCSpool) | two names become one when sanitised, and one call's file truncates the other's | - |
| `LongPath` (MCSpool) | a path cut to 127 bytes is not the file to erase | ARCHITECTURE.md 104-105 |
| `SilentLink` (MCSpool) | on a silent link no call ends and the clean-up deletes the open file | - |

### Known departures

These are in the models too, and the properties that hold are stated beside them;
they have no configuration of their own.

- An SDP without an address counts as one at 255.255.255.255: `(long)` of an
  `in_addr_t` is never the -1 of pcapsipdump.cpp 138 where long has 64 bits
  (`Broadcast` in `SipText`).
- An `@` in a display name hides the user part of the address (`Peername`).
- A tag 0x9100 or 0x88a8 alone, and any two tags but `.. 0x8100` before IPv4, lead
  to no IP header, where ARCHITECTURE.md 50-51 names the stacks (`EthIp`).
- `-B 5GiB` is taken for 1 GiB: the size is kept in an int (`AsInt`;
  pcapsipdump.cpp 169).
- The clean-up may remove a directory between a recorder's `mkdir_p` and its open
  (`DeleteDir` beside `Open`; pcapsipdump_lib.cpp 16).
- With the cache, the Call-ID of a finished call leads to the slot of another, to
  whose file its late signalling goes (`DoCleanup` of `CachedCallTable`;
  ARCHITECTURE.md 45).

### Bounds, and why they are enough

- Two or three Call-IDs: one to end and one to take over its slot, dumper,
  address or fragment id, and a third that collides with the second in the 32
  bytes kept.
- Two dumper addresses (one where reuse is to be forced): fewer than calls, so
  that files run out.
- Timestamps: a handful, chosen to meet, cross and miss the 15 s and 300 s limits
  by a second; the clock may step to any of them at any packet, backwards too.
  `EarlyLate` makes only the idle limit matter. The absolute limit is set low
  enough to be met in `LifeCycle`.
- `calltable_max_ip_per_call` is 4, and 2 in `Media`, so that the limit is met
  with three addresses.
- Packets come in any order and number; nothing else bounds a behaviour of the loop.
- `CachedTable`: two calls and two flows each: the vector moves when it grows to two,
  which every longer growth repeats. Three addresses, of which the calls share one.
- `Capture`: one frame of each encapsulation, and for each fragmented datagram a
  first, a middle and a last fragment; two datagrams agree in destination and id,
  two in id.
- `Parsing`: texts of six symbols, which is long enough for a tag inside a line, one
  at a line's start and a second line; methods of five with a buffer of four;
  values of six; SDPs of four lines; Ethernet headers of seven words, the deepest the
  code looks; command lines of four options out of twenty.
- `Spool`: two recorders, two calls, three levels of directories, two days with
  names of their own and a retention of one: two recorders meet in `mkdir_p` at
  each level and the clean-up at any point of either.
- In `Media`, `Capture` and `CachedTable` the two dumper addresses are alike
  (`SYMMETRY`): the code only compares them. No liveness is checked in those runs.
- Processes: three process ids, so that forks fail for want of one; two calls,
  each added once; at most three triggers.

### Fairness

All properties of the packet loop are safety properties, under `Spec`. In
`Processes`, `FairSpec` is weakly fair to every step a process takes by itself,
which is what a scheduler gives, and to the end of each trigger's program, which
is an assumption on what users configure: `waitpid` may wait for it. It is not
fair to traffic, signals or the end of the capture. `ReplaySpec` adds the end of
the capture, which a file has and an interface has not.

## What is proved

For every value of the constants, from the `ASSUME`s of the modules. These say that
constants have the types they are used with, that `NULL` is no call, dumper or
packet, and in `Capture` that frames decode to the packets the loop is given; TLC
evaluates them in the runs. Some theorems have a hypothesis besides, which says
where the code is known to depart:

| Theorem | Property | If |
| --- | --- | --- |
| `TypeCorrectness` | `TypeOK` of `PacketLoop` | |
| `OneSlotPerCall` | `CallsAreUnique` | |
| `DumpersAreOwned` | `DumperOwnership` | |
| `CallsEndInTime` | `NoCallOutstaysItsLimits` | |
| `TableImplementsRecorder` | `ImplementsCallRecorder` | |
| `FragmentEntriesAreTheirOwners` | `FragmentsFollowTheirCall` | |
| `SignallingIsNotMixed` | `SignallingStaysWithItsCall` | |
| `FinishedCallsTakeNoNewSources` | `AfterByeOnlyKnownSources` | |
| `LiveCallsGetTheirMedia` | `LiveCallGetsItsMedia` | |
| `MediaProlongsTheCall` | `MediaKeepsTheCallOpen` | |
| `EveryFileIsClosedAtTheEnd` | `EndClosesEveryFile` | no timestamp in the last five minutes before `Int32Max` (`LateCapture`) |
| `FilesEndAsTheirCallWent` | `EndingFitsTheCall` | `Verbosity < 2` (`VerboseFax`) |
| `TableNeverOutgrowsTheCalls` | `TableIsBounded` | finitely many Call-IDs |
| `CaptureIsThePacketLoop` | `CaptureSpec => Spec` | |
| `FragmentsOfFramesFollowTheirCall` | `FragmentsFollowTheirCall` of `Capture` | |
| `FragmentsAreNotMixed` | `FragmentsJoinTheirDatagram` | no two datagrams have one key (`FragmentIds`) |
| `OffersAreTracked` | `OfferIsTracked` | |
| `TheHeaderIsRead` | `GetTagReadsTheHeader` | |
| `MethodsAreUpperCase` | `MethodIsTheLeadingToken` | |
| `PeernamesAreUsers` | `PeernameIsTheUser` | |
| `EventsAreAnnounced` | `EventIsAnnounced` | |
| `HeadersAreBehindTheStack` | `HeaderIsBehindTheStack` | |
| `OptionsMeanWhatTheySay` | `OptionsMeanWhatTheyLastSay` | |
| `IndicesStayInBounds` | `TypeOK` of `CachedCallTable` | |
| `CacheAgreesWithTheTable` | `CacheMatchesTable` | |
| `LiveCallsAreIndexed` | `IndexedWhileLive` | no Call-ID is empty (`EmptyCallId`) |
| `LiveSignallingFindsItsFile` | `SignallingOfLiveCallIsItsOwn` | the same |
| `CachedTableImplementsRecorder` | `ImplementsCallRecorder` of `CachedCallTable` | the same |
| `LiveMediaFindsItsCall` | `LiveCallGetsItsMedia` of `CachedCallTable` | |
| `NothingIsOrphaned` | `TreeIsWhole` | |
| `OnlyOthersMakeOpenFail` | `OpenFailsOnlyIfDisturbed` | |
| `NoOpenFileIsTaken` | `OpenFilesAreKept` | no link is silent for a day (`SilentLink`) |
| `FinishedFilesAreNotLost` | `FinishedFilesStay` | the same |
| `CallIdsKeepPathsApart` | `PathsAreDistinct` | the template names the Call-ID, and sanitising keeps Call-IDs apart (`SharedPath`) |
| `CallIdsKeepEveryRecording` | every open or kept call has its file, whatever paths others have | both of these (`SilentLink`, `SharedPath`) |
| `ProcessTypes` | `TypeOK` of `Processes` | |
| `OneRecorderAlways` | `OneRecorder` | every trigger's program can be run (`MissingProgram`) |
| `NoTriggerRunsTwice` | `TriggersRunAtMostOnce` | the same |
| `NoTriggerIsForgotten` | `EveryTriggerIsAccountedFor` | the same |
| `PidFileIsTheDaemons` | `PidFileNamesTheDaemon` | the same |

The instances of the runs satisfy the hypotheses, and the configuration named beside
one shows the property violated, or the departure it allows for, without it.

**The packet loop.** The inductive invariant `FilesInv` is `TypeOK`,
`CallsAreUnique`, `FreeSlotsAreBlank` and `DumperOwnership` together. None of the
last three is inductive alone: closing the dumpers of the calls that end leaves the
others theirs only because no two slots share one; a new call takes a dumper that is
closed, which is nobody's only because every live slot's dumper is open; and what a
clean-up leaves in a slot must be blank to be taken by `add`. The proof has one
lemma for each way through the loop, over three descriptions of what happens to the
slots: they keep call and file, one is added, or some become blank. `AgesInv`
strengthens `NoCallOutstaysItsLimits` with where `now` and `last_cleanup` stand to
each other between the gate and the next packet. The refinement uses the same
descriptions: slots kept is a stutter, a slot added is `Disregard`, `Skip`, `Record`
or `RecordFails`, slots blanked is `End`; that `End` removes exactly the recordings
of the ended calls needs `CallsAreUnique`, and that a new recording's file is unused
needs `DumperOwnership`.

**Routing.** The five ways a SIP packet is filed are one step, `Filing`: a slot with
its Call-ID, known or new, whose dumper is open for that call.
`FragmentsFollowTheirCall` is inductive with `FilesInv`: a clean-up forgets the
owners of the calls it ends, which are the owners of the entries whose dumpers it
closes because each open dumper is one call's. `SignallingStaysWithItsCall` follows
from `Filing`. For media, a freed slot is blank, so that the first flow found at an
address is a live one.

**Endings.** `MediaKeepsTheCallOpen` needs `HeardInv`: the packet last written to a file
is the last its slot has heard, and came now. `EndClosesEveryFile` needs that every
time in the table is some packet's (`TimesInv`), `EndingFitsTheCall` that slot and
file agree on T.38 (`FaxInv`), which at `-v 2` they do not. `TableIsBounded`: the vector
only grows when every slot is live, and by `CallsAreUnique` those and the new
call are different calls.

**Frames.** Every step of `Capture` is one of `PacketLoop`. `FragmentsJoinTheirDatagram`
needs that each entry of the fragment map that leads to a file was made by a first
fragment with its key, of the datagram in `origin` (`EntriesHaveOrigins`).
`OfferIsTracked` goes from the lines of the SDP over the least of their positions to
what `add_ip_port` leaves in the slot of `Filing`.

**Parsing.** The only invariants are that inputs are sequences of the alphabets'
symbols and command lines ones of the menu's arguments; the rest is about the operators. `get_method` and the reference definition
both cut at a least position, and the least of one set is shown to be that of the
other. For `gettag` there are four lemmas, one for each way a step of its search can
go (no occurrence left, one within a line, a terminated header, an unterminated one):
each says what becomes of the set of headers from there on. That the recursive
functions `Scan` and `Walk` are what their definitions say needs a function that fits:
for `Scan` it is the reference definition itself, for `Walk` it is filled in from the
end of the frame. No function is assumed to be the only one: a search that goes wrong
somewhere does so at a last position, where the four lemmas contradict it. Induction is
thus over a set of positions and its least member, never over an operator. The
assumptions on the constants that these proofs added are that a tag is neither a space
nor a line end, and that a frame has the seven words that are looked at.

**Options.** `FoldLeft` is a recursive function on the sets of places, which gives up
its greatest place at each step. That there is one is shown from the first argument on:
one for the first k places is extended by those sets that hold place k + 1, and the
least number of places left over is none (`FoldExists`). Restricted to the first k
places it takes one step of `ReadOption` for each argument (`ReadInOrder`). What
holds after n of them is `ReadSoFar`, the documented meaning with "last given" among
the first n, up to the first argument that stops, which then decides (`ReadAt`).
`OneOption` says what one argument changes, one case for each branch of the `switch`, and
`ReadingOneMore` that this is what the n+1st adds to each part of `ReadSoFar`; that a
trigger comes behind the earlier ones is by counting the places before its own
(`OneMoreInOrder`). Assumed of the arguments is what `getopt` and the conversions
give: a letter it knows or `?`, an interface or file that is there, a size that is a
number. That sizes fit in an int is part of the property, and needed (`-B 5GiB`).

**The cached table.** `CacheMatchesTable` is inductive with `TypeOK`, given what each
action does to `stale`. The other invariant is `CallsInv`: each live slot is its
Call-ID's entry in the index, its file is open, and no two live slots share a file.
`do_cleanup` blanks a slot before it reads the Call-ID to erase, so it erases the
empty Call-ID and no other: this keeps every live call indexed if none is empty.
The refinement follows, as uniqueness of calls comes from the index being a function.

**The spool.** `TreeIsWhole` is inductive with the types, the root never being up for
removal, and each recorder's path being one of the template's (`BaseInv`).
`WaysAhead` says what of the tree a recorder that nobody has disturbed may rely on at
each step of `mkdir_p`'s recursion. `FilesInv` of `SpoolProofs` says whose each file
is, that a file being recorded is of today, and that what the clean-up is about to
unlink is old, or shared, and its call over; it needs that a day on a link that
is not silent ends the calls of the day before. Its part `Named`, that a call's path is
the template expanded for it on some day, is inductive by itself; hence
`CallIdsKeepPathsApart`, as an expansion that has the Call-ID in it gives the
Call-ID away. The default template ends in `%i` (pcapsipdump.cpp 231-234), so without
`-d` only Call-IDs that `asciisan` makes equal share a path, and
`CallIdsKeepEveryRecording` drops the exception for shared paths where they do not.
The hypothesis `TellsCallsApart` is one the `Spool` run's calls and template satisfy.

**The processes.** `IInv` is `TypeOK` with: if all programs can be run, at most one
process records or is about to fork the one that will. The launcher before the fork
must be counted in, or the daemon's first step would not preserve it. `BooksInv`
keeps the books of that one process: for each trigger and file, at most one of child
on its way, run and lost, and the process still has to fork for it exactly if it is
owed and none of the three. Copies of the lists in forked children are never read
because no child returns from `execv`. `PidInv` adds who may have which role, that
there is one launcher and one daemon at most, and what the launcher knows while it
lives: the daemon is its only child, dead or alive, so that its pid is not used
again before the pid file has it.

**Only model-checked.** `WaitingEnds`, `ReplayEnds` and `SpoolEmpties` are liveness
under fairness, which needs `ENABLED`. The findings and probes are counterexamples and
stay with TLC. Every safety invariant and action property of the passing runs is proved.

## What is not modelled

- `USE_TCP`: another build.
- That headers lie within what was captured: a frame has all the words that are
  looked at.
- The text of numbers and addresses (`atoi`, `inet_addr`, `sscanf`, `regexec`): a
  line or argument carries the value it yields. The bodies of multipart messages are
  SDP from the first empty line on, as the code takes them.
- `opts_sanity_check_d`, the pcap filter expression, `-m` and `-n` as regular
  expressions, and the unchecked conversion of `-T`. Nor the message that `Trigger::add`
  prints at `-v 2`, which takes the `back()` of a list that an unknown action may have
  left empty (trigger.cpp 67).
- Of the file names: absolute paths, the 256-byte buffer of `mkdir_p`, `strftime`
  fields finer than a day.
- The contents of files and their buffering, in particular what a forked copy
  still has in its buffers.
- Signals inside a packet's handling: a step is a whole packet, so what a handler
  does to a half-changed table, or inside `malloc` or stdio, is below the grain.
- Packaging, containers and continuous integration.

## Plan

Done: all modules above, and proofs of every safety property the passing runs check.
What is left is liveness of `PacketLoop`: a call that has run out is closed if packets
keep coming with a clock that advances.
