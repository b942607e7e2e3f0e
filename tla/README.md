# TLA+ models of the network programming exercises

The repository is a course in network programming in C: some 115 small
programs, one `main()` each, in the directories `Source-codes_Ch2` and
`Source_codes_Ch3` to `Source_codes_Ch7`. It has no README and no tests; what a
program is meant to do stands in its comments and in the texts it prints. Most
of the programs demonstrate one system call. Some are real concurrent programs:
servers built on poll(), select(), fork(), threads and UDP, with their clients.
This directory models those, checks the models with TLC and proves their safety
properties with TLAPS.

Contents: the system, the modules, the runs, fairness, the proofs, what the
runs found, what is not modelled, the plan.


## 1. The system

### 1.1 Components

The programs do not call one another; a component is a server together with its
client, which share a protocol and nothing else. Several servers repeat a part:
the accept loop with fork() occurs in six files, slot tables behind select() or
poll() in four. Where two files are the same text, one definition stands for
both: `ccr_server.c` is also `process/bai6server.c` and `bai7server.c`,
`ccr_client.c` is also `bai6client.c` and `bai7client.c`, `read-write-*.c` are
`bai3_*.c` without getpeername(), `ex_getpeername.c` stands in two chapters, and
of the select() exercises `bai7.c` is `bai10.c` and `bai11.c` is empty.

**Event-driven poll() server** (`Source_codes_Ch5/ex_poll_server.c`). State: the
array `fds[]` of descriptors and returned events, `addrs[]` aligned with it, the
count `nfds`, the flag `g_stop`; in the kernel, the queue of connections, the
descriptor table and unread data. Operations: one turn of the loop tests the
flag, polls, accepts everything queued (or turns it away when the array is
full), then walks over the clients, drains each that is readable, and removes a
slot by moving the last one into it. Hard: the scan runs over an array that
removals reorder; accept reuses slots without clearing their events; what poll()
reported is old when it is acted on; SIGINT comes at any point. Correct if the
two arrays and the kernel's table agree, nobody reported is skipped, connections
are closed for the reason that is printed, and queue and departures are dealt
with in the end.

**Chat room** (`Source_codes_Ch5/bai-tap-lab/server.c`, `client.c`). State: 100
slots of descriptor and user name, one buffer for all clients; at a client one
buffer for what it types and what it receives. Operations: one select(), at most
one accept(), one read() for each ready client, and a broadcast for what was read:
a name, a line or a departure; the client sends a name and lines, and prints what
it receives. Hard: TCP keeps no boundaries between name and lines; the ready set is
used after slots were freed and taken again; the server's buffer outlives the client
whose text it holds; at the end of its input a client sends what it last received;
a client with an empty name is announced again and again until it has one; a
broadcast may meet a client that is gone (SIGPIPE); with all slots in use accepted
sockets are forgotten. Correct if everyone in the room sees the same conversation,
under one name for each, and text is shown under its author's name.

**Tic-tac-toe** (`Source_codes_Ch7/server.c`, `client.c`). State: board, whose
turn it is, number of marks; at a client only its connection. Operations: prompt,
receive a move, report an error, send the board to both, judge, send the result
to both; the client answers prompts. Hard: two records for one answer (ERROR and
a new TURN), two sends one after the other to two clients, players who leave,
ints squeezed into chars. Correct if the protocol plays the game.

**Forking servers** (`Source_codes_Ch4/ccr_server.c`, `bai1labwork.c`,
`process/bai9_sau_accept.c`, and the quiz below). State: the parent's current
connection, who holds each socket open, the children, one pending SIGCHLD.
Operations: accept, fork, close, the SIGCHLD handler with its waitpid() loop, and
the child. Hard: signals are not queued, sockets are shared between processes,
fork() fails. Correct if every child is reaped (where there is a handler) and no
process keeps another's connection open.

**Echo sessions** of those servers, of `process/bai9_trc_accept.c`, whose workers
are forked beforehand and accept for themselves, and of `threads/bai7.c`, which
has a thread for each connection; the client is `ccr_client.c`. State: for each
session the buffer and what is under way in either direction. Hard: recv() cuts a
line anywhere, at both ends; a client is killed in the middle of an echo, which
kills the child, or all threads at once; silent clients use up the workers; at
the end of its input the client sends its last answer again. Correct if nothing
of a line is lost, repeated or invented, and who sends gets an answer.

**Quiz** (`bai2server.c`, `bai2client.c` on top of the former). State in a
child: question, options, place of the right option, score. Operations: shuffle,
ask, judge, send the score; the client asks its user when a question is in what
it received. Hard: the place of the right option must follow a shuffle; messages
arrive glued together; empty answers and departures. Correct if the score is
what the player earned from what was on the screen, and sessions end.

**Threaded echo** (`Source_codes_Ch4/multithreaded-server.c`,
`multithreaded-client.c`). State: `listen_fd` and `g_stop`, and one thread per
connection with its buffer. Operations: accept, create a detached thread, recv(),
a loop of partial send()s; the client sends a piece of input and reads one line
byte by byte. Hard: partial sends and receives, lines longer than the buffer, a
signal handler that closes the socket under accept(), a process-wide SIGPIPE.
Correct if the echoes stay aligned with the lines, one client's end leaves the
others alone, and SIGINT stops the server.

**Table echo servers** (`Source_codes_Ch5/single-process-select-server.c`, ten
slots behind select(); `bai-tap-poll/bai10.c`, an array shrunk by swap removal;
`bai-tap-select/bai12.c`, one variable for its one client; the client is
`bai13.c`). State: the table, the ready set or `revents`, the descriptors. Hard:
slots that nobody has cleared, a table that is full, an accept() that overwrites
a client, a failed read() taken for a length, clients that leave before their
answer. Correct if the table and the descriptors agree, nobody in the table is
forgotten, and everybody in it is served.

**select() pair** (`Source_codes_Ch5/select-server.c`, `select-client.c`). State:
one buffer for what the operator types and what the client sends. Hard: stdin
read ahead by stdio, the end of the input, a client that never reads. Correct if
neither end waits for ever in send().

**UDP decoding game** (`Source_codes_Ch6/bai-tap-lab/baitapserver.c`,
`baitapclient.c`). State: the server's phase (greeting or answer), the last word
sent, one address. Hard: one phase and one address for all clients, loss, no
time-out. Correct if every datagram is answered once, to its sender, and games
end.

**UDP acknowledgements** (`Source_codes_Ch6/udp-server.c`, one datagram and the
end, with its four clients, which differ in how they look at the sender of the
answer). Hard: datagrams queued behind the one that is answered, a stranger's
datagram, a port that nobody has. Correct if only the client that was heard is
acknowledged, and clients end unless their datagram was dropped.

**Line-reading echo** (`Source_codes_Ch3/bai3_server.c`, `bai3_client.c`). State:
the loop of readline(). Hard: its count at the end of the buffer and at the end
of file. Correct if the echo is the message.

**Shared counters** (`Source_codes_Ch4/bai-tap-ly-thuyet/threads/bai5.c`,
`bai6.c`, `bai8.c`, `bai9.c`). State: a counter, a mutex in two of them. Hard:
`counter++` is a load and a store. Correct if the mutex keeps every increment;
without it, what can be lost at worst.

**Others.** pselect(), the one-shot TCP programs, the language exercises and the
demonstrations of single calls have no state that outlives a call: see section 8.

### 1.2 How the parts interact

Through the kernel only: connections (a queue before accept(), a stream of bytes
in each direction, FIN or RST at the end), datagrams, descriptors, signals, and
processes that inherit descriptors. Each model therefore has, next to the
program's own variables, the kernel's: `conn`, `peer` or `gone` (what happened
to the other end), `fdtab` or `holders` (which descriptor or process has what
open), queues of bytes or messages. They behave as Linux does:

- a new descriptor is the lowest free one, and a closed number is soon another
  connection's;
- read() returns what has arrived, then 0 for ever after a FIN, or -1 once after
  a RST and 0 after that;
- the first send() to an end that is gone is lost or fails, a later one raises
  SIGPIPE, which ends a process that does not ignore it (none does);
- a signal interrupts a blocked call and nothing else, and a signal that is
  pending is one bit.


## 2. Modules

| module | models | composed with |
|---|---|---|
| `PollServer` | `ex_poll_server.c` | |
| `ChatServer` | `bai-tap-lab/server.c` and `client.c` of chapter 5 | |
| `TicTacToe` | abstract: the game as its players see it | |
| `TicTacToeNet` | `Source_codes_Ch7/server.c`, `client.c` | implements `TicTacToe` |
| `ForkServer` | the accept loop of `ccr_server.c`, its child left open | |
| `QuizServer` | `bai2server.c`, `bai2client.c` | extends and implements `ForkServer` |
| `ForkEcho` | the echo sessions of `ccr_server.c`, `bai1labwork.c`, `bai9_*.c`, `threads/bai7.c`, and `ccr_client.c` | extends and implements `ForkServer` |
| `EchoServers` | `single-process-select-server.c`, `bai10.c`, `bai12.c`, `bai13.c` | |
| `ThreadedEcho` | `multithreaded-server.c`, `multithreaded-client.c` | |
| `UdpGame` | `baitapserver.c`, `baitapclient.c` | |
| `UdpAck` | `udp-server.c` and its four clients | |
| `SelectPair` | `select-server.c`, `select-client.c` | |
| `Counters` | `threads/bai5.c`, `bai6.c`, `bai8.c`, `bai9.c` | |
| `ReadLine` | `bai3_server.c`, `bai3_client.c` and their copies | |
| `MCSmall` | runs `UdpGame`, `UdpAck`, `SelectPair` or `Counters`, one of them in a behaviour | |
| `MC...` | the definitions that the other configurations need | |
| `...Proofs` | the theorems and their proofs | |

`PROJECT.json` gives the source lines of every definition. Definitions whose
comment begins with "Mutant" belong to no specification: each is a form that a
plausible mistake would give the definition after it, and the property named
with it in `PROJECT.json` is violated when it takes that definition's place.

**PollServer.** `pc` walks through the loop: `check` (the `while` condition),
`enter` (between the condition and poll()), `poll`, `accept`, `scan`, `drain`,
`cleanup`. There is one action per system call or branch: `PollReturn` writes
`revents` of the first `nfds` slots, `AcceptAdd` stores a descriptor and an
address and leaves `revents` alone, as lines 176-181 do, `RemoveFd` is
`remove_fd()`. A chunk of data is counted, not spelled out (`sent`, `printed`).
`polled` is a history variable, for properties only.

**ChatServer.** A handler is one action, as the module's header explains: it
sends at most once to each client, and a client's departure concerns no send
but its own. A text is a sequence of pieces: words with the client that typed them,
newlines (`NewLine`), the server's own words (`Notice`) and what an array held before
it was written (`Junk`). So a name and a line read together are what the code makes
of them, one name, and an empty name or an empty line is a text without words.
`SendAll` is the loop of a broadcast, in the order of the slots, cut short by
SIGPIPE. `buffer` is a variable, because a failed read() leaves the last text in
it. A user name is shorter than its array (49 bytes); see section 8.

Of the client, `user` says how far it is with its input (`last`: a line without
newline was read, `end`: fgets() has failed), `clibuf` is its buffer and `heard` how
many of the messages in `out` it has received. What it receives matters once its
input has ended, when it sends its buffer again after every recv(): `SendAgain` is
that send() with the recv() calls before it, of one or more messages each
(`Joined`). A recv() before that is no step of its own, since the next line
overwrites what it left. Three constants bound what clients do: all of them together send
`MaxTexts` texts after their names, those in `Talkers` do more than enter
a name, `MaxLeaves` leave.

**TicTacToeNet** has one action per send() and recv(), because players can leave
between the two sends of a board. Records are 1024 bytes over the loopback
address that `client.c` names, and arrive whole. `Char` is the conversion of an
int to the char of a record: 257 and 256, typed for row and column, become 1 and
0 and are played, although the prompt asks for 0 to 2.

**ForkServer** and **QuizServer**. `holders[c]` are the processes that have
connection `c` open: end of file reaches the client when it is empty. The
handler of SIGCHLD runs between any two calls of the parent. `Shuffle` is one turn of
the loop of the shuffle with any random number. Several messages may be read by
one recv(), which is why `Receive` takes any prefix of the queue.

**ForkEcho** is five programs in one specification: `program`, chosen in `Init`,
says which runs, and the actions they share are written once. A session is
`stage[c]`; pieces of a line are counted (`hand`, `inbox`, `back`), since TCP
keeps their order, and `owed` counts what the client has sent and not seen again.
A worker of `bai9_trc_accept.c` is a session without a child of its own; a thread
of `bai7.c` shares the fate of its process (`down`). A failed pthread_create()
leaves the id of an older thread to be detached (`DetachStale`), or no id at all.

**EchoServers** likewise runs one of three programs. `slot` is the table of each,
`ready` what select() or poll() left; in the poll() server they are slots, not
descriptors, and they move with a removal (`Remove`), as the code copies the whole
`pollfd`. read() and the answer's send() are two steps.

**ThreadedEcho**: bytes are numbers that say which piece of input they belong
to, recv() returns and send() takes any part of what there is. The main thread
is where SIGINT is handled: the signal is delivered there because it is the
first thread of the process and blocks no signal.

**UdpGame**: the server receives and replies in one step, which nobody can
observe in between. A text is a kind and a word, XOR maps kinds to kinds.

**UdpAck**: all programs share a host, so that a datagram is lost only with the
socket that holds it or because nobody has the port. A client's kind is chosen in
`AckInit`; any stranger may send to it. The server is started again by hand
(`RunServer`, at most `MaxRuns` times).

**SelectPair**: a socket holds `Room` texts and send() blocks when it is full;
`piped` and `ahead` separate what select() sees of stdin from what fgets() has read
ahead of it. A buffer that nobody has written may hold the empty text.

**Counters**: an increment is `Load` and `Store`. The race is undefined behaviour,
of which the model has both forms a build gives: each increment stored, or the loop
folded into one addition (`step`).

**ReadLine**: byte by byte, to find what a full buffer does.


## 3. Runs

| run | instance | what it shows |
|---|---|---|
| `PollServer` | 3 clients, 2 client slots, 3 descriptors, 1 chunk each | `SlotTable`, `PassServesAll`, `ClosedRight` in every interleaving; queue drained, departures noticed, SIGINT obeyed once anything happens |
| `ChatRoom` | 3 clients, 3 slots, FIN and RST, 2 texts, 1 leaves, symmetric | slots, never a blocking read, one conversation for all, one name for each, nobody's words but typed or heard ones |
| `ChatLive` | 4 clients, 2 slots, 3 descriptors, 1 line, 1 leaves | whoever has a slot is read, whoever connects is accepted, with broadcasts and SIGPIPE, also when sockets leak |
| `TicTacToeGame` | the real board, 11 inputs, player 2 may leave | turns and answers in step, nobody on an old board, refinement of `TicTacToe`, the game ends |
| `QuizServer` | 2 players, 2 questions, 2 options, one player may leave | key, score, sessions end |
| `ForkEcho` | 3 clients of two workers, 2 of the servers that fork for each, 2 pieces a line | sockets, reaping, nothing lost or invented, answers |
| `EchoServers` | 3 clients, 2 slots, 3 descriptors, 2 texts | table, nobody forgotten, where recv() can block, what can kill, everybody served |
| `ThreadedEcho` | 2 clients, buffers of 3 bytes, 2 pieces, one may be killed | echoes aligned, isolation, SIGINT, echoes arrive |
| `SmallPrograms` | game: 3 clients, 2 words, one loses datagrams; acknowledgements: 2 clients of any kind, 2 runs; pair: sockets of 2 texts, 2 lines; counters: 4 increments each | one answer per datagram, phase, games end; who is acknowledged; who waits in send(); what a race loses |
| `PollServerHup` | 2 clients, 2 slots | violation, see section 6 |
| `ChatReset` | 3 clients, RST only | violation, see section 6 |
| `ReadLine` | buffer of 4 bytes | violation, see section 6 |

Why the bounds are enough for what the runs claim:

- *PollServer*: a swap removal needs two clients in slots, and a third to find
  the array full or to take the slot again. One descriptor more than slots lets
  an accepted socket be refused. One chunk distinguishes "data, then end of
  file" from "end of file"; a further chunk only repeats `DrainData`. The
  bound `MaxSent` hides one thing on purpose: the loop on recv() runs as long as
  a client keeps sending, and starves all others (see hazards). There is a
  descriptor for each client: an accept() that fails for want of one occurs in the
  proof of `SlotTable` only.
- *ChatServer*: three clients are an author and two listeners, which
  `SameConversation` needs. All enter names, so that several authors occur; one
  talks, has an empty name or comes to the end of its input. Two texts are the
  least for what is hard: after an empty name an empty line is announced and the
  next text is the name; the last line, or what was heard, is sent again. With a
  connection that is reset there is one text (`FewTexts`), which is enough for it to be
  left in the server's buffer. One client leaves,
  and its connection, slot and descriptor are free for another; what it had been sent
  is dropped then, and was checked in the state before. In `ChatLive` a scan
  meets two slots; a third client fills the slots, is leaked or takes the slot of one
  that left, and for a fourth no descriptor is left. SIGPIPE needs two sends to one
  client that is gone, a joining name and a line, or two names. `LiveNext` lets clients
  connect in the order of their numbers, which replaces the symmetry that
  liveness does not allow, and lets no input end: to whom a text belongs is nothing to
  these two properties. `ChatReset` has no texts but names.
- *TicTacToeNet* has no bound at all besides the inputs: all cells, one pair off the
  board and one that wraps to a cell. Which of the two players may leave
  matters, since player 1 is served first; player 2 covers both sides of the
  pair of sends. Marks stand for boards in messages, since a game only adds
  marks.
- *QuizServer*: two players for two sessions that overlap, two questions for a
  verdict that may be glued to the next question or to the score. Two options
  let an option be exchanged with itself or with the other one; for more options
  there is a proof.
- *ForkEcho*: two sessions overlap, end together (one pending SIGCHLD for both
  children) and share a process in `bai7.c`; a third client waits for one of two
  workers. Two pieces are the smallest line that recv() can cut. What holds of
  sockets and lines is proved for any number. `Conserved` counts pieces: an answer
  that the client shows for another line, since it takes one recv() for the whole
  echo, is not against it.
- *EchoServers*: with three descriptors the array of the poll() server has a
  middle, and with two slots a third socket of the select() server is kept
  nowhere. Two texts let a client send again before it leaves, which is what
  makes a departure deadly.
- *ThreadedEcho*: with `BUF_SIZE` 3 a piece with a newline, and one without,
  fills the buffer.
- *SmallPrograms*: in the game two clients exchange their phases, a third meets
  the result. Of two acknowledged clients one is heard and the other's datagram
  is behind it. Two texts fill a socket; the operator's repeated last line fills
  it in any case. Four increments leave room between the two that survive and the
  eight that were made; for any number there is a proof.

Deadlock is not checked: every program here really may stop or wait for ever,
for a client that never comes.

The properties, in one sentence each, stand above their definitions. Those that
say most: `PassServesAll` (removals under a running index never cost a client
its turn), `SameConversation`, `NeverBlocks`, `TurnDiscipline`, `GameSpec`,
`NoLeakedSocket`, `Conserved`, `ScoreFair`, `EchoedExactly`, `Remembered`,
`KilledOnlyBy`, `OneInFlight`.


## 4. Fairness

Fairness is stated for processes and threads, which the scheduler runs, and not
for users:

- weak fairness of the server's steps as a whole (`PollServer`, `ChatServer`,
  `TicTacToeNet`, `EchoServers`, `UdpGame`, `UdpAck`, `SelectPair`): one thread,
  of which some step is possible; in `ForkServer` and `QuizServer` of the parent
  and of each child, in `ForkEcho` also of the workers together (some worker
  accepts, not each), in `ThreadedEcho` of the main thread and of each thread;
- weak fairness of the clients' loops around recv();
- fgets() returns at once when the input has ended, so that `ForkEcho` and
  `SelectPair` have weak fairness of the client's loop from then on;
- users promise nothing: they need not connect, send or leave. There are two
  exceptions, without which a game cannot be said to end. In the quiz a user who
  is asked answers something (`Answering`, an empty line included). In
  TicTacToe a player who is prompted again and again at last types a free cell
  (`GoodMove`, strong fairness: each bad answer takes the prompt away and a new
  one follows);
- `PollError` is outside of fairness: poll() need never fail;
- datagrams of the clients in `MayLose` may be lost, all of them.


## 5. Proofs

All proofs hold for any values of the constants that meet the named assumptions
of the modules (`NoClient` is not a client, `MaxFds` is at least 1, descriptors are
positive, there is at least one question and one option, and so on). Any number
of clients, slots, texts and lines is meant, where the runs have two or three.
Every invariant and every action property of the passing runs is proved, with
`GameSpec`, the refinement. Each inductive invariant was checked by TLC on the
instance of its run before it was proved.

**PollServerProofs.** `TypeCorrect` proves `TypeOK` with `DrainSlot` (while
draining, `i` is a slot in use, without which `recv` could be on a free slot).
`SlotTableCorrect`: `SlotInv`, the types with `SlotsAligned`, is inductive; the
work is in `RemoveFdSlots`, where the last slot moves to the place of the
removed one, and in `AcceptAddSlots`. `PassServesAllCorrect` needs more, because
`PassServesAll` speaks of the end of a pass only:

- `SnapshotOld`: what poll() saw of a client lies in the past, so that no client
  has sent less by now;
- `Ahead`: a client that was reported and has not been served has its slot at or
  behind the index of the scan, with the events still in it. A removal moves the
  last slot, which is such a slot, to the index and does not pass it over;
- `Idle`: outside of the scan nobody is left over.

`PassInv` is their conjunction with `SlotInv`. `ClosedRightCorrect` rests on
`HupInv`: a hang-up in the slot of a client that poll() has reported on is that
client's own, which was reset; only a slot taken since may hold another's.

**ChatServerProofs.** One invariant, `Inv`, carries all five theorems:

- `TableInv`: a slot in use holds a descriptor of an open connection, no two the
  same, and a free one no name (`SlotTableCorrect`);
- `SetInv`: what select() left of its set ahead of the scan is still true. Two
  things could spoil it, and do not: accept() comes before the scan and returns a
  descriptor that is not in the set, and a close() in the scan frees
  one that the scan has passed. Hence `NeverBlocksCorrect`;
- `TextInv`: what is unread of a client and what is in its buffer consists of words
  that are its own or, once its input has ended, were sent to it (`OwnWords`);
  unless it was reset so do its name and what others were told of it. What has been
  sent to a client stays sent as long as it is there (`OwnOrHeardCorrect`);
- `PhaseInv`: nobody hears anything but while it has a slot; what was heard of a
  client under a name is under the name in its slot, or the client is gone; without a
  name it was only announced; and a leave is heard of those only who are gone. With it `KeepsName` and `SameConversation` become
  inductive (`RoomInv`): a handler either reaches everybody else present with its
  event, or kills the process, or tells nobody, as the one that reads the end of a
  client without a name (`Tells`). A client may be announced many times, so that
  `SameConversation` compares from announcements that have equally many after them;
  an announcement reaches both clients or neither, so that the numbers stay equal
  (`SameStep`).

The events of a handler are described once (`Tells`, `Says`), and what a
broadcast that SIGPIPE may cut short does to the queues once (`AllSent`).

**EchoServersProofs.** The three programs share `Inv`: each slot in use has a
connection of its own, the poll() server's are 1 to n (`TableInv`, `FdInv`), what was
reported of a slot still ahead is true but for a connection just accepted
(`ReportInv`), and a client has sent all texts that are unread, unanswered or
answered in vain (`CountInv`). `SlotTableCorrect` and `BlocksCorrect` follow from it.
`RememberedCorrect` and `KilledCorrect` are action properties: from `Inv`, no
step drops a connection (`NothingDropped`), and a send() that raises SIGPIPE finds an
answer sent in vain behind it, so that with the text in hand the client has sent
two.

**ForkServerProofs.** `NoLeakedSocketCorrect`: the inductive invariant `ForkInv`
adds to `NoLeakedSocket` that the parent has a connection exactly between
accept() and close(), and that a child exists only of a connection that was accepted
and is no longer waiting for fork().

**ForkEchoProofs.** `EchoImplementsFork`: every step of each of the five servers is
a step of `ForkServer` or leaves its variables alone. `ConservedCorrect`: the
inductive invariant `EchoInv` ties every session to what `ForkServer` knows of it
(`SessionInv`: a child runs exactly while its session is served, the buffer is
empty outside of `send`, nothing was answered before the session started, a
session is over only if its client is gone or the process is dead), so that the
balance of sent and received pieces holds from the first piece on. The cuts of a
line are any numbers, so that the proof is about sums. `EchoTypeCorrect` follows
from the same invariant.

**QuizServerProofs.** `KeyFollowsCorrect`: one exchange keeps "a permutation of
the options, and `correct` is the place of the right one" (`ExchangeKeepsOrder`,
for any number of options, with the two cases of the code: the right option is
one of the exchanged, or not, or exchanged with itself). `QuizImplementsFork`:
every step of the quiz is a step of `ForkServer` or leaves its variables alone;
hence `QuizNoLeakedSocket`. `InStepCorrect` and `ScoreFairCorrect` take both
results and add the sessions (`QuizInv`):

- `Underway`: only verdicts, one question and one score are ever on their way; the
  question is the last of them, and the one the child waits for an answer to, so
  that a player who has read it looks at the child's own options (`Playing`);
- `Counted`: the child's count is what the player's answers deserve, but for the one
  answer that is on its way.

**TicTacToeProofs.** `CheckWinnerCorrect`: the chain of `if`s in
`check_winner()` returns a player only if one of the eight lines is all that
player's, and 0 exactly if there is none. It speaks of every board of marks,
also of those that no game reaches.

`TurnDisciplineCorrect`, `NeverStaleCorrect` and `GameCorrect` come from `NetInv`, for
any inputs:

- `BoardInv`: the moves made are the marks on the board; the turn changes right
  after a move, before the two boards are sent, so that `current_player` agrees
  with the parity only outside of these steps;
- `Await`: for the player who is to move, exactly one of prompt, typing user and
  move is there, and none for the other, or for anyone at another time;
- `Shows`, `Behind`: the last board on its way to a player (or the one shown) is the
  server's, but while the server is about to send it;
- `Lasts`, `Verdict`: prompts and results are the last in their queue, and a result
  is the board's.

`GameCorrect` is the refinement: the initial state is the game's, `RecvValid` is its
`Play`, a client that receives a result is its `Tell`, and all other steps stutter
(`GameStep`).

**SmallProofs** has four small ones.

- *Counters*, `CountRightCorrect`: the inductive invariant `CountInv` says,
  under the mutex, that the counter is the number of stores made and what a thread
  has loaded is the counter (`Loading`, `Exact`); without it, that neither the
  counter nor what a thread has loaded exceeds the stores made, and that a thread
  which has stored once can load no 0 again (`Lossy`). The last store of all
  therefore adds 1 to at least 1, or is a whole loop at once: at least two remain.
- *UdpGame*, `OneInFlightCorrect` and `PhaseRestoredCorrect`. Without loss the server's
  phase is the parity of the number of clients that have had one of their two
  answers (`Parity`): if nobody plays it is even, and the server greets. A client
  that played alone was challenged with the text it is judged by (`Alone`).
- *UdpAck*, `AckRightCorrect`: of each run of the server at most one datagram is taken
  (`OnePerRun`), an answer in a socket comes from the server that took its owner's
  datagram, and only a client that asks nobody for the sender shows a
  stranger's (`HeardRight`).
- *ThreadedEcho*, `EchoedExactlyCorrect` and `OthersKeptCorrect`. For each client there
  is a sequence that continues what it has read and what is on its way to the
  piece it sent; while the connection is open, it is what its thread still has to
  send and to receive (`Echo`). recv_line() stops exactly at the end of the piece
  (`StopsAtEnd`): a piece ends with its newline or fills the buffer, and has no
  newline before, so that no byte is left over for the next one, and none is
  missing. `Left` says that only a killed client leaves an echo under way.

Only model-checked, and why:

- all liveness properties (`Attended`, `SigintStopsOnEvent`, `Served`, `Accepted`,
  `GameEnds`, `QuizEnds`, `HandlerReaps`, `Answered`, `SigintStops`, `EchoArrives`,
  `ClientFinishes`, `AskEnds`, `PairServed`): liveness under fairness needs ENABLED,
  which the prover does not have;
- `SelectPair`, of which only liveness is claimed;
- what the three runs of section 6 refute needs no proof: the counterexample is one.

Induction over data is beyond the prover as well, because the library's induction
theorems take an operator as parameter. Nothing above needs it: what is
recursive in the code is a state machine here (`Shuffle`), a set or a bound on a
sequence (`AllSent`, `Shows`). Of the one recursive function, `Joined`, the proofs need
that it is a text of the words that are in the messages; lemma `Joining` shows it
from the smallest number of messages for which it would fail.


## 6. What the runs found

- `PollServerHup`: a client accepted into a slot whose last occupant was removed
  for POLLHUP is itself removed as hung up, in the same turn of the loop: the
  slot's `revents` are not cleared (`ex_poll_server.c:176-193`).
- `ChatReset`: when read() returns -1 the server takes the buffer's old content
  for a message, and another client's text is broadcast under the name of the
  client that was reset (`server.c:142-163`). `OwnOrHeard` is what holds.
- `ReadLine`: readline() returns one byte too many when its buffer is full; the
  terminator is echoed, and the line printed with a terminator one past the
  array (`bai3_server.c:98,141`).

The models also show, mostly without a comment in the code that says otherwise:

- in the UDP game one lost answer exchanges the server's phases for all clients
  that follow (`baitapserver.c:114-115`); `PhaseRestored` holds only without
  loss, and overlapping games get each other's verdicts;
- at the end of its input a chat client sends what it last received, so that
  the others' words appear under its name without any reset
  (`Source_codes_Ch5/bai-tap-lab/client.c:59,70-71`);
- a chat client with an empty name is announced when it sends an empty line, and
  again with its next text, which is its name (`server.c:145-158`); hence an
  announcement need not be the first of a client (`KeepsName`);
- a user name and a line typed quickly after it become one name, in every copy
  alike (`Source_codes_Ch5/bai-tap-lab/server.c:149`);
- an empty answer in the quiz is a send() of no bytes, after which both sides wait
  (`bai2client.c:47`), and at the end of its input the client sends the question
  it last read as an answer (`bai2client.c:45`);
- a line without newline at the end of the input leaves client and readline()
  waiting for each other (`bai3_client.c:45`);
- in the threaded servers, a client killed in the middle of an echo ends the whole
  server by SIGPIPE (`multithreaded-server.c:77`, `threads/bai7.c:86`), and only
  that does (`OthersKept`); in the forking servers it ends its own child;
- a signal between the test of `g_stop` and poll() is not obeyed until a
  descriptor has an event (`ex_poll_server.c:135-136`, where `printf` promises
  "Ctrl+C to stop"); `SigintStopsOnEvent` is what holds;
- as many silent clients as there are workers keep all others of
  `bai9_trc_accept.c` waiting (`Exhausted`);
- at the end of its input `ccr_client.c` sends its last answer again and again
  (line 46), and so does `select-server.c` with its buffer (line 82), until its
  client's socket is full and it waits in send();
- `single-process-select-server.c` forgets an accepted socket when its slots are
  full (line 99) and sends to a connection that was reset (line 115);
  `bai12.c` overwrites the client it has (line 57); the only thread of `bai10.c`
  can block in recv() on a new connection (line 81), whose `revents` nobody set;
- `mem-check-client.c:55` says that comparing whole addresses always fails; both
  are zeroed and the kernel clears the bytes that hold nothing, so that it
  succeeds for the server's own answer;
- two threads that count to 1000 without a mutex may leave 2.


## 7. Abstractions common to the models

- Socket set-up (socket, bind, listen) comes before the initial state; if it
  fails the process ends.
- Printing is left out, except where a property is about what is shown.
- A message is whole where the code's own address is the loopback and messages
  are far shorter than the socket buffers (TicTacToe, quiz, chat). In `ChatServer`
  and `QuizServer` several may be read at once; in `ThreadedEcho` and `ReadLine`
  any split may happen.
- In the chat all texts are far shorter than the buffers, those a client repeats at
  the end of its input included, and a broadcast never waits for a client that does
  not read.
- `buffer[-1] = '\0'` after a failed read() (chat, `server.c:145`) is taken to
  fall on a byte that nothing looks at.
- In `ThreadedEcho` the second close() of `listen_fd` finds the number free:
  main() allocates no descriptor after the handler ran.


## 8. Not modelled

`PROJECT.json` lists every source file. Left out for good: the language exercises
of chapter 2, address conversion, demonstrations of one call each (socket,
getsockname, connect, fork, pthread_create, and thirty loops around select() or
poll() that print what is ready), `ex_pselect.c`, whose signal mask is open for
one wait only, and the one-shot TCP clients and servers. They are straight lines
of calls; a model would repeat them line by line and have nothing to check.

Within the modelled components: the socket set-up, the wording of messages, a chat
name of more than 49 bytes (what `strcpy` overwrites depends on the layout of memory),
the printing of a chat client and its end when it has lost the connection
(`bai-tap-lab/client.c:60-66`), the surviving TicTacToe client's endless loop on a closed connection
(`client.c:46`), which writes nothing, a record of TicTacToe that recv() would
cut, an answer of the quiz that fills the server's buffer (its client cannot send
one), connections past the end of the array of `bai10.c`, a pthread_create() or
fopen() that fails in the counters, and a line of the select() pair that is longer
than the buffer.


## 9. Plan

Done in this order: `PollServer` with its proofs, `TicTacToeNet`, `ChatServer`,
`ForkServer`, `QuizServer`, `ThreadedEcho`, `UdpGame`, `ReadLine`; then
`EchoServers`, `ForkEcho` with its proofs, `UdpAck`, `SelectPair`, `Counters` with
its proof.

No module is left to write: what section 8 names has no behaviour to check.

The safety properties are proved, in the order PollServer, ForkServer, the programs on
top of it, Counters; then EchoServers, ChatServer, UdpGame, UdpAck, the quiz's
sessions, TicTacToe with its refinement, ThreadedEcho.

Next: an abstract table of connections (a set of those that are watched, with room
for so many) that `PollServer`, `ChatServer` and `EchoServers` implement, with
`SlotTable` as a consequence; what `PollServer` promises a client as a specification
of its own (what it prints is a prefix of what the client sent).
