# OBD_RFID: a TLA+ model of the self-checkout system

The system sells goods with RFID tags. An RFID **reader** and a price
**display** stand at a till; a customer uses a **camera phone** to start the
scan, stop it and pay. A Linux **server** sits between them. This directory
holds TLA+ modules of the parts that carry the protocol, the TLC configurations
that check them on small instances, and TLAPS proofs of what matters most for
every instance.

All paths below are under `src/`.

## 1. Inventory

| Part | State | Operations |
|---|---|---|
| **Message queue** `LinuxServer/base/BaseVector.cpp` | a linked list, its head, a count, a lock | `AddBitSideHead` (adds at the *tail*), `BitSideNodeRemove`, `BitSideNodeGetCount`; one queue per session and one for the control thread |
| **TCP server, sessions** `LinuxServer/network/TCPServerHandle.cpp` | per server the listening socket and the session list; per session `iSocket`, `iBeginBandId`, its queue, its receive buffer | accept loop, send and receive thread per session, framing, broadcast or addressed `SendData` |
| **Device tables** `LinuxServer/serverControl/RfidDeque.cpp` | socket id -> device, one table for readers, one for displays | `addBufferMap`, `GetSocketId`, `GetDeviceId` |
| **Control thread** `LinuxServer/serverControl/ServerControl.cpp` | its queue, the two tables, the list of the tags of the current scan | one handler per type of message; the console's commands |
| **Reader protocol** `LinuxServer/rfid/Rfid.cpp` | none | `SwitchRfid` tells the events of a reader apart |
| **Database** `mysqllib/` | a connection, its error number, one result set | `GetDeviceInfo` (which display and which reader belong to a till), questions about goods as JSON documents turned into queries, rows turned back into documents, inserting and deleting |
| **JSON documents** `LinuxServer/base/BaseJson.cpp` (and three copies of it) | a tree of values, each with its text as stored | parse, write, escape, look up, add, replace, delete |
| **Timer** `LinuxServer/serverControl/ServerTimer.cpp` | a pool of timers | nothing adds one |
| **Configuration** `LinuxServer/config/configure.cpp` | a JSON document | not part of the server's build |
| **Camera phone** `ClientJNI/`, `ClientAndroid/` | a connection, a picture flag, the Java environment two threads share | scan, stop, pay, send pictures |
| **Price display** `DisplaysJNI/`, `DisplaysAndroid/` | a connection, a queue, the destination of the next confirmation, a list for the user interface, the bill on the screen | show goods, sum them up, confirm a payment, reconnect every 5 s |

How they interact: readers connect to port 6000 and displays and phones to port
15566. Each accepted connection gets a session with two threads. Receive threads
put what they read, together with the *number of the socket it came through*
(its source), into the queue of the control thread. The control thread handles
one message after another: it registers devices in the tables, translates the
till a phone names, or the source of a reader's message, by the database and
the tables into the socket id of a reader or a display, and puts the answer in
the queue of that session, whose send thread writes it out.

What is hard here:

* **Shared memory**: the list is read without its lock in three places;
  `iSocket` is written by two threads and read by both and by the control
  thread; a session runs before it is in the list of its server.
* **Ordering**: registrations sent through an old and a new connection of the
  same device are queued by different threads.
* **Staleness**: a source waits in the queue while the connection it names
  ends and others are accepted; the number 0 means "nowhere" to the routing code and
  "everybody" to `TcpServer::SendData`.
* **Undefined behaviour**: `addBufferMap` increments an iterator it has erased.
* **Streams**: `recv` cuts a stream anywhere, `send` takes a part of a frame.
* **Money**: the reader, the server and the display each have their own idea of
  the current scan, and nothing waits for the others.
* **Text**: a price goes through a JSON document, a query, a row, a document
  and a text cut at marks before it is a number again.
* **Failure**: look-ups fail, connections break, servers fail to start.

What makes each part correct is listed per module in section 3; the hazards with
their lines are in `PROJECT.json`.

## 2. Plan

Done, most important first:

1. `BitSideQueue` (refines `FifoQueue`), because everything else assumes queues;
2. `RfidRegistry` over `RfidDeque` (refines `RouteTable`), the routes;
3. `ServerControl` over `RfidDeque`, the handlers with the sessions around;
4. `FrameParser`, the receive buffer;
5. `ServerStart`, because a start can fail, hang or be repeated while
   connections arrive;
6. `DisplayLink`, the client whose timers, threads and reconnections
   `ServerControl` relies on;
7. `JsonText`, `Json`, `JsonDocument` (against `JsonContent`) and `Goods`, `GoodsStore` over `ResultSet`: the
   way of a price, pure functions checked over bounded inputs;
8. `ClientLink`, the phone with its two threads;
9. `Checkout` (refines `BillBook`): phones, reader, control thread and
   display together, at their own pace.

`Checkout` composes what the modules before it establish one by one: that
messages reach the right till (`ServerControl`), that the display's list keeps
its order (`DisplayLink`), that frames are whole (`FrameParser`, `ClientLink`) and
what a price is (`GoodsStore`).

Next, in this order:

10. `TcpSession`: the life of one session in steps of single reads of `iSocket`
    (send thread, receive thread, the broken `select` set, `ReceivedFrameReset`
    after a failed `malloc`), composed with `FifoQueue`.
11. `ReaderStream`: what a reader sends is not cut into frames
    (`TCPServerHandle.cpp` 475), so that two events may be taken for one.
12. The pure algorithms `RfidCommand` (the checksum that `RFIDWrite` accumulates
    in the command itself from one call to the next, `ServerControl.cpp` 177-193) and
    `ServerTimer`.

## 3. Modules and what the runs show

A definition named `X_Y` directly before a definition `X` and marked *Variant*
is the same definition with a plausible bug. No specification uses it; each
property of each run is known to fail when `X` is replaced by the variant that
`PROJECT.json` names under `mutants`, which shows that the property can fail.

### `BitSideQueue` (with `FifoQueue`, `MCBitSideQueue`)

One queue, any set of producers, one reader; one step per access to shared
memory. Cells are `Cell`; `heap` is the set of those allocated, so that a freed
cell may be allocated again. `polls` selects the reader: a session's send
thread looks at `nCnt` first, the control thread does not.

Run `queue` (three producers, four cells, both readers: `polls` is chosen at
the start; under fairness):

* `NoWildAccess`: nothing dereferences NULL or a freed cell. The head tested
  without the lock is still there when the lock is held, because there is only one
  reader.
* `ListIsBacklog`: nothing is lost, repeated or overtaken.
* `ImplementsFifo`: the refinement of `FifoQueue`.
* `QuietQueueDrains`: the unlocked count never strands a message.

Three cells make a list in which the producer's walk has a first, an inner and
a last cell, and a fourth is freed and allocated again meanwhile; of three producers
two wait for the lock that the third holds. *Fairness*: a thread inside
`AddBitSideHead` and the reader's loop go on whenever they can (they are
ordinary threads and the critical sections are finite); no order among those
that wait for the lock is assumed, and no producer is obliged to start an
addition.

### `RfidDeque`, `RfidRegistry` (with `RouteTable`, `MCRfidRegistry`)

`RfidDeque` holds the table's operators. A table is a function from socket ids
to devices (NULL: no entry). The undefined iterator step of `addBufferMap` is a
choice: after the first removal the walk may pass over any later match. Walks that leave
the tree (a crash) are not considered.

`RfidRegistry` puts the races around one table: connections come and go, a
receive thread reads `iSocket` after `recv`, a send thread that had something
to write sets it to -1 in between. Descriptors of ended sessions are never closed
(`TCPServerHandle.cpp` 390 and 462 only forget them), hence never used twice.

Run `registry`, of either table: readers and displays register any number of times
per connection (a display in fact once, `OncePerConnection` of `DisplayLink`), and both
servers send to sessions nothing has registered on: `RFIDAutoScan` to all readers,
`CONFIRM_PAY_MENT` with the destination 0 to all displays and phones
(`ServerControl.cpp` 567). A display that has just connected can so lose its socket
between its registration's `recv` and line 501.

* `NeverMisrouted`: a socket id stored for a device belongs to that device,
  whatever races.
* `UnracedRoute`: until a registration of the device itself carries -1, its route
  is its last registration, whatever happens to the others.
* `ImplementsRouteTable`: the table is a `RouteTable`. Registrations take effect in
  order, each on its own device alone; one that has lost its source (-1) spoils the route of
  its device and no other. Of that device's route nothing more is promised: the next -1 makes
  the undefined walk pass over entries, so that an old connection can come back.

The system stops when all connections are used up, so that deadlock is not
checked.

Two devices and three connections: one device can reconnect while the other
holds an entry, and registrations of two connections of one device can
overtake each other. After a raced registration the table may hold -1 for a device, and
another raced message is then taken for that device's (`UnracedRoute` and `RightTill`
except exactly this).

### `ServerControl` (with `MCServerControl`)

All handlers of the control thread with both servers around. A handler is one
step: tables and list belong to the control thread, and what other threads
change in between (a session ends, a session enters the list) has the effect it has
just before or after the step. Its queue is the FIFO of `BitSideQueue`.
Messages are `[type, dest, tag]`; the two types EPC_DATA and EPC_DATA_EPCID, and the three
types of picture, are handled alike and are one type each. `output` holds the
frames queued by the last step, with what they are about.
A reader's events are taken to arrive one per `recv` (the code does not frame
them). A query may fail when `DbMayFail`.

* `two_tills` (two tills with a reader and a display each, one phone, failing
  queries):
  `RightTill` (commands go to the reader and goods, pictures and payments to the display of
  the till they are about; a failed look-up never becomes a broadcast),
  `AnswerGoesBack` (the display is given the connection of the phone that asked) and
  `ShownOnce` (no tag is put on a display twice before a reader reports the end of its scan,
  although the readers share one list). The only exception to the first two is
  the -1 source described above.
* `pay` (one till, under fairness): `PayReachesDisplay`. *Fairness*: the control
  thread keeps taking messages (it never blocks: it polls), and the
  accept loop finishes the call of `AddTcpSession` it is in. Nothing is assumed of the network or
  of the devices.

Bounds: at most `MaxQueue` waiting messages (one or two: enough for a
message to become stale behind another), three connections, which any of the
parties may hold: those of one till at once, or devices of both tills, or one device
again after its first connection ended. `Kinds` restricts a run to the messages its question is about.

Known behaviour of the code that is described and no property: a till without a
reader gets no request to pay on its display (532-536); the list is shared by
all readers and cleared by any of them (374); `RFIDWrite` accumulates its
checksum in the command (188); ended sessions stay in the list and keep their descriptors (the
thread of `TCPServerHandle.cpp` 64 is not started); the reads of `iSocket` by
the two threads of a session (430), the count nothing writes (436), the bytes of a
reader that are not cut into frames (475) and the buffer that
`ReceivedFrameReset` frees but keeps (509).

### `FrameParser` (with `MCFrameParser`)

`TCPSession::OnReceivedData`. The bytes of the stream are numbered and the
buffer is the interval it holds, so that the model does not copy bytes. Line 556
tests the length of the whole buffer instead of what is left of it: the loop also
looks at length fields of which only a part, or nothing, has arrived; what it
then reads is any number. Run `framing`: every cut of a stream of seven frames with and without
payload: `FramesInOrder` (whole, once, in order), `InBuffer` (the
copies stay in the buffer), and `OnlyBareHeaderWaits`: a complete frame waits
only when it has no payload and nothing else is in the buffer. Header and buffer sizes are
scaled down (3 and 4 bytes); the proofs hold for all sizes. `malloc` succeeds, and a
length field plus a header does not wrap (`unsigned long` of 64 bits).
The stream ends and the parser waits: deadlock is not checked.

### `ServerStart` (with `MCServerStart`)

The console of `testbin/main.cpp` and `CServerControlInit` as the main thread
(`pc`), and around it the accept threads (`apply`), sessions and messages, which
exist from the moment `CreateTcpServer` started its thread. `OpenSocket` is
`CreateSocket`, `BindBySocket` and `ListenBySocket`; the other calls of the start
are a step each. A `TcpServer` that is made has a lock that was not created yet
(`wmMutex` is "garbage"): using it does nothing or ends the process.

* `start_console` (under fairness): `AcceptLoopSafe` (no accept thread works on a deleted
  server, nor without its lock), `StartedIsWhole` (typing 1 again does not touch
  what runs, because `MariaDBLibInitialze` refuses), `CleanFailure` (a start that came back
  without success left no thread, connection or port), `EarlyMessageHandled` (a message that found the
  queue is handled). One that came before the queue existed is dropped, because
  `AddBitSideHead` returns when there is none; the test in
  `ReceiveTcpHandleBuff` itself joins its two conditions with `&&` and never applies.
* `start_returns` (expected violation): the header promises a result; when the
  second server cannot be created there is none, because the accept thread of
  the first is joined and goes on for ever with the socket -1.

Known behaviour: `BindBySocket` falls back to any port when the one it is given is
taken, and reports success (`SocketLib.cpp` 265); devices then find no server.

Bounds: two readers, of which one may connect while the other is being
accepted, a display, and three commands: two starts and a command between or
after them. *Fairness*: the main thread goes on by itself within a command, accept
threads get from one test to the next, the control thread runs. Nobody has to
type or to connect. The console stops after the last command: deadlock is not checked.

`AcceptLoopSafe` and `CleanFailure` hold together with the hang of
`start_returns`: the server is not deleted *because* the join never returns.

### `DisplayLink` (with `MCDisplayLink`)

The display's `TCPHandle` with its two threads, and `RfidActivity` with its user interface thread.
Objects are numbered in the order they are made. Time is counted in seconds and only to
order the timers (`tick` for `RuningThread`, `regs` for the posts of
`TimeThread`): `Elapse` goes to the next one that is due, and a timer that is
due fires before time goes on. The
list of `CreateQueue` is an `ArrayList` that two threads change without a lock,
because `Mutex.lock` never sets `bIsLock`. Once a removal has overlapped an addition (`overlapped`)
the list may lose, keep or repeat an item or have a hole. A frame has a text that the callback
can read, or one that ends the process: without a number where `parseInt` wants one (the exception is
still pending when the thread detaches), or of the wrong size (more than the 256 bytes of
`pCurrentBuff`, or less than the picture its header promises: undefined, the process ends or goes on).

Run `display_link` (three connections, two faults, two frames, under fairness):

* the timers: `OncePerConnection` and
  `KeptIsRegistered`;
* the confirmation: `QuietConfirmation` (it goes to the phone that asked unless
  something else came meanwhile or the connection changed);
* the screen: `ShownInOrder` (until a removal overlaps an addition, what arrives is
  shown once and in its order, across reconnections too) and `CrashHasCause` (the display crashes only
  from such an overlap, from a thread that `Close` did not wait for because the
  other one had given the socket up, and that uses the deleted object, or in the callback for a frame
  it cannot read);
* the whole: `Recovers`.

Two frames: one waits or is being taken while another arrives. One phone beside
the destination 0 is enough for a confirmation that goes astray. There is a
connection for each fault and one more, so that the bound never stops a recovery.
*Fairness*: timers fire and the threads go on; on a lost connection a look at
the connection fails in the end, though any number of sends may go to the
socket's buffer first (strong fairness of `NotConnected`). The display idles when
the bounds are used up: deadlock is not checked.

Known behaviour that is described and no property: a send that
took more than a second is a lost connection (`TCPHandle.cpp` 147); a thread
left behind may crash the display; a look at a lost connection leaks its buffer
(139); an activity that Android creates anew is not considered.

### `JsonText`, `Json`, `JsonDocument` (with `JsonContent`, `MCJsonDocument`)

`BaseJson.cpp`, of which the database library, the phone and the display have copies that
differ in log lines only; the lines are those of the server's. A text is a sequence of characters (words such as
`null` count as one), and a value keeps the text as it is stored, that is, escaped:
whether a caller asked for escaping makes a difference for the length, the
search for the end of a string, and reading. `JsonText` escapes, writes, measures and parses, as recursive
functions along a text or over the levels of a document (`Doc`, `MaxDepth`); `WellFormedDoc` are the
documents that a text can say. `Json` looks things up in documents and changes them.

`JsonDocument` is one document in the hands of its users: any operation the
system uses, on the document or on a child of it, and passing it on as text.
`JsonContent` says what a document means, without its text.

Run `json` (at most two children with one child each, two keys of which one is a
prefix of the other, six texts with quotes, backslashes, brackets, blanks and line
ends, alone and next to each other, two numbers): `ReadsBack` (a document comes
back unchanged from its text, every text as it was put in), `BufferFits` (`getStrLen` and
`encodeCheck` compute exactly the memory that `c_str` and `encode` fill),
`ActsAsContent` (whatever was done before, each operation does to the meaning
what `JsonContent` says). No document of the run has more than five levels (`MaxDepth`): `c_str` of
a deeper one would end the run with an error. Two children show first, middle and last positions of commas
and of what is deleted; one level below them shows nesting.

Left out: text that is not well formed, fractions and exponents, UTF-16, texts
beyond `JS_MAX_STR_LEN`. Known behaviour: `operator[]` with a key that is
not there answers the object itself, so that an assignment overwrites it
(783; `Store` of `JsonContent` says so); `addValNoRepeat` compares stored with
given texts, so that an escaped text is never found (1614); a number of more than nine
characters is cut (935 and 1367, `Printed`), so that it does not come back, and `NumberAssumption`
keeps to shorter ones.

### `Goods`, `GoodsStore`, `ResultSet` (with `MCGoodsStore`)

The way of a price: the control thread makes a question for a tag (`CreateJsonDate`,
`TagQuestion`), the database library reads the criteria from it
(`SetCheckItems`), makes conditions of them (`GetCheckItems`) and a document of the
rows (`Answer`), and the display cuts the text of the document into fields and
multiplies (`NotifyForSystemString`). What MariaDB does with a query is external: `Select`
filters by the conditions (`Holds`). A text that is asked for as it is (`= '%s'`, 223 and 319) is compared
in the collation of the table, which takes no notice of blanks at the end and, with the collation
`dwm.sql` leaves as default, of upper and lower case (`SameText`, with `Fold` as a constant). A text that is
asked for as a beginning (`REGEXP BINARY '^%s.*'`, 208 and 304) is compared exactly (`StartsWith`) as long as no character of it is
a mark of a pattern (`NoPattern`). The text is spliced in as it came, without escaping: with an apostrophe or a
backslash in it, the query is another one or an error (`Literal`). What such a query or
pattern finds is not modelled, and no property says anything about it. `ResultSet` is the connection of `MysqlDB.cpp`, which may be lost, with its
error number and its result set; it has a specification of its own (`DbSpec`). `GoodsStore` puts a table and the
connection around the functions: each of its steps is, on the variables of `ResultSet`, one of `DbNext`.

The table is empty at first or holds a row that was loaded (`dwm.sql`, another program), which may have texts in it
that `InsertValueIntoTable` could not write (`Writable`). Texts of rows are as they come back from a column:
at most 64 characters, without blanks at the end.

Run `goods` (at most three rows, of four; three tags; 120 questions of up to five criteria):
`PriceShown` (the price on the screen is that of the goods with this tag), with
the exceptions in `Carried`: a mark or quote in the name, a product beyond
`int`, and a tag that reads as the number 1, which `atoi` takes for the wish to
search for a beginning (`MariaDBLibInterface.cpp` 143); `FindsWhatIsAsked` (any
combination of criteria that can be said finds the rows that fulfil all of them, and the query is
well formed; `Said` leaves out numbers of more than nine digits, which `operator=` cuts, texts that end
their literal or are longer than a column, and beginnings with a mark of a pattern: 48 of the questions are of the
last two kinds and show that the model has them); `FreedOnce` (a result set is freed once, unless a ping failed while one was
held: `SQLClose` then keeps its pointer, `MysqlDB.cpp` 105; nothing in the running server calls the ping; defined in `ResultSet`). `IntLimit` is
20000 instead of 2^31, so that prices reach it.

Known behaviour: a lost connection is never made again; each condition is cut at
`NAME_STRING_LEN` characters (169); a failed query is noticed by the connection's error number
alone (36).

### `ClientLink` (with `MCClientLink`)

The phone's `TCPHandle` under `VideoActivity`: the thread of the user interface
sends on the socket itself, in parts; the receive thread selects on descriptors of which some
are read from memory nothing initialises, and hands what it reads to Java through
`jniEnvControl`, which both threads use. A second activity in the process finds
the handle of the first: its socket replaces the other, and the receive thread is
not started again.

Run `phone` (two activities, two buttons, one frame to everybody, frames of two parts;
under fairness): `WholeFrames` (the server never gets a mixed frame, whatever
sends fail or take a part only), `CutOnlyByRestart` (nor half a frame on a connection that
stands, while there has been one activity), `OnePictureForAScan`, `ForeignEnvNeedsFrame`
(the user interface calls the environment of another or a dead thread
only after a frame reached the phone), `LossIsNoticed` (a broken connection is given
up, or `select` ended the thread) and `PictureComes`. Two activities are
needed for a socket that replaces another, a third adds none of a new kind; a frame of two
parts can be cut in one place. *Fairness*: both threads go on, and a camera that is on
delivers pictures. Nobody has to press a button and nothing has to be
answered. The system stops when everything is used up: deadlock is not checked.

Known behaviour: `SendDataNow` reports success after a send failed in the middle of a frame
(`TCPHandle.cpp` 167), although `ClientMainControl.h` 24-45 speaks of the send's
success, and no caller looks at the result of a button;
`onPause` releases the camera and nothing opens it again; the
receive thread that lost the first connection invalidates the socket of the second
(352).

### `Checkout` (with `BillBook`, `MCCheckout`)

One till: phones, reader, control thread and display. The order of the
messages of one sender is kept, that of different senders is arbitrary. Commands to
the reader, messages of the phones and confirmations of the display take their
time, as does the display's user interface. Two delays are merged with others: a frame is received by the
display in the step that sends it, and what the reader reports is handled in the
step that reports it; each has one sender and one receiver, and to be late with it is to be late
with everything the receiver does. Frames are ones the display can read (one it cannot read may end it,
`DisplayLink`). `InTheEnd` is the screen as it will be when all waiting items
are shown, and what will be confirmed.

Run `checkout` (phones 5 and 6, the display's connection 4, till number 1, a
cup for 3 and a gift for 0, failing queries, three buttons or commands of which one may be typed
at the console, two messages of a phone on their way; under fairness):

* `ImplementsBillBook`: the till is a `BillBook`. However far the display lags
  behind, a payment is for the goods the server had put on the bill when it handled the
  request, and every request is confirmed once and in order, with the sum of
  the list on the screen. (What costs nothing may be missing on the screen: a bill
  whose sum is 0 is cleared with the next good.)
* `BilledOnce`: while the reader scans for the open bill, the server's list of known tags and
  the bill in the display agree: a good that is ignored as known is on the bill exactly
  once, unless its query failed. After a command typed at the console it may be there
  again.
* `ConfirmedToAsker`: an undisturbed payment is confirmed to the phone that asked
  and to no other.
* `PaymentAnswered`: each request is followed by such a confirmation, or was
  disturbed.

Three actions are a scan, a stop or payment by one phone, and something by the other or at
the console between or after them; the connections are numbers since the code confuses
0, the till's number and connections, not because their values matter.
*Fairness*: the control thread takes the messages of every sender (they are in
one queue) and the display's user interface goes on. Nothing is assumed of the reader or of customers,
who may stop: deadlock is not checked.

Known behaviour, which `ConfirmedToAsker` names as a disturbance: a tag reported before
the reader obeyed the stop, a picture, or another request reaches the display before it
has taken up the request, and overwrites `ulDest` (`TCPHandle.cpp` 420): the
confirmation then goes to another phone, to everybody (0), or to nobody (a connection that is not a
phone's). What a reader answers to a read typed at the console (`EPC_DATA`) has the number of a request to pay and closes the
bill. A phone's stop clears the bill of whoever scanned.

## 4. Proofs

| Module | Theorems |
|---|---|
| `Server_proofs` (of `BitSideQueue`) | `TypeCorrect`, `MemorySafe` (`NoWildAccess`), `ListCorrect` (`ListIsBacklog`, `CountFollowsList`, `OneOwner`), `Refinement` (`ImplementsFifo`) |
| `RfidRegistry_proofs` | `TypeCorrect`, `RoutedToOwner` (`NeverMisrouted`), `RouteCorrect` (`UnracedRoute`), `Refinement` (`ImplementsRouteTable`) |
| `Wire_proofs` (of `FrameParser`) | `TypeCorrect`, `Framing` (`FramesInOrder`), `Promptness` (`OnlyBareHeaderWaits`), `Bounded` (`InBuffer`) |
| `Wire_proofs` (of `JsonText`) | `EscapingFits`, `DecodesStored`, `StoredEndsAtQuote`, `WritingFits`, `WrittenIsRead` |
| `Wire_proofs` (of `JsonDocument`) | `StaysWellFormed`, `ComesBack` (`ReadsBack`), `NothingIsCutOff` (`BufferFits`), `ActsAsSaid` (`ActsAsContent`) |
| `Server_proofs` (of `ServerStart`) | `StartTypeCorrect`, `ThreadsSafe` (`AcceptLoopSafe`), `StaysWhole` (`StartedIsWhole`), `FailsCleanly` (`CleanFailure`) |
| `Goods_proofs` (of `ResultSet`) | `NotFreedTwice` (`FreedOnce`) |
| `Goods_proofs` (of `GoodsStore`) | `RefinesDb`, `StoreFreesOnce` (`FreedOnce`), `FindsAsked` (`FindsWhatIsAsked`), `PriceIsShown` (`PriceShown`) |
| `ServerControl_proofs` | `TypeCorrect`, `Routed` (`RightTill`), `Answered` (`AnswerGoesBack`), `NotTwice` (`ShownOnce`) |
| `DisplayLink_proofs` | `TypeCorrect`, `RegisteredOnce` (`OncePerConnection`), `Kept` (`KeptIsRegistered`), `InOrder` (`ShownInOrder`), `CrashCauses` (`CrashHasCause`), `ToAsker` (`QuietConfirmation`) |
| `ClientLink_proofs` | `TypeCorrect`, `Whole` (`WholeFrames`), `NotCut` (`CutOnlyByRestart`), `ForeignEnv` (`ForeignEnvNeedsFrame`), `OnePicture` (`OnePictureForAScan`) |
| `Checkout_proofs` | `TypeCorrect`, `RightCustomer` (`ConfirmedToAsker`), `Refinement` (`ImplementsBillBook`), `BilledOnceAlways` (`BilledOnce`) |

All theorems hold for every value of the constants that satisfies the
assumptions stated beside them. Where something is computed or counted along a sequence, the
proof is an induction over a set of numbers: a nonempty set of numbers has a least element (`NatMin`, from the
library's theorem on well-founded relations), and a set that holds 0 and with each number the next one
holds all (`UpTo`). The type invariants of `ServerControl`, `DisplayLink`, `ClientLink` and
`Checkout` are part of what is proved and not checked again by the runs.

Each rests on one or more inductive invariants:

* *Queue.* The properties are not inductive: that removing the head is safe
  needs that the head the reader saw unlocked stays (`SeenHeadStays`: only the
  reader removes), that the lock is held where it is needed (`LockOwner`), that
  a walking producer is on the list (`WalkIsOnList`) and that a cell which is
  not yet linked points nowhere (`NewCellEndsList`). Assumed: the reader is no
  producer, NULL is no cell. The refinement maps the queue to the history
  `backlog`, which `ListIsBacklog` ties to the list in memory.
* *Registry.* `OwnerKnown` (a source in the queue belongs to the device that
  sent it) and `MapIsLatest` (one entry per device while none of its own registrations
  raced, so that the undefined walk has nothing of it to pass over; the entry at -1,
  which raced devices take from each other, is never that of such a device).
* *Parser.* `Place`: the buffer ends where the stream has got to, and what is
  left of it starts at a frame. Assumed: the constants are sizes, and the lengths of the frames
  fit their field; that each frame starts behind the ones before it follows by induction (`Increasing`).
* *Start.* For each place of the main thread, how far the two servers are:
  idle, open without a thread, or up (`OpeningFirst`, `OpeningSecond`,
  `Finishing`, `AtMenu`, `WhenStarted`). That the join does not return is what
  keeps `OpeningSecond` from reaching the deletion. Assumed: each client dials one of the two servers.
* *Control thread.* `QueueKnown` (a message is one its sender can say and, unless it
  lost its source, came from the connection it names), `TablesKnown` (a
  connection stored for a device is its own) and `AliveKnown`. A look-up then
  finds a connection of the device asked for or nothing, and the handlers are shown
  to send nothing when one of the two look-ups fails. Assumed: readers, displays and
  phones are different parties, each device is at one till, connections are
  numbers above 0.
* *Display.* `Timers`: the post of the registration is always two seconds ahead
  of the look at the connection, so that it has run, once, before the look may
  replace the connection. `Ordered`: until an overlap, there are as many posts of `drawThread` as
  items, which stand in the order of arrival, and nothing that is still to be
  added was shown. `NoneLeft`: until `Close` skips a join, all threads belong
  to the current object and none is left when it is deleted; beside a frame that cannot be read, which is its own
  way to end, that leaves the overlap (`PostFindsItem`). `Quiet`: if nothing came after an item, the
  destination is still that of the item.
* *Phone.* `Numbered` (connections are made in the order of their numbers), `Streams` with
  `AtEnd` (the last part the server has is the one before what is being sent) and `Alone` (with
  one activity the receive thread gives up no connection that stands); for the
  Java environment `Foreign` (where a foreign environment can come from).
  For the pictures, `PictureOwed`: as long as a picture may be sent, the connection has seen a scan
  more than pictures; sending a part counts once or not at all (`SeenSame`, `SeenOnceMore`).
* *Till.* `AloneIsLast`: a request that nothing followed is the last item, and
  `ulDest` is still the one of its frame. The refinement maps the bill to the goods on the screen *in the end*
  (`InTheEnd`), so that it needs what showing the waiting items does, in terms of the first and of the last of
  them (`FirstItem`, `LastItem`), and `HonestScreen`: the sum the display keeps is the sum of its list. `BilledOnce` needs
  `BillInv`: the commands carry the numbers of the bills in order (`Numbered`, `InOrder`), what is
  known is on the open bill (`KnownListed`) and, until a command is typed, nothing else is, and nothing twice
  (`OnlyKnown`).
* *Result set.* `Held`: until a ping fails, no error is pending while a result is held. The steps of
  `GoodsStore` are steps of `ResultSet` (`RefinesDb`), so that this holds behind the calls of the control thread, too.
* *Goods.* The invariant is that the table consists of rows that were loaded or that somebody inserted. It needs that the document of a row
  is read as that row (`RowComesBack`: each column is written under its own key and read from it, a number through its
  digits; without one of its numbers a row is refused) and that deleting leaves rows (`InOrderHas`). `FindsAsked` then follows a question:
  its document has every key and, of each column, what is asked for (`NothingAsked`, `AskedUpTo`, with `SameItem`: what is read for a column is in the
  keys of this column alone); `setCheckItems` reads it from there (`AllAsked`), the
  conditions are those of the columns that are asked for (`AskedAre`), and each holds where its criterion does
  (`ConditionHolds`); its texts are those of the question, so that the literals end where the query ends them
(`ConditionIsLiteral`). `Goods_proofs` extends `Wire_proofs` and so takes its constants and assumptions along. Assumed:
  numbers are of type `int` and not negative, what a tag or a time says has no marks in it, a time is written in one form
  (`IsTime`), nothing in a tag is escaped or is a mark of a literal or a pattern, a tag is spelt in the table as readers
  spell it (`SpellingAssumption`), texts of rows are as a column gives them back, a question
  asks for a number by a range, for a time by another, for a name as it is or by its beginning, and for a tag as the
  tag itself decides (`TextItem`), and `MaxDepth` is at least 5.
  `PriceIsShown` has the invariant `ShownInv`, that the table consists of such rows and that the screen shows what is due; only a
  report disturbs it. The question about a tag finds the rows with it (`RowsOfTag`: where the tag reads as the number 1,
  because the tags are equally long, which `Carried` says; elsewhere because of the spelling). The answer is then followed as a text. A row's text needs no
  escaping and is read as one token (`RawIsToken`), so that the list of the candidates is a document of five levels
  (`Whole`, `AnswerIs`) and is written as such; before the text of its first row no mark is written, and it stands in
  quotes there (`Leads`, from level to level: `LeadsItem`, `LeadsArray`, `LeadsObject`). The display cuts at marks and takes the eighth piece up to
  the quote: `FieldIsPiece` says what a piece between two marks is, `CutUp` that the pieces are the columns,
  `QuoteCut` that the quote ends the last one. The numbers come back from their digits (`ColumnTexts`), and their
  product does not wrap (`NoWrap`), again because of `Carried`.
* *Document.* `Inv`: the document is well formed and has at most three levels, as have, with one level
  less, its children, and no key of it is there twice (`Distinct`). Every operation is followed branch by branch (`AddedKey`, `DeletedKey`, `AddedVal`,
  `DeletedVal`, `Assigned`), on the document and on a child of it. What is added was read from a text, which is why
  reading has to be understood first. `ActsAsSaid` needs the keys to be distinct: the meaning of an object is then
  the one function that has, for each place, the meaning of the child there at the key there (`IsMap`, `SameMap`), so
  that it is enough to follow places where a property is added, replaced or taken out (`MapWithNew`, `MapReplaced`,
  `MapWithout`); arrays likewise (`ListWithNew`, `ListWithout`). What is added has no children and means the same on
  every level (`FlatMeans`), and a number is read as it was printed (`NumberComesBack`). Assumed: the keys need no escaping, texts are texts, numbers have at most nine digits,
  and `MaxDepth` is at least 3.

The theorems about `JsonText` are no invariants but say what its functions compute, for
every text and every document. The recursive functions are unfolded once, as the results of a computation from
the left (`EncodeIs`, `DecodeIs`, `JoinedIs`, `TrimIs`, ...), from the right (`ContainerEndIs`, `ElementsIs`,
`MembersIs`) or from the inside (`DocIs`, `WrittenIs`, `MeasuredIs`, `ParsedIs`). `EscapingFits`:
`encodeCheck` computes the size of what `encode` writes, and -1 exactly when escaping changes nothing.
`DecodesStored`: every text comes back as it was. `StoredEndsAtQuote`: whatever an escaped string holds and whatever
follows, its end is found at its own quote; both use where each character is written (`EncodePlaces`).
`WritingFits`: `c_str` fills exactly the memory that `getStrLen` measured.
`WrittenIsRead` is the longest: every well-formed document is read from its text. A text is `Neat` when the search for a
closing bracket passes over it (`Skips`: whatever stands behind it decides) and the removal of blanks leaves it alone
(`Keeps`), and `Found` when it is one token. Escaped strings, numbers and words are; so are containers of such texts
(`NeatContainer`, `FoundContainer`), since the bracket found for a container is the first that no inner token hides.
The elements of an array and the members of an object are then read at the places where they were written
(`JoinedPlaces`, `ArrayRead`, `ObjectRead`), and levels follow by induction (`NextLevelReads`). Assumed: the
characters that are escaped or written around values, the digits and the words are among the characters.

Every invariant and every safety property of the passing runs is proved. Only model-checked: all liveness (`QuietQueueDrains`, `PayReachesDisplay`,
`EarlyMessageHandled`, `Recovers`, `PaymentAnswered`, `LossIsNoticed`, `PictureComes`), since liveness under
fairness and `ENABLED` are out of the prover's reach.

## 5. Not modelled

* Video encoding and decoding: calls of a codec on one thread, without protocol
  state; the headers of ffmpeg and x264 are third-party code.
* Files, memory, strings, compression: sequential library code whose results
  the properties do not tell apart.
* The server's timer: no code creates one. The configuration store: nothing calls it, and it is
  not part of the server's build. The phone's UDP link, send queue, login and
  leaving, the display's `DisConnect`, and `InsertBitSideHead`,
  `DeleteBufferMap`, `flush`, `CheckTcpSession`: no caller.
* The other three copies of `BaseJson.cpp` and the copies of the base libraries
  under `ClientJNI`, `DisplaysJNI` and `mysqllib`: the same code, but for log lines, as what is
  modelled, or the library code above. They are a large part of the
  repository's lines.
* The layout of frames and of reader commands (data), failure of `malloc`, the
  Windows branches, and what the plan still has: the single reads of a session's `iSocket`,
  the unframed stream of a reader, and the checksum of `RFIDWrite`.
