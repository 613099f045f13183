# Apache Spot (incubating): TLA+ models and proofs

Apache Spot collects network telemetry (netflow, DNS, proxy logs), scores it with
a topic model and shows the most suspicious connections to an analyst. This
directory models the parts of it where processes, threads and services interact,
checks them with TLC and proves their safety properties with TLAPS. Paths below are
relative to the repository.

Contents: [inventory](#inventory) - [modules](#modules) -
[correspondence](#state-actions-and-code) - [runs and bounds](#runs-and-bounds) -
[fairness](#fairness) - [findings](#findings) -
[observed](#observed-and-not-run) - [proofs](#proofs) -
[only model-checked](#only-model-checked) - [not modelled](#not-modelled) -
[plan](#plan)

## Inventory

| part | state | operations | interacts with | what is hard |
|---|---|---|---|---|
| **Distributed Collector** `spot-ingest/collector.py` | `_isalive`, the batch of files in hand, a `multiprocessing.Pool`, a temporary staging directory | `start` loop, SIGINT, SIGUSR1, `__del__`; in each pool process `publish` | FileWatcher (shared list), converters, Kafka producer | a thread, a main loop and a pool; an interrupt at any instruction; partial failure of a file; a shared staging directory |
| **FileWatcher** `spot-ingest/common/file_watcher.py` | a list used as a queue, an observer thread | `on_created`, `on_moved`, `detect`, `dequeue`, `stop` | file system events, the collector's main thread | list shared by two threads; stop then join then drop |
| **Producer** `common/producer.py`, `common/serializer.py` | Kafka's send buffer | `send_async`, `max_request` | Kafka | time-out of a send that is delivered later |
| **Segmenter** `pipelines/*/processing.py` | generator state: lines, size, hour, time stamp | `prepare`, `convert` | `publish` pulls it one segment at a time | exceptions in the middle of a file; boundaries of size and hour |
| **Classic collectors** `master_collector.py`, `common/file_collector.py`, `pipelines/{flow,dns,proxy}/collector.py` | a process-shared queue, an observer thread, a pool, HDFS directories | detect, list, mkdir, upload, remove, split, send the path; ^C | HDFS, Kafka, the workers | errors returned instead of raised; a topic removed and a queue closed while files are in flight; a restart |
| **Classic workers** `worker.py`, `pipelines/{flow,dns,proxy}/worker.py` | consumer position, local staging, HDFS stage directory, Hive table `*_tmp` | poll, download, convert, stage, DROP/CREATE/INSERT, clean | Kafka, HDFS, Hive, other workers | one temporary table for all workers; ignored failures; redelivery |
| **Kafka, HDFS, Hive clients** `common/{kafka_client,hdfs_client,hive_engine}.py` | connections | thin wrappers | everything above | which errors are swallowed |
| **Streaming Listener** `start_listener.py`, `common/listener.py`, `pipelines/*/streaming.py` | Spark streaming context | `store` of a batch | Kafka, Hive | batches with undecodable or invalid rows |
| **Machine learning** `spot-ml/` | HDFS scores and feedback | `ml_ops.sh`, word creation, LDA, scores | HDFS, OA feedback | feedback read after the scores were removed; thresholds |
| **OA jobs** `spot-oa/oa/` | a day's tables, a local copy of the ML results, the rows being built | `start` of flow, dns, proxy: clear, get, enrich column by column, insert by position | HDFS, Impala, files and services of context | clear, then rebuild; stale local files; children that are not joined; an enrichment whose source is missing |
| **OA API** `spot-oa/api/` | Impala tables, HDFS feedback and story board files | score, comment, reset, queries | HDFS, Impala, the user interface | read, delete and rewrite in separate calls, with the OA job and the ML job in between (the server itself runs one request at a time) |
| **Notebooks** `spot-oa/oa/*/ipynb_templates/`, `spot-oa/ipython/` | a kernel's globals, widgets, clicks that wait | list, search, save, advanced mode | API | callbacks read globals that another click has set |
| **User interface** `spot-oa/ui/` | stores with asynchronous loading | actions, dispatcher, stores | API | answers out of order |
| **Set-up** `spot-setup/` | tables and directories | creation and migration | Hive, HDFS | an interrupted migration |

What makes each part correct:

* *collector and watcher*: every supported file that appears is handed to exactly
  one process, once, in order of appearance; an interrupt ends the collector after
  the files handed over; the staging area outlives those who use it; every segment
  of a file is in Kafka or stored for a retry.
* *segmenter*: all lines of a segment are of one hour; each valid line is in exactly
  one segment, in order; a segment fits a request and is no smaller than it must be.
* *classic collectors*: files are announced in the order of their detection, none
  twice, over interrupts and restarts; nothing that appeared is lost; what is
  announced is in HDFS and what is in HDFS is announced.
* *workers*: the rows of a file are in the partition of its hour and in no other; as
  often as its message was delivered at most; success is logged only then; what
  failed holds up nobody. With the collectors: every file ends up in the table.
* *OA jobs*: a day is replaced as a whole, with the details of what it shows and of
  nothing else; each value of the raw data ends up in the column that is named for it.
* *API*: a score or a comment acknowledged is kept, reaches the feedback, hides no
  more than it scores; a field shows what it is named for; a range of dates shows
  the days in it.
* *notebooks*: a story is about one threat. *UI*: what is shown answers the last
  question asked.

The hazards behind these, each at its line, are in `PROJECT.json`.

## Modules

| module | what it is |
|---|---|
| **Ingest** | |
| `Segmenter`, `MCSegmenter`, `SegmenterProofs` | `prepare` as a state machine over abstract lines; its instances; theorems about it |
| `FileWatcher` | state and operations of the Distributed Collector's watcher; no specification of its own |
| `DistributedCollector`, `MCDistributedCollector`, `DistributedCollectorProofs` | EXTENDS `FileWatcher`: observer thread, main thread, pool processes and producer threads together |
| `FileCollector` | state and operations of the classic collectors' watcher |
| `MasterCollector`, `MCMasterCollector`, `MasterCollectorProofs` | EXTENDS `FileCollector`: the main loop and the `_ingest_file` of flow, dns and proxy, with HDFS and the topic |
| `IngestChannel` | abstract: what a classic collector promises its workers. `MasterCollector` implements it (`AnnouncesInOrder`) |
| `FlowWorkers`, `MCFlowWorkers`, `FlowWorkersProofs` | consumers, children, HDFS, local disk and Hive of the classic flow workers; theorems about them |
| `ClassicIngest`, `MCClassicIngest` | `MasterCollector` and `FlowWorkers` joined by the topic and HDFS; it implements `FlowWorkers` (`WorkersAsAlone`). `MasterCollectorProofs` EXTENDS it and holds the theorems about both |
| **A day of data** | |
| `DayStore` | what the jobs and the API share of one day: tables, feedback file, story board files, ML results |
| `MLJob` | EXTENDS `DayStore`: `ml_ops.sh` and the Spark job it submits |
| `OAJob` | EXTENDS `DayStore`: what the OA jobs do alike |
| `FlowOA`, `DNSOA`, `ProxyOA` | EXTEND `OAJob`: what each kind adds (children, dendrograms, a child that is not joined) |
| `Request` | EXTENDS `DayStore`: what the mutations do alike: scoring, comments, reset |
| `FlowResource`, `DNSResource`, `ProxyResource` | EXTEND `Request`: the mutations of each kind, one call to HDFS or Impala at a time |
| `DNSRecords`, `ProxyRecords` | what jobs and API read of a record |
| `FlowDay`, `MCFlowDay`, `FlowDayProofs` | ML job, flow OA job and flow requests together, their properties, and theorems about them |
| `DNSProxyDay`, `MCDNSProxyDay`, `DNSProxyDayProofs` | the same for a day of dns or of proxy |
| `DayProofs` | EXTENDS `MLJob`, `OAJob`, `Request`: the lemmas both kinds of day are proved from |
| **Columns** | |
| `Columns` | rows by position, SELECT lists by name, GraphQL types by key |
| `FlowAnswers`, `DNSAnswers`, `ProxyAnswers` | the rows, tables, SELECTs, types and notebook queries of a kind |
| `DayAnswers` | INSTANCEs the three: an OA job builds and inserts its rows, the API answers from them |
| `Investigation`, `MCInvestigation` | EXTENDS `DayAnswers`: the Threat Investigation notebook |
| `InvestigationProofs` | theorems about it |

An operator commented "Mutant of X" is a plausible bug in the code behind X, defined
before X with the same parameters. Nothing uses it in the specifications: replacing X
by it must break the property `PROJECT.json` names, which shows that the property
says something of the code.

## State, actions and code

`PROJECT.json`, under `map`, names the source lines of every definition. In outline:

**Segmenter.** `pos` counts the lines the `for` loop has read; `msg_list`,
`msg_size`, `partition` and `timestamp` are the locals of `prepare`; `segments` is
what it has yielded; `status` is how it ended. One action per way through the loop
body: `SkipLine` (`continue`), `AppendLine`, `StartSegment` (yield, reset, then
`strptime`, which may raise), `ShortLine` (dns: `split(',')[2]` raises), and
`EndOfFile`. A line keeps its kind, hour and size; its text is abstracted away. The
dns and proxy pipelines have the same code but for the column they read.

**DistributedCollector.** The thread of control of the main thread is `pc`. A wake-up
reads `isalive`, the list comprehension takes up to `collector_processes` files one at a time
(`Dequeue`), `apply_async` hands them over one at a time (`Dispatch`). KeyboardInterrupt
and SIGUSR1 may come between any two of these steps; both lead to `finally`:
stop and join the observer, drop what is queued, close and join the pool, and
`__del__` removes the staging area. Each pool process runs `publish`: producer,
conversion or copy (which may fail before the copy, or halfway through it), the generator's
segments one `send_async` at a time with its three outcomes, storing of a failed segment, removal of the converted file, and the
`except`/`finally` clauses. `staging` maps names to inodes and `content` inodes to
what was written, since under `--skip-conversion` two processes may use one name.
`topic`, `stored`, `report` and `failed` are what the outside sees. The generator
itself is `Segmenter`: `DistributedCollector` keeps of it the number of segments of
a file and how it ends (`NumSegs`, `Ending`), the two things `publish` can tell.

**MasterCollector.** `pipeline` selects `_ingest_file`, `pc` is where the main thread is in
it: list the directory of the hour, make it, upload, remove the raw file, send (flow,
proxy); split and remove (dns). Each HDFS call may return its error instead of
raising it; `Upload` then goes on as the code does. A file's content is the number of
its appearance, so that a name that is used again is another content and the
model can say which of the two was lost. With more than one process a task never
reaches the pool's processes (`HandToPool`: see [observed](#observed-and-not-run)).
^C may fall before any step; then the topic is removed, the queue closed, and the
process ends, which `Start` may follow.

**FlowWorkers.** `position` and `committed` are the consumer's; `child` is where the
child process of a worker is in `_process_new_file`; one action per HDFS, Hive or
shell call, each with the failure the code ignores (`Fault`) or the exception that
ends the child (`ChildFails`). `flow_tmp` is the one external table, whose value is the
directory it points to; `flow` counts how often the rows of a file were inserted into
the partition of an hour. `clash` is history: a child dropped the table while another was about to
insert from it, or took a stage directory that was in use. In `ClassicIngest` its `log` is the collector's `topic` and its
`binary` the collector's HDFS directory.

**FlowDay, DNSProxyDay.** `tables` holds the day's partition of each table the OA job clears, a
sequence of rows, since Impala inserts and the code deletes directories underneath.
`MLJob`: remove the scores, train (which reads the feedback file), save in parts, merge
into one file that is visible while it grows (`MergeBegins`, `MergeEnds`). `OAJob`:
directories cleared one by one, then feedback and stories, then `hadoop fs -get` into
a local directory that outlives the job (`local`), the scores in memory, one INSERT,
and the children whose INSERTs interleave: flow has two, dns one and the dendrograms,
proxy one that still runs when the job has ended. One INSERT of details holds all records the SELECT
finds: those of the connections in `Alike` of it, which in flow have the same addresses and minute, in dns
the same hour and a name that holds its own, in proxy the same hour, client and URI; dns and proxy take
`DetailsLimit` of them. The resources: each request is its
sequence of calls, with what it read kept in `req` until it writes. `OAFails`,
`MLFails` and `RequestFails` are a call that raises; `OAKilled`, `DNSKilled` and `ProxyKilled` are the death
of the job's process alone: its children, which are not daemons, go on (`orphans`, `strayChords`, `strayDendros`) while
the operator starts the job again. `missed` and `abandoned` are history: a child of this run did not do all of its work;
connections whose details a killed run left to its child.
`Undeleted` is a `delete_folder` that swallowed its HdfsError. A connection stands for
its row. `acked` and `cleared` are history: which comments the analyst was told are
saved. In dns a threat is a client or a query name, in proxy a URI: scoring one hides
every row that joins it, which is what `HiddenAreScored` is about. `ProxyLine` has the severity where the
code writes it, in the column headed score, and the reputation where the model's reader takes the severity.

**DayAnswers.** The same day seen across its columns instead of over time. A cell is the
name of the value in it. A job's row starts as the ML results (`Results`), each `_add`
method appends its columns (`Added`: depending on which files and services are installed, its
values, blanks, or an exception), and the row is inserted by position into the
columns of the table's script (`Inserted`). A SELECT picks columns by name and
gives them aliases; a GraphQL type reads the keys of the row it is given, whichever they are
called. `Meaning` says what a field is for; `FieldsShowTheirColumn` compares.

**Investigation.** The kernel of the notebook handles one click at a time; `anchor`
and `expanded` are its globals, `box` the widgets on the page. A search removes the box, asks for
the details, and displays a new one; a save reads the widgets of its own box and the globals
as they are when it runs, and sends `createStoryboard`, whose rows go to the
tables that the next answers come from. Flow and proxy register one more search with every save
(`callbacks`), all of which run for one click (`SearchAgain`). Each request may be answered, be answered with
errors, or raise in the client.

## Runs and bounds

| run | result | what it shows |
|---|---|---|
| `Segmenter` | pass | every file of at most 5 lines over 5 kinds, 2 hours and 2 sizes: grouping, order, loss. Five lines give three segments with an exception after them; with a request of 4, three small lines fit and a fourth does not, and a line of size 4 fills a request alone. |
| `DistributedCollector` | pass | 2 processes, 4 paths (one unsupported, one whose generator raises), 2 files detected, 2 faults, one process that dies: enough for both segments of a file to fail, for two processes at once, and for a file to be moved away, or detected twice, before it is converted. |
| `CollectorLiveness` | pass | with `--skip-conversion`, where two files of one base name share a staging file and a third has its own: no message under another name than its file's, files are handed over, get a result, and an interrupt ends the collector |
| `MasterCollector` | pass | flow, dns and proxy with 1 or 2 processes; four names (one nfcapd still writes, one without a date) and three appearances, so that a name is used again; one failing call; ^C anywhere and a second start. Implements `IngestChannel`. |
| `FlowWorker` | pass | 1 worker, failing HDFS and Hive calls, a crash, a consumer that starts at the end of the topic: rows go to their partition, once per delivery, and the worker gets to every message past its position |
| `ClassicIngest` | pass | the flow collector and a worker, no failing call, stage names that may be used again: every detected file is loaded. Implements `FlowWorkers`. |
| `FlowDay` | pass | ML job, OA job and requests of one day, any 4 of them in any order without a fault or 3 with one (`Bounded`): a failing call, a child that dies, or a killed job whose children go on; one deletion that silently does nothing |
| `DNSProxyDay` | pass | the same for dns and for proxy, without the deletion, and with no request while the machine learning runs (`Bounded`), which `FlowDay` has |
| `Investigation` | pass | each kind of data with each set of context files and each behaviour of the reputation service; two threats, of which one has too many bytes for a GraphQLInt and one is a client; the notebook with two clicks waiting and up to three searches for one; ranges over a calendar of three years |

The runs named in [findings](#findings) end in a violation. Deadlock is checked in
`Investigation`, where the analyst can always ask, and in no other run: the
generator ends, the collectors end after an interrupt, the topic of `FlowWorkers`
is bounded, after which its workers wait for ever for a message, and the starts of a
day are bounded.

Every bound is a CONSTANT in the guard of the action it limits, or the CONSTRAINT
`Bounded`: `MaxDetected` and `MaxCreated` (files put on the queue, files that
appear), `MaxFaults`, `MaxDeaths`, `MaxCrashes`, `MaxMessages`, `MaxLines`, `MaxRuns`
(starts of a classic collector), `MaxProcesses`, `MaxStarts` (jobs started and requests sent),
`MaxUndeleted`, `MaxClicks`, `MaxCallbacks`. Four starts are an ML run, an OA run, and two requests or
a second run of each: enough for a day rebuilt under a request, for a comment changed
after it was saved, and for a second connection scored after the file was removed. Three starts
with a fault are an ML run, an OA run that is killed, and the one that follows it. Three
connections for a limit of two let the limit cut, and give one address two peers, so
that there is a chord; two of flow share addresses and minute, in dns two share a name, in proxy two share a URI, so that
their details are the same records, of which dns and proxy take one. Two waiting
clicks are a save behind a search.

Two more bounds of `Investigation` are guards, each commented "Bound" there. An ingest summary is asked for
before the day's job and where everything is installed (`Installed`: all files, no
reputation service), since its answer depends on neither. The notebook starts once the
day's job has ended, where everything is installed and some threat is scored; the pages
ask, and the analyst scores, while the notebook is quiet. The calendar has three years, the months
1, 2, 3 and 12 and two days in each: years and months that are equal, neighbours and apart, and
December, each of which is a case in `daterange_query`.

The symmetry of the collector's safety run permutes the pool's processes, which the code does not tell
apart; the liveness runs use none.

What the environment is assumed to do: a file exists when its event is dispatched, an
event is dispatched once and in order; Kafka keeps what it acknowledged and orders
the topic; HDFS and Hive statements are atomic; a topic has one partition. Stage directories of `FlowWorkers` may
have any name, also one that is in use.
In `ClassicIngest` nfcapd gives no two files one name (`ObserveOnce`): they are named by their time.
All files of `MasterCollector` belong to one hour.
A second ^C during `finally`, and SIGUSR1 outside the loop, are not modelled. In
`FlowDay` and `DNSProxyDay` an operator runs at most one job of each kind at a time; the server runs one
request at a time (tornado's single-threaded WSGIContainer), so the commands of
one `score` mutation are requests one after the other; an OA job that is interrupted (^C) takes its children with it,
one that is killed leaves them; a write to the feedback file may end after any whole line; the three story board
files of an address count as one. In `DayAnswers` the types of columns are left out:
Impala casts, and `Blank` also stands for the 0 that dns writes without a network
context.

## Fairness

`DistributedCollector!FairSpec`: weak fairness of the main thread's steps and of each
process's steps: the operating system runs threads that can run, sleeps end, and a send ends by
its 10 second time-out. Nothing obliges files, interrupts or signals to come, nor
a late delivery to happen. `FlowWorkers!FairSpec`: weak fairness of each worker; messages,
commits and crashes need not happen. `MasterCollector!FairSpec`: weak fairness of the main
thread; files, starts and ^C need not come. `ClassicIngest!IngestSpec`: both.
The other specifications have no fairness: jobs are started and clicks made by hand,
and their properties are of safety. No strong fairness is needed: no step
waits for a condition that another step can take away again, except `CREATE` and
`INSERT`, which fail (`ChildFails`) rather than wait.

## Findings

| run | property | what the code does |
|---|---|---|
| `FlowWorkersRace` | `SuccessMeansLoaded` | workers share one temporary table, and one loads what another put there |
| `FlowDayFeedback` | `FeedbackNeverStopsTraining` | the API writes the feedback with commas, the model's reader splits it at tabs and fails |
| `FlowDayStale` | `LatestResultsShown` | the local copy of the ML results is never replaced: a second OA run of a day shows the first run's |

Each quotes, in `PROJECT.json`, the line of the repository the property comes from.

## Observed and not run

Met while reading or modelling; either no sentence of the repository says otherwise, or the
model has the behaviour as it is, or it is in a part that is not modelled.

**Segmenter and Distributed Collector**

* A segment stamped with the epoch is dropped (`if timestamp`), so
  `NothingLost` excludes files with such a line.
* A send that timed out may be delivered after its segment was stored
  (`DeliverLate`). Stored segments are named after the base name of the
  raw file, so those of two files of one name overwrite each other: `SegmentsAccounted`
  fails for two watched directories with a file of the same name each, with a conversion and without. Its run has different names, its theorem
  assumes them (`DistinctNames`). They are stored in the staging area, which the collector removes when it ends
  (`collector.py:88`), although `spot-ingest/README.md:139` speaks of reloading them. The refusal of a segment
  is handled where it is sent, so `allpassed` stays True and success is logged (`collector.py:253`).
* Under `--skip-conversion` two files of one base name overwrite each other's copy while it is read: messages of one
  may hold lines of the other. `SentUnderTheirName` keeps the mixture to the name.
* A process of the pool that dies leaves `pool.join` waiting for its task (`collector.py:126`).
* The SIGUSR1 handler has the wrong number of parameters: the
  signal ends the loop with a TypeError, through `finally`.

**Classic ingest**

* With more than one process (5 by default) flow and dns hand the pool a task whose arguments hold the `KafkaProducer`
  (flow/collector.py:103, dns/collector.py:109; dns also its HDFS client), an object with a `Producer` of confluent-kafka,
  which cannot be pickled: the task is dropped without a message and the file stays. `MasterCollector` models this.
* proxy calls `SendMessage` on the class: a TypeError is logged, nothing is sent. dns calls
  `mkdir` and `upload_file` on a client that does not have them: nothing is uploaded, and the original is removed.
* flow: `upload_file` returns the HdfsError, which is true, so the raw file is removed and its path sent; a
  name that already exists in HDFS is refused the same way, so the new content is lost. An undelivered message is written to
  stderr and logged as sent.
* `stop()` closes the queue and then calls `empty()` on it: an IOError, so that the observer is not stopped and the pool
  not joined. Files already in the directory at a start are not ingested.
* The dns worker starts its process with `args=nf` (`dns/worker.py:89`), a string where a tuple is due: each letter of the path is an
  argument, the child ends with a TypeError, and no dns file is ever loaded this way.
* Each worker is a consumer group of its own and gets every message;
  `LoadedOncePerDelivery` is therefore about one worker at a time. The results of HDFS calls are not looked at.
* Without Kerberos a worker starts at the end of its topic (`kafka_client.py:196`): what was sent before, it never gets to.
* Several workers drop each other's `flow_tmp`, and their stage directories may have one name: what follows is excepted
  (`clash`) by every property but that of `FlowWorkersRace`.

**Feedback and requests**

* flow: the header says `ipkt,ibyt`, the rows hold `ibyt,ipkt` (`flow.py`, lines 285, 316 and 331);
  a row of `FlowFeedback` has nine values for the columns of its schema. dns: a line has both severities always.
* proxy: rows and header do not match. The row has the severity that was given after the word, under the header's `score`, and
  none of the score (`proxy.py:126-129`), so that `uri_sev`, from which `ProxyFeedback.scala:67-70` takes the severity, holds
  the reputation or a text: `ProxyLine`. `tme_index = row[2]` is the client's address (`proxy.py:121`).
* Reset removes the scores from the table and keeps the feedback file (`flow.py:998`). Two of its paths,
  `dns_threat_dendro/hive/oa/threat_dendro` (`dns.py:379`) and `dns_threat_dendro/hive/oa/timeline`
  (`proxy.py:451`), lead nowhere. A removal by the OA job between a request's listing and
  its write leaves the scores in the table only.
* `file_exists` passes its arguments to `list_dir` the wrong way round (`hdfs_client.py:225`), so that every query that
  looks for a file first raises: the incident progression of proxy (`proxy.py:417`) and flow's world map, impact analysis and
  incident progression (`flow.py`, lines 205, 246 and 265). The files are written and never shown.
* The details of a connection are all records that share its addresses and minute (`flow_oa.py:370-376`), or its name
  and hour (`dns_oa.py:316-318`), and are inserted once for each connection shown: those of connections that share them are there
  twice or more. The comment "validate if the connection's details are not already extracted." (`flow_oa.py:344`) is followed by no
  such test. `ShownHaveDetails` asks that they are there, not how often.
* The children of a job that is killed are not daemons and insert on, into the day that a next run has cleared and builds
  anew: details twice, or of connections that are not shown. `DetailsAreOfShown` excepts these (`abandoned`). A child
  that fails is not noticed (`missed`).
* The queries for suspicious rows join the scored connections of all dates. In dns, scoring a client hides rows
  of the names it shares with others. A dendrogram is inserted once per connection shown, and once more by each story
  that is saved.
* save_comment drops the comments it has not inserted again when a statement fails (`flow.py:386`).

**Answers**

* dns and proxy compare year, month and day of a range on their own: a range over the end of a month
  loses days, although the query is for "all the data ingested during the time frame"
  (`proxy.py:424`). `SummaryCoversTheRange` asks of them only what holds.
* Never answered: the reputation
  of a dns name, since `rep_results.get(key)` looks up the column's index (`dns_oa.py:235`); the label of the proxy timeline, selected under another
  name. `NeverAnswered` lists them. Always 0 (`AlwaysZero`): the severities in the list of suspicious dns rows, which are not selected
  (`or 0`, `graphql/dns/query.py:90`), and the score of a suspicious proxy row, a probability that a GraphQLInt makes whole
  (`graphql/proxy/query.py:124`).
* Without `ipranges.csv` every address of flow is answered as external (0, `flow_oa.py:210`).
* A sum of bytes over 32 bits is answered as null; the timeline of flow, where the field is not nullable, loses the row, and the
  flow notebook's `int()` raises.
* flow: `_add_reputation` says that the last match remains, but the first does; the network context of an
  investigation looks an address of `outbound` up in `inbound` (`flow.py:900`). dns without a network context writes the number 0 into a STRING
  column.
* `dns_iana` and `proxy_iana` are unbound without an iana configuration; `conn + ("")` is a TypeError
  (`proxy_oa.py:300`); `tuple(df_final)` of a single minute is invalid SQL (`dns_oa.py:420`, `proxy_oa.py:351`); gti.py and fb.py
  keep the value of an earlier indicator (`gti.py:96`, `fb.py:108`). An input variable that is null is assumed to be omitted.

**Notebooks**

* A click on Save that waits behind one on Search saves the text of one threat under another, in
  dns also with the other's kind; `StoriesOfTheirThreat` is about clicks with nothing to wait for.
* After each save flow and proxy register the handler of search once more (`flow/ipynb_templates/Threat_Investigation_master.ipynb:253`),
  and one click searches, and asks for the answers, that often. dns `create_storyboard` returns nothing, so
  a saved story is answered with an error, and the notebook says that it was saved whatever the answer.
* The flow notebook declares `$topResults` and passes `first`.

**Migration**: the migration of flow moves and removes the old data whatever failed before (`migrate_old_flow_data.py`, lines 217-220).

## Proofs

All theorems are of `Spec`, for every value of the constants that satisfies the modules'
ASSUMEs: any finite non-empty set of processes, any paths, any numbers of segments,
any bounds; any set of finite files; any connections, results and requests of a day; any
threats, context files and calendars. A theorem that needs more says so in its ASSUME, and
below. The ASSUMEs of the constants only say which kind of thing each is, and TLC evaluates
them on the runs: bounds, limits and sizes are numbers; `None` is no path, file, directory or file content; processes and
connections are finitely many; supported, dated and heavy ones are among all; the tables the code names are tables; no
result of the machine learning has a connection twice (`ResultsAssumption`: every record of the day is scored once).

**`DistributedCollectorProofs`.** The inductive invariant is `HandoverInv /\ PoolInv`, two halves
that are proved apart because almost no step touches both.

* `HandoverInv` = types, `Phases` and `FilesConserved`. `FilesConserved` says that what has been detected
  is, in order, `handed \o batch \o dropped \o Reverse(queue)`. It is not inductive
  alone: that nothing is detected after `stop` dropped a file needs the observer to
  be joined by then, which is `Phases`. Each step moves one element over one of
  the `\o` (`AppendMoves`, `ReverseInsert`, `ReversePop`).
* The pool: `PoolTypeOK`, `ContentsReadable` (a file a process has open holds the content
  of some path, even when another process removed its name), `UntakenHaveNoResult` and
  `TaskRunsOnce`. The last needs the third: the task a process takes has no result
  because none beyond `taken` has. These are lemmas: what they say of the pool is multiprocessing's doing.

`CollectorSafe` proves the two; from it follow `FilesAreConserved`, `TypeCorrect` and `StopsQuietly`. The last
combines both halves: `JoinPool` sees a result for every task, a busy process has a
task without one, so none is busy; and nothing can start one again.

`SuccessAccountsForSegments` is about what a reported success means. It needs to know whose content is whose (`OwnInv`): a staging
file is of one task or, with `--skip-conversion`, of the one file with its name; an inode
holds the file of the task that made it; so a process sends segments of its own file. With `SentOwn`, which says the same of
what was sent and has failed, that is `MessagesUnderTheirName`, and needs no assumption: files of one name count as one another. On top of that
(`AccountInv`) a call to `publish` has every segment before the one in hand accounted for (`BehindIt`), and no segment
that failed is sent later in its own task's name (`FailedBefore`): this is what keeps a segment that was stored stored when
the next one is dealt with. It assumes `DistinctNames`, without which it is false (see [observed](#observed-and-not-run)).

**`SegmenterProofs`.** `TypeCorrect` by induction on the steps; `SegmentsSafe` (hours, order, loss; `LinesLeaveInOrder` and
`OneHourPerSegment` state the first two apart) from `SegmenterInv`, which adds `BuildingOneHour`: what is said of yielded segments must
already hold of the one being built when it is yielded. `SegmentsFill` adds `BuildingFills`: `msg_size` is the
size of `msg_list`, and the last segment was ended for the line the current one starts with (`EndedFor`). The size of a list is a fold over the
set of its places, in an order that CHOOSE picks; that appending a line adds its size needs the sum over a finite set
to exist (`SumsExist`), to depend on the values only (`SumsAgree`), and to allow any element to be taken first (`SumsAny`).

**`MasterCollectorProofs`.** `CollectorImplementsChannel`, for any files, numbers of processes,
faults and restarts: each step of the collector is one of `IngestChannel` (`Arrive`, `Announce`, `PassOver`) or none. The
mapping counts the files passed as those detected that are neither on the queue nor in hand; the
invariant `ChannelInv` says that what has been detected ends with exactly these, in this order. A step of the collector
that drops files (an interrupt, a lost message, the end of the process) is a `PassOver`.
`ContentsAreKept` needs more: a content is only removed while a copy is elsewhere
(`KeptBeforeRemoval`), which holds because no new content takes the name meanwhile, and that because the
names on the queue and in hand are different and all still in the directory
(`QueueInDirectory`). The same invariant gives `TypeCorrect`: without it the content uploaded could be none.
`HDFSAgreesWithTopic` rests on `AgreeInv`: while no call has failed the directory of the hour is there whenever a file is
uploaded, so a path that is sent is in HDFS, and only the file in hand is there unannounced.

`WorkersCannotTell` is the refinement `WorkersAsAlone`: each step of the collector and the workers together is one of `FlowWorkers` or
none. A message sent must be of a file that is in HDFS (`AgreeInv`) and has not been sent before
(`SentArePassed`), and a child's file must have been announced (`ChildrenAnnounced`); `ComposedInv` puts these together. It
assumes `MaxFaults = 0`, as does its run: a failing upload announces a file that is not in HDFS, which `FlowWorkers` alone does not allow.

**`FlowWorkersProofs`.** `TypeCorrect`, `WorkersPartition` and `WorkersLoadOnce`, for any number of workers, whatever fails and
whenever they are killed. The last two hold until two workers meet (`clash`): one drops the external table that another is about to insert from, or
takes a stage directory that is in use. TLC finds both false without the exception, since then one loads what another put there. The invariant, `WorkersInv`,
says that no two children have one directory (`StagesApart`) and of each worker `LoadInv`:
from the upload on its stage directory holds its file or nothing, and the external table is on it when the
rows are inserted (`OwnStage`); what a file may still be loaded, plus what it has been, is at most one and
the crashes (`OncePerMessage`). A step of one worker keeps that of another because their directories differ, and because a
step that would take the table from it is a clash.

**`DayProofs`** holds what the two kinds of day share: what `Where` selects, by
induction over the least row where it could fail (`LeastNumber`, `UpTo`); what INSERT, `delete_folder` and the removal of a directory do;
and, for each step of the jobs and of a request, that it keeps

* `CommentsInv`: a comment acknowledged is in the table or among those an open request has read and will insert again, and
  what it is to insert has no address the table has too;
* `JobInv`: which directories the job has cleared by now; that what it shows was copied from one run of the
  machine learning; that the details of what is shown are inserted or to be inserted by the job's child, if that did all of its
  work so far (`missed`); and that all details are of what is shown or of what a killed job left to its child (`abandoned`).
  A child that goes on alone only adds to the details, and only of `abandoned`, so that it harms neither;
* the header of the feedback file.

**`FlowDayProofs`** combines these into `FlowDayInv`, from which `HeaderIsFirst`, `FeedbackGrows`, `ScoresAreOfOneRun`, `OneComment`,
`CommentsAreKept` and `DetailsOfShown` follow. `FeedbackGrows` is an action property: a write to the feedback file may
end in the middle, and still no line that was there is lost, as the request writes what it has read with its own lines behind.

**`DNSProxyDayProofs`**: `DNSProxyDayInv` adds what dns and proxy have of their own. `DendroDrawn` and `TimelinesOnce` are to dendrograms and
timelines what `JobInv` and `CommentsInv` are to details and comments. `ScoredAreFed`: every row scored has its line, or will have it from the request
that is running; `ScoredByUri`: scored rows are closed under equal URIs among those the job took; `StoriesAreWhole`: what belongs to a story is there
before its comment is acknowledged. From it: `ScoredInFeedback`, `HiddenWereScored`, `TimelinesOfThreats`, `SavedAreShown`,
`DetailsOfShown` and `DetailsOfThisRun`.

**`InvestigationProofs`.** `SummaryCovers`: the ranges of days, for any calendar (`CalendarAssumption` only
says that its members are days). The invariant is small (`RangeInv`: a range is of
two days of the calendar); the work is arithmetic, `FlowRange` (the disjuncts of
`daterange_query` together are exactly the days between) and `OwnRange`.
`StoriesAreOfTheirThreat`, for any number of threats and waiting clicks: `StoriesOfTheirThreat` is
inductive only with `BoxOfLastSearch` (a displayed box is that of the last search, whose
details are held, so the globals agree with it) and `NextClick` (a click with nothing to wait for is first in
the queue, and its box is still displayed).

`FieldsShow`: `FieldsShowTheirColumn`, for any threats and addresses, whatever is installed, and in whatever order
the job, the pages and the notebook take their steps. The property looks only at the last answer; the invariant,
`ColumnsInv`, is about the rows it comes from:

* `JobRight`: the row in memory is the ML results with the columns of the steps made so far behind them
  (`RowWith`), and none of these steps raised;
* `TablesRight`: whichever tables have rows, a row has in each column the value the column is for (`TableRow`,
  a predicate per kind of data). It is kept by the insert of the scores (`FlowRow`, `DNSRow`, `ProxyRow`), of the details, where they
  do not raise (`DetailsRow`), of a scored threat (`ScoredRow`) and of a story, whose rows
  are made of an answer themselves: `DetailsHeld` says that the details the notebook keeps are right whatever threat they are of,
  so that `StoryRowsRight`.

From `TablesRight` follows the property, query by query: an insert by position puts a value into the column of its position (`InsertedCell`,
which needs that the columns of every table differ: `FlowDistinct`, `DNSDistinct`, `ProxyDistinct`), a SELECT
of columns under their own names or under an alias keeps it (`SelectedSame`, `RawCell`), and the types read the keys it is kept under. `Right`
says so for one field: it reads the value that `Meaning` gives, or what is
`Written` where the value is missing, known never to be answered, or 0 for want of one. The date and time of proxy are two values in one field
(`TwoValues`). `AnsweredShows` takes this through the serialization, which makes a null of a number
too large and 0 of a probability. Dns leaves the type of a comment and of a progression to the row: `DNSAnswered` shows that the row says which it is.

## Only model-checked

Liveness (`InterruptEndsCollector`, `TasksFinish`, `DetectedFilesAreHanded`,
`EveryMessagePolled`, `DetectedFilesAreSent`, `EveryFileLoaded`): fairness and ENABLED are out of the proof system's
reach. Of the theorems with an ASSUME, the cases it excludes: paths with equal base names in `SuccessAccountsForSegments`, failing calls in
the refinement of the workers. There the properties are false.

## Not modelled

Reading of command lines and configuration; log messages, except where a property is
about what they claim; Avro and CSV encodings; the text of statements beyond their columns
and conditions; Kerberos and TLS; pictures (map view, impact analysis and incident progression of flow). The
components with status `not_modelled` in `PROJECT.json` carry the reason or the place in the plan:
the child processes of the dns worker end at once, so that only the polling of `FlowWorkers` would be left; the Streaming
Listener and the proxy worker are chains of Spark transformations; the user
interface keeps no state the server depends on; set-up and migration run once.

## Plan

Done: the Distributed Collector and the segmenter, the classic ingest end
to end with two refinements, a day of each kind of data, the columns of every answer, the notebooks; with
proofs of every safety property.

1. `UIStores`: dispatcher, stores and answers out of order.
2. `StreamingListener`: what a batch leaves in the table when rows or messages are invalid.
3. Pure algorithms of spot-ml (quantiles, word creation, thresholds) against reference
   definitions; the migration scripts.
