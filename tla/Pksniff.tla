------------------------------ MODULE Pksniff ------------------------------
(***************************************************************************)
(* pksniff's user-space program (pksniff/Pksniff.c): the ring of captured  *)
(* packets, the statistics, the filter, the scrolled list and its          *)
(* selection, pausing, the -o file and the saved views.                    *)
(*                                                                         *)
(* One thread runs a loop of three phases: ring_buffer__poll calls         *)
(* handle_event for every record that is there, getch takes at most one    *)
(* key, redraw_all draws the screen and clamps the selection.  Between a   *)
(* key and the drawing it relied on, packets arrive, the ring wraps and    *)
(* the filtered view shifts under the selection.                           *)
(*                                                                         *)
(* Data: an address is the pair of its first and its last octet.  The ip   *)
(* part of a filter is the set of addresses whose text contains the        *)
(* typed pattern.  The filter bar is edited by whole tokens [k, v]: a cell *)
(* of g_filter_buf holds one, or NUL.                                      *)
(***************************************************************************)
EXTENDS Integers, Sequences, FiniteSets

CONSTANTS
  MAX_PACKETS,   \* capacity of pkt_ring
  MAX_TALKERS,   \* length of the top-talker table
  NSlots,        \* number of talker slots (256 in the code)
  LIST_MIN,      \* smallest height of the list window (4 in the code)
  Heights,       \* heights the list window can have
  Addrs,         \* addresses: pairs <<first octet, last octet>>
  Traffic,       \* what a packet can be (without its number)
  Tokens,        \* what can be typed into the filter bar
  BUF_SIZE,      \* sizeof(g_filter_buf), 128 in the code
  Keys,          \* the keys that are pressed
  HasOut,        \* whether pksniff was started with -o
  Ticks,         \* whether a second has passed when a packet is handled
  MaxArrivals    \* bound of the model: packets handed to handle_event

ASSUME PksniffAssumption ==
  /\ MAX_PACKETS \in Nat \ {0} /\ MAX_TALKERS \in Nat \ {0} /\ NSlots \in Nat \ {0}
  /\ LIST_MIN \in Nat /\ LIST_MIN >= 2
  /\ Heights # {} /\ \A h \in Heights : h \in Nat /\ h >= LIST_MIN
  /\ Addrs \subseteq (0..(NSlots - 1)) \X (0..255)
  /\ \A t \in Traffic : t.src \in Addrs /\ t.dst \in Addrs /\ t.len \in Nat
  /\ Ticks \subseteq BOOLEAN /\ HasOut \in BOOLEAN
  /\ BUF_SIZE \in Nat \ {0}
  /\ MaxArrivals \in Nat

VARIABLES
  pc,              \* phase of the main loop: "poll", "key", "draw", "exit"
  arrived,         \* packets handed to handle_event so far
  pkt_ring, pkt_head, pkt_count,
  g_running, g_paused,
  g_filter, g_filter_mode, g_filter_buf, g_filter_cursor,
  g_selected, g_scroll_top, g_detail_mode,
  list_rows,       \* height of w_list
  term_rows,       \* the height that layout_windows would give it
  g_total_pkts, g_total_bytes, g_last_pkts, g_last_bytes, g_pps, g_bps,
  g_talkers, g_top,
  pcap,            \* the packets written to the -o file
  saved            \* the packets that key S has just saved

ringVars == <<pkt_ring, pkt_head, pkt_count>>
filterVars == <<g_filter, g_filter_mode, g_filter_buf, g_filter_cursor>>
viewVars == <<g_selected, g_scroll_top, g_detail_mode, list_rows, term_rows>>
statVars == <<g_total_pkts, g_total_bytes, g_last_pkts, g_last_bytes, g_pps, g_bps,
              g_talkers, g_top>>
fileVars == <<pcap, saved>>
vars == <<pc, arrived, ringVars, g_running, g_paused, filterVars, viewVars, statVars,
          fileVars>>

Indices == 0..(MAX_PACKETS - 1)
Slots == 0..(NSlots - 1)
NoPacket == [n |-> 0]

(* The n-th packet that reached handle_event. *)
Packet(n, t) == [n |-> n, src |-> t.src, dst |-> t.dst, sport |-> t.sport, dport |-> t.dport,
                 proto |-> t.proto, app |-> t.app, dir |-> t.dir, len |-> t.len]
Packets == {Packet(n, t) : n \in 1..MaxArrivals, t \in Traffic}

-----------------------------------------------------------------------------
(* Filter.                                                                 *)

DIR_ANY == 255
NoFilter == [ip |-> Addrs, port |-> 0, proto |-> 0, app_tag |-> 0, direction |-> DIR_ANY]

event_matches(e, f) ==
  /\ e.src \in f.ip \/ e.dst \in f.ip
  /\ f.port # 0 => e.sport = f.port \/ e.dport = f.port
  /\ f.proto # 0 => e.proto = f.proto
  /\ f.app_tag # 0 => e.app = f.app_tag
  /\ f.direction # DIR_ANY => e.dir = f.direction

(* The value of the last token of kind k whose value is understood. *)
LastToken(s, k, known, default) ==
  LET I == {i \in DOMAIN s : s[i].k = k /\ s[i].v \in known} IN
    IF I = {} THEN default ELSE s[CHOOSE i \in I : \A j \in I : j <= i].v

(* parse_filter_str: every field is cleared, then the tokens are read from *)
(* left to right; unknown tokens and values are skipped.                   *)
parse_filter_str(s) ==
  [ip        |-> LastToken(s, "ip", SUBSET Addrs, Addrs),
   port      |-> LastToken(s, "port", Nat, 0),
   proto     |-> LastToken(s, "proto", {1, 6, 17}, 0),
   app_tag   |-> LastToken(s, "app", {1, 2, 3}, 0),
   direction |-> LastToken(s, "dir", {0, 1}, DIR_ANY)]

-----------------------------------------------------------------------------
(* The filter line: a C string in g_filter_buf, and a cursor.              *)

NUL == [k |-> "nul"]

(* Only printable characters are typed. *)
ASSUME TokensAssumption == NUL \notin Tokens

Terminated(buf, n) == buf[n] = NUL /\ \A i \in 0..(n - 1) : buf[i] # NUL
strlen(buf) == CHOOSE n \in 0..(BUF_SIZE - 1) : Terminated(buf, n)
LineText == [i \in 1..strlen(g_filter_buf) |-> g_filter_buf[i - 1]]

(* memmove(buf + dst, buf + src, n). *)
memmove(buf, dst, src, n) ==
  [i \in DOMAIN buf |-> IF i \in dst..(dst + n - 1) THEN buf[src + i - dst] ELSE buf[i]]

(* strncpy of the buffer onto itself: NULs up to its end. *)
Padded(buf) == [i \in DOMAIN buf |-> IF i < strlen(buf) THEN buf[i] ELSE NUL]

(* KEY_BACKSPACE *)
Backspaced(buf, cursor) == memmove(buf, cursor - 1, cursor, strlen(buf) - cursor + 1)

(* Fault: the terminating NUL stays where it is. *)
DeletedNoNul(buf, cursor) == memmove(buf, cursor, cursor + 1, strlen(buf) - cursor - 1)

(* KEY_DC *)
Deleted(buf, cursor) == memmove(buf, cursor, cursor + 1, strlen(buf) - cursor)

Inserted(buf, cursor, c) ==
  [memmove(buf, cursor + 1, cursor, strlen(buf) - cursor + 1) EXCEPT ![cursor] = c]

-----------------------------------------------------------------------------
(* The packet ring.                                                        *)

(* Fault: the position of the i-th packet ignores that the ring wrapped. *)
RingIndexNoWrap(i) == i % MAX_PACKETS

(* Position of the i-th oldest packet, i from 0. *)
RingIndex(i) == (pkt_head - pkt_count + i + MAX_PACKETS) % MAX_PACKETS

(* The packets of s that the filter f lets through, in their order. *)
Filtered(s, f) ==
  LET kept[i \in 0..Len(s)] ==
        IF i = 0 THEN <<>>
        ELSE IF event_matches(s[i], f) THEN Append(kept[i - 1], s[i]) ELSE kept[i - 1]
  IN kept[Len(s)]

(* The captured packets, oldest first, and those that are listed. *)
View == [i \in 1..pkt_count |-> pkt_ring[RingIndex(i - 1)]]
Visible(f) == Filtered(View, f)
vcount == Cardinality({i \in 1..pkt_count : event_matches(View[i], g_filter)})

(* Fault: the head runs past the end of the ring. *)
StoreNoWrap(e) ==
  /\ pkt_ring' = [pkt_ring EXCEPT ![pkt_head] = e]
  /\ pkt_head' = pkt_head + 1
  /\ pkt_count' = IF pkt_count < MAX_PACKETS THEN pkt_count + 1 ELSE pkt_count

Store(e) ==
  /\ pkt_ring' = [pkt_ring EXCEPT ![pkt_head] = e]
  /\ pkt_head' = (pkt_head + 1) % MAX_PACKETS
  /\ pkt_count' = IF pkt_count < MAX_PACKETS THEN pkt_count + 1 ELSE pkt_count

-----------------------------------------------------------------------------
(* Statistics.                                                             *)

NoTalker == [ip |-> <<0, 0>>, bytes |-> 0, pkts |-> 0]

(* src_ip & 0xFF: the address is kept in network byte order, so on the     *)
(* little-endian targets of the Makefile the low byte is the first octet.  *)
Slot(ip) == ip[1]

(* Fault: a talker's slot is taken over by the next address. *)
CountedOverwrite(t, e) ==
  LET s == Slot(e.src) IN
    [t EXCEPT ![s] = [ip |-> e.src, bytes |-> @.bytes + e.len, pkts |-> @.pkts + 1]]

(* The talker table after e: a slot belongs to the first address seen. *)
Counted(t, e) ==
  LET s == Slot(e.src) IN
    IF t[s].ip \in {<<0, 0>>, e.src}
      THEN [t EXCEPT ![s] = [ip |-> e.src, bytes |-> @.bytes + e.len, pkts |-> @.pkts + 1]]
      ELSE t

(* Fault: the entries below the new one are overwritten, not shifted. *)
RankedNoShift(top, t) ==
  LET J == {j \in 1..MAX_TALKERS : t.bytes > top[j].bytes} IN
    IF t.ip = <<0, 0>> \/ J = {} THEN top
    ELSE LET j == CHOOSE j \in J : \A k \in J : j <= k IN [top EXCEPT ![j] = t]

(* One talker is inserted before the first entry with fewer bytes. *)
Ranked(top, t) ==
  LET J == {j \in 1..MAX_TALKERS : t.bytes > top[j].bytes} IN
    IF t.ip = <<0, 0>> \/ J = {} THEN top
    ELSE LET j == CHOOSE j \in J : \A k \in J : j <= k IN
           [k \in 1..MAX_TALKERS |-> IF k < j THEN top[k] ELSE IF k = j THEN t ELSE top[k - 1]]

(* The top talkers: the slots are inserted one after the other. *)
TopTalkers(t) ==
  LET top[s \in 0..NSlots] ==
        IF s = 0 THEN [j \in 1..MAX_TALKERS |-> NoTalker] ELSE Ranked(top[s - 1], t[s - 1])
  IN top[NSlots]

(* update_stats; tick says whether a second has passed since the last      *)
(* refresh.  g_last_stats_ts is 0 at first: the first packet refreshes.    *)
update_stats(e, tick) ==
  /\ g_total_pkts' = g_total_pkts + 1
  /\ g_total_bytes' = g_total_bytes + e.len
  /\ g_talkers' = Counted(g_talkers, e)
  /\ IF tick \/ g_total_pkts = 0
       THEN /\ g_pps' = g_total_pkts' - g_last_pkts
            /\ g_bps' = g_total_bytes' - g_last_bytes
            /\ g_last_pkts' = g_total_pkts'
            /\ g_last_bytes' = g_total_bytes'
            /\ g_top' = TopTalkers(g_talkers')
       ELSE UNCHANGED <<g_pps, g_bps, g_last_pkts, g_last_bytes, g_top>>

-----------------------------------------------------------------------------
(* The poll phase.                                                         *)

handle_event(e, tick) ==
  IF g_paused
    THEN UNCHANGED <<ringVars, statVars, pcap>>
    ELSE /\ pcap' = IF HasOut THEN Append(pcap, e) ELSE pcap
         /\ Store(e)
         /\ update_stats(e, tick)

(* A record is consumed from the BPF ring buffer. *)
Deliver(t, tick) ==
  /\ pc = "poll"
  /\ arrived < MaxArrivals
  /\ arrived' = arrived + 1
  /\ handle_event(Packet(arrived + 1, t), tick)
  /\ UNCHANGED <<pc, g_running, g_paused, filterVars, viewVars, saved>>

PollEnds ==
  /\ pc = "poll"
  /\ pc' = "key"
  /\ UNCHANGED <<arrived, ringVars, g_running, g_paused, filterVars, viewVars, statVars, fileVars>>

(* ring_buffer__poll fails: the loop is left without a redraw. *)
PollFails ==
  /\ pc = "poll"
  /\ pc' = "exit"
  /\ UNCHANGED <<arrived, ringVars, g_running, g_paused, filterVars, viewVars, statVars, fileVars>>

-----------------------------------------------------------------------------
(* The key phase: at most one key, normal mode or filter mode.             *)

Key == pc = "key" /\ pc' = "draw" /\ UNCHANGED <<arrived, ringVars, statVars, pcap>>
NormalKey(k) == Key /\ ~g_filter_mode /\ k \in Keys
FilterKey(k) == Key /\ g_filter_mode /\ k \in Keys

NoKey ==
  /\ Key
  /\ UNCHANGED <<g_running, g_paused, filterVars, viewVars, saved>>

KeyQuit ==
  /\ NormalKey("q")
  /\ g_running' = FALSE
  /\ UNCHANGED <<g_paused, filterVars, viewVars, saved>>

KeyPause ==
  /\ NormalKey("p")
  /\ g_paused' = ~g_paused
  /\ UNCHANGED <<g_running, filterVars, viewVars, saved>>

KeyFilter ==
  /\ NormalKey("f")
  /\ g_filter_mode' = TRUE
  /\ g_filter_buf' = Padded(g_filter_buf)
  /\ g_filter_cursor' = strlen(g_filter_buf)
  /\ UNCHANGED <<g_running, g_paused, g_filter, viewVars, saved>>

(* D or Enter: the detail panel, and a new layout. *)
KeyDetail ==
  /\ NormalKey("d")
  /\ g_detail_mode' = ~g_detail_mode
  /\ list_rows' = term_rows
  /\ UNCHANGED <<g_running, g_paused, filterVars, g_selected, g_scroll_top, term_rows, saved>>

(* R: the filter is cleared; the selection stays where it is. *)
KeyReset ==
  /\ NormalKey("r")
  /\ g_filter' = NoFilter
  /\ g_filter_buf' = [g_filter_buf EXCEPT ![0] = NUL]
  /\ g_filter_cursor' = 0
  /\ UNCHANGED <<g_running, g_paused, g_filter_mode, viewVars, saved>>

(* S: save_filtered_pcap. *)
KeySave ==
  /\ NormalKey("s")
  /\ saved' = Visible(g_filter)
  /\ UNCHANGED <<g_running, g_paused, filterVars, viewVars>>

LastRow == IF vcount > 0 THEN vcount - 1 ELSE 0

(* Where each navigation key moves the selection. *)
Moved ==
  LET page == list_rows - 2 IN
    {IF g_selected > 0 THEN g_selected - 1 ELSE g_selected,
     IF g_selected < vcount - 1 THEN g_selected + 1 ELSE g_selected,
     IF g_selected - page < 0 THEN 0 ELSE g_selected - page,
     IF g_selected + page >= vcount THEN LastRow ELSE g_selected + page,
     0,
     LastRow}

KeyMove ==
  /\ NormalKey("move")
  /\ g_selected' \in Moved
  /\ UNCHANGED <<g_running, g_paused, filterVars, g_scroll_top, g_detail_mode, list_rows,
                 term_rows, saved>>

(* KEY_RESIZE: layout_windows, in normal mode only. *)
KeyResize ==
  /\ NormalKey("resize")
  /\ term_rows' \in Heights
  /\ list_rows' = term_rows'
  /\ UNCHANGED <<g_running, g_paused, filterVars, g_selected, g_scroll_top, g_detail_mode, saved>>

(* Esc: the bar closes; the edited text stays, the filter too. *)
FilterCancel ==
  /\ FilterKey("esc")
  /\ g_filter_mode' = FALSE
  /\ UNCHANGED <<g_running, g_paused, g_filter, g_filter_buf, g_filter_cursor, viewVars, saved>>

FilterApply ==
  /\ FilterKey("enter")
  /\ g_filter' = parse_filter_str(LineText)
  /\ g_selected' = 0
  /\ g_scroll_top' = 0
  /\ g_filter_mode' = FALSE
  /\ UNCHANGED <<g_running, g_paused, g_filter_buf, g_filter_cursor, g_detail_mode, list_rows,
                 term_rows, saved>>

FilterBackspace ==
  /\ FilterKey("edit")
  /\ g_filter_cursor > 0
  /\ g_filter_buf' = Backspaced(g_filter_buf, g_filter_cursor)
  /\ g_filter_cursor' = g_filter_cursor - 1
  /\ UNCHANGED <<g_running, g_paused, g_filter, g_filter_mode, viewVars, saved>>

FilterDelete ==
  /\ FilterKey("edit")
  /\ g_filter_cursor < strlen(g_filter_buf)
  /\ g_filter_buf' = Deleted(g_filter_buf, g_filter_cursor)
  /\ UNCHANGED <<g_running, g_paused, g_filter, g_filter_mode, g_filter_cursor, viewVars, saved>>

FilterInsert(c) ==
  /\ FilterKey("edit")
  /\ strlen(g_filter_buf) < BUF_SIZE - 1
  /\ g_filter_buf' = Inserted(g_filter_buf, g_filter_cursor, c)
  /\ g_filter_cursor' = g_filter_cursor + 1
  /\ UNCHANGED <<g_running, g_paused, g_filter, g_filter_mode, viewVars, saved>>

(* KEY_LEFT and KEY_RIGHT *)
FilterArrow ==
  /\ FilterKey("edit")
  /\ \/ g_filter_cursor > 0 /\ g_filter_cursor' = g_filter_cursor - 1
     \/ g_filter_cursor < strlen(g_filter_buf) /\ g_filter_cursor' = g_filter_cursor + 1
  /\ UNCHANGED <<g_running, g_paused, g_filter, g_filter_mode, g_filter_buf, viewVars, saved>>

(* KEY_RESIZE while the bar is open: the windows keep their size. *)
FilterResize ==
  /\ FilterKey("resize")
  /\ term_rows' \in Heights
  /\ UNCHANGED <<g_running, g_paused, filterVars, g_selected, g_scroll_top, g_detail_mode,
                 list_rows, saved>>

-----------------------------------------------------------------------------
(* The draw phase.                                                         *)

(* Fault: the list scrolls only after the selection has left it. *)
ClampOffByOne ==
  LET sel == IF g_selected >= vcount THEN LastRow ELSE g_selected
      top == IF g_scroll_top > sel THEN sel ELSE g_scroll_top
  IN [sel |-> sel,
      top |-> IF sel > top + list_rows - 1 THEN sel - list_rows + 2 ELSE top]

(* What draw_packet_list makes of the selection and of the first row. *)
Clamp ==
  LET sel == IF g_selected >= vcount THEN LastRow ELSE g_selected
      top == IF g_scroll_top > sel THEN sel ELSE g_scroll_top
  IN [sel |-> sel,
      top |-> IF sel >= top + list_rows - 1 THEN sel - list_rows + 2 ELSE top]

(* Fault: the loop goes on whatever g_running says. *)
RedrawNoTest ==
  /\ pc = "draw"
  /\ pc' = "poll"
  /\ g_selected' = Clamp.sel
  /\ g_scroll_top' = Clamp.top
  /\ saved' = <<>>
  /\ UNCHANGED <<arrived, ringVars, g_running, g_paused, filterVars, g_detail_mode, list_rows,
                 term_rows, statVars, pcap>>

(* redraw_all, and the loop's test of g_running.  main also starts here.    *)
Redraw ==
  /\ pc = "draw"
  /\ pc' = IF g_running THEN "poll" ELSE "exit"
  /\ g_selected' = Clamp.sel
  /\ g_scroll_top' = Clamp.top
  /\ saved' = <<>>
  /\ UNCHANGED <<arrived, ringVars, g_running, g_paused, filterVars, g_detail_mode, list_rows,
                 term_rows, statVars, pcap>>

(* SIGINT or SIGTERM. *)
Signal ==
  /\ pc # "exit"
  /\ g_running' = FALSE
  /\ UNCHANGED <<pc, arrived, ringVars, g_paused, filterVars, viewVars, statVars, fileVars>>

-----------------------------------------------------------------------------
Init ==
  /\ pc = "draw"
  /\ arrived = 0
  /\ pkt_ring = [i \in Indices |-> NoPacket] /\ pkt_head = 0 /\ pkt_count = 0
  /\ g_running = TRUE /\ g_paused = FALSE
  /\ g_filter = NoFilter /\ g_filter_mode = FALSE
  /\ g_filter_buf = [i \in 0..(BUF_SIZE - 1) |-> NUL] /\ g_filter_cursor = 0
  /\ g_selected = 0 /\ g_scroll_top = 0 /\ g_detail_mode = FALSE
  /\ list_rows \in Heights /\ term_rows = list_rows
  /\ g_total_pkts = 0 /\ g_total_bytes = 0 /\ g_last_pkts = 0 /\ g_last_bytes = 0
  /\ g_pps = 0 /\ g_bps = 0
  /\ g_talkers = [s \in Slots |-> NoTalker]
  /\ g_top = [j \in 1..MAX_TALKERS |-> NoTalker]
  /\ pcap = <<>> /\ saved = <<>>

KeyStep ==
  \/ NoKey \/ KeyQuit \/ KeyPause \/ KeyFilter \/ KeyDetail \/ KeyReset \/ KeySave
  \/ KeyMove \/ KeyResize \/ FilterCancel \/ FilterApply \/ FilterResize
  \/ FilterBackspace \/ FilterDelete \/ FilterArrow
  \/ \E c \in Tokens : FilterInsert(c)

Next ==
  \/ \E t \in Traffic, tick \in Ticks : Deliver(t, tick)
  \/ PollEnds \/ PollFails
  \/ KeyStep
  \/ Redraw
  \/ Signal

(* getch returns after at most 50 ms, and redraw_all is straight-line code. *)
(* The poll need not end: its timeout of 0 is that of the wait, and once   *)
(* there are packets it goes on as long as new ones come.                  *)
Fairness == WF_vars(KeyStep) /\ WF_vars(Redraw)

Spec == Init /\ [][Next]_vars /\ Fairness

-----------------------------------------------------------------------------
(* Properties.                                                             *)

(* Every variable has its type; the counters never exceed what arrived. *)
TypeOK ==
  /\ pc \in {"poll", "key", "draw", "exit"}
  /\ arrived \in 0..MaxArrivals
  /\ pkt_ring \in [Indices -> Packets \cup {NoPacket}]
  /\ pkt_head \in Indices
  /\ pkt_count \in 0..MAX_PACKETS
  /\ g_running \in BOOLEAN /\ g_paused \in BOOLEAN
  /\ g_filter_mode \in BOOLEAN /\ g_detail_mode \in BOOLEAN
  /\ g_selected \in Nat /\ g_scroll_top \in Nat
  /\ list_rows \in Heights /\ term_rows \in Heights
  /\ g_total_pkts \in 0..arrived /\ g_last_pkts \in 0..g_total_pkts
  /\ g_total_bytes \in Nat /\ g_last_bytes \in 0..g_total_bytes
  /\ g_talkers \in [Slots -> [ip : Addrs \cup {<<0, 0>>}, bytes : Nat, pkts : Nat]]
  /\ \A s \in Slots : g_talkers[s].pkts <= g_total_pkts /\ g_talkers[s].bytes <= g_total_bytes

(* Until the ring is full the head is the number of packets in it, and     *)
(* nothing in the ring is newer than the last packet that arrived.         *)
RingInv ==
  /\ pkt_count < MAX_PACKETS => pkt_head = pkt_count
  /\ \A i \in Indices : pkt_ring[i].n <= arrived

Log == INSTANCE PacketLog WITH Capacity <- MAX_PACKETS, log <- View

(* handle_event and the index arithmetic that draw_packet_list, draw_detail, *)
(* save_filtered_pcap and handle_input_normal share: through the ring, its   *)
(* head and its count one sees a log of the newest MAX_PACKETS packets,      *)
(* oldest first.                                                             *)
ImplementsLog == Log!Spec

IsSuffix(s, t) ==
  Len(s) <= Len(t) /\ s = SubSeq(t, Len(t) - Len(s) + 1, Len(t))

(* What key S saves is the end of what -o recorded, filtered: no packet    *)
(* that passes the filter is missing between the oldest one saved and now, *)
(* none is twice there and the order is that of arrival, however often the *)
(* ring wrapped and the capture was paused.                                *)
SavedIsRecent ==
  HasOut => IsSuffix(saved, Filtered(pcap, g_filter))

(* draw_packet_list: after every redraw the selected row is one of the     *)
(* filtered packets (row 0 when there is none) and lies inside the window, *)
(* although packets were dropped from the view, the filter was changed or  *)
(* the window was resized since the selection was made.                    *)
SelectionShown ==
  [][pc = "draw" /\ pc' # "draw" =>
       /\ g_selected' \in 0..(IF vcount = 0 THEN 0 ELSE vcount - 1)
       /\ g_scroll_top' \in 0..g_selected'
       /\ g_selected' < g_scroll_top' + list_rows - 1]_vars

TopIsRanking(top, t) ==
  /\ \A j, k \in 1..MAX_TALKERS :
       j < k => top[j].bytes >= top[k].bytes /\ (top[j].ip = top[k].ip => top[k] = NoTalker)
  /\ \A s \in Slots :
       \/ t[s].ip = <<0, 0>>
       \/ \E j \in 1..MAX_TALKERS : top[j] = t[s]
       \/ \A j \in 1..MAX_TALKERS : top[j].bytes >= t[s].bytes

(* update_stats: a refreshed top-talker table is in descending order, has  *)
(* no address twice, and no talker it leaves out has more bytes than one   *)
(* it shows.                                                               *)
TopRanking ==
  [][g_last_pkts' # g_last_pkts => TopIsRanking(g_top', g_talkers')]_vars

BytesOf(s, ip) ==
  LET sum[i \in 0..Len(s)] ==
        IF i = 0 THEN 0 ELSE sum[i - 1] + (IF s[i].src = ip THEN s[i].len ELSE 0)
  IN sum[Len(s)]

(* update_stats: the bytes shown for the address that owns a slot are all  *)
(* the bytes captured from it; an address that lost the race for its slot  *)
(* never adds to, nor takes from, the owner's count.  (In slot 0 it holds  *)
(* as long as 0.0.0.0, the address of a record without an IP header, is    *)
(* the only source there: nobody owns that slot, so its bytes would go to  *)
(* the first 0.x.y.z.)                                                     *)
OwnerCountsAll ==
  HasOut => \A s \in Slots :
           g_talkers[s].ip # <<0, 0>> => g_talkers[s].bytes = BytesOf(pcap, g_talkers[s].ip)

Line == INSTANCE EditLine WITH Chars <- Tokens, Capacity <- BUF_SIZE - 1,
                               text <- LineText, cursor <- g_filter_cursor

(* handle_input_filter: g_filter_buf with its memmoves and its NUL is a    *)
(* line that is edited at the cursor; it always ends inside the buffer,    *)
(* the cursor stays on it, and cancelling, reopening, resetting and a full *)
(* buffer leave no character too many or too few.                          *)
ImplementsLine == Line!Spec

(* main: once Q was pressed or a signal came, in whichever phase and mode, *)
(* the loop is left, unless packets keep ring_buffer__poll busy for ever:  *)
(* g_running is only looked at after the redraw.                           *)
QuitObeyed == ~g_running ~> (pc = "exit" \/ [](pc = "poll"))
=============================================================================
