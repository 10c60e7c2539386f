----------------------------- MODULE AllowedIPs -----------------------------
(***************************************************************************)
(* wireguard/device/allowedips.go: the trie of allowed addresses.          *)
(*                                                                         *)
(* A node is named by its prefix, the sequence of the first cidr bits; no  *)
(* two nodes of a trie have the same one.  Its parent pointer is the place *)
(* it hangs from: a node and a bit, or the root.  Insert and RemoveByPeer  *)
(* run under the table's lock.  routes is not in the code: it is what was  *)
(* asked for, for comparison.  The two families have a trie each that      *)
(* differ in the width alone.                                              *)
(***************************************************************************)
EXTENDS Integers, Sequences, SequencesExt

CONSTANTS
    Width,     \* bits of an address (32 or 128)
    Owners,    \* peers
    NoOwner,
    MaxRoutes  \* bound: prefixes in the table

VARIABLES
    trie,    \* node -> its owner, its children and its place
    root,    \* the topmost node, or Nil
    entries, \* peer -> its nodes in the order they were added
    routes   \* prefix -> the peer it was last given to

ipVars == <<trie, root, entries, routes>>

Bit == {0, 1}
Nets == UNION {[1..n -> Bit] : n \in 0..Width}
Addresses == [1..Width -> Bit]

Nil == <<2>>            \* no node
AtRoot == [node |-> Nil, bit |-> 2]

Init ==
    /\ trie = <<>>
    /\ root = Nil
    /\ entries = [p \in Owners |-> <<>>]
    /\ routes = <<>>

-----------------------------------------------------------------------------
\* How many leading bits two bit strings share.
commonBits(a, b) ==
    LET shared == {n \in 0..Len(a) : n <= Len(b) /\ SubSeq(a, 1, n) = SubSeq(b, 1, n)}
    IN CHOOSE n \in shared : \A k \in shared : k <= n

Covers(node, ip) == commonBits(node, ip) >= Len(node)

\* The bit after the node's own prefix.
choose(node, ip) == ip[Len(node) + 1]

\* The loop of lookup and of nodePlacement: the node it is at after k steps, Nil
\* once it has come to an end.
Walk(t, r, ip) ==
    LET at[k \in 0..Width] ==
            IF k = 0 THEN r
            ELSE LET n == at[k - 1]
                 IN IF n = Nil \/ ~Covers(n, ip) \/ Len(n) = Len(ip) THEN Nil
                    ELSE t[n].child[choose(n, ip)]
    IN at

\* The steps at which it is at a node that covers ip.
Visits(t, r, ip) == {k \in 0..Width : Walk(t, r, ip)[k] # Nil /\ Covers(Walk(t, r, ip)[k], ip)}

\* Mutant: the descent ends at a node that nobody owns.
Lookup_StopsAtGlue(ip) ==
    LET at == Walk(trie, root, ip)
        owned == {k \in Visits(trie, root, ip) : \A i \in 0..k : trie[at[i]].owner # NoOwner}
    IN IF owned = {} THEN NoOwner ELSE trie[at[Max(owned)]].owner

\* The last of them that has an owner.
Lookup(ip) ==
    LET at == Walk(trie, root, ip)
        owned == {k \in Visits(trie, root, ip) : trie[at[k]].owner # NoOwner}
    IN IF owned = {} THEN NoOwner ELSE trie[at[Max(owned)]].owner

\* A table is a trie with its root; hanging a node at a place.
Hang(tb, place, n) ==
    IF place = AtRoot THEN [tb EXCEPT !.root = n]
    ELSE [tb EXCEPT !.trie[place.node].child[place.bit] = n]

\* Mutant: the node keeps the parent it had.
Reparent_Forgets(tb, n, place) == tb

Reparent(tb, n, place) == IF n = Nil THEN tb ELSE [tb EXCEPT !.trie[n].parent = place]

\* Place n at place and make it its parent.
Attach(tb, place, n) == Reparent(Hang(tb, place, n), n, place)

Under(node, n) == [node |-> node, bit |-> choose(node, n)]

Leaf(p) == [owner |-> p, child |-> [b \in Bit |-> Nil], parent |-> AtRoot]

\* A function with one more argument, or another value for one.
Update(f, x, v) == [y \in DOMAIN f \cup {x} |-> IF y = x THEN v ELSE f[y]]

AddNode(tb, n, p) == [tb EXCEPT !.trie = Update(@, n, Leaf(p))]

\* n enters at a place, above what hung there.
Interpose(tb, place, n, p, down) ==
    LET with == Attach(AddNode(tb, n, p), place, n)
    IN IF down = Nil THEN with ELSE Attach(with, Under(n, down), down)

\* The bits the node below and the new one share.
Split(down, ip) == IF commonBits(down, ip) < Len(ip) THEN commonBits(down, ip) ELSE Len(ip)

\* insert of a prefix that has no node: under the last node that covers it, above
\* what hung there, or beside it under a new node that nobody owns.
InsertNode(tb, ip, p) ==
    LET visits == Visits(tb.trie, tb.root, ip)
        parent == Walk(tb.trie, tb.root, ip)[Max(visits)]
        place == IF visits = {} THEN AtRoot ELSE Under(parent, ip)
        down == IF visits = {} THEN tb.root ELSE tb.trie[parent].child[place.bit]
        at == SubSeq(ip, 1, Split(down, ip))
    IN IF down = Nil \/ at = ip THEN Interpose(tb, place, ip, p, down)
       ELSE Interpose(Interpose(tb, place, at, NoOwner, down), Under(at, ip), ip, p, Nil)

Table == [trie |-> trie, root |-> root]

\* A node's element leaves its peer's list.
Without(p, ip) ==
    LET own == entries[p]
    IN [entries EXCEPT ![p] = RemoveAt(own, CHOOSE i \in DOMAIN own : own[i] = ip)]

\* The lists when ip's node changes hands.
Retaken(ip) == IF trie[ip].owner = NoOwner THEN entries ELSE Without(trie[ip].owner, ip)

Insert(ip, p) ==
    LET tb == InsertNode(Table, ip, p)
    IN /\ routes' = Update(routes, ip, p)
       /\ IF ip \in DOMAIN trie
          THEN /\ trie' = [trie EXCEPT ![ip].owner = p]
               /\ entries' = [Retaken(ip) EXCEPT ![p] = Append(@, ip)]
               /\ UNCHANGED root
          ELSE /\ trie' = tb.trie /\ root' = tb.root
               /\ entries' = [entries EXCEPT ![p] = Append(@, ip)]

Drop(tb, n) == [tb EXCEPT !.trie = [x \in DOMAIN @ \ {n} |-> @[x]]]

\* A node gives its place to its only child, or to none.
Splice(tb, n, child) == Drop(Attach(tb, tb.trie[n].parent, child), n)

\* The sides on which a node has a child, and the child of a node with fewer than two.
Kids(t, n) == {b \in Bit : t[n].child[b] # Nil}
OnlyChild(t, n) == IF Kids(t, n) = {} THEN Nil ELSE t[n].child[CHOOSE b \in Kids(t, n) : TRUE]

\* One entry's removal: a node with two children stays without an owner; another
\* is replaced by its child; a leaf takes a parent that nobody owns with it.
RemoveNode(tb, n) ==
    LET unowned == [tb EXCEPT !.trie[n].owner = NoOwner]
        kids == Kids(tb.trie, n)
        place == tb.trie[n].parent
        spliced == Splice(unowned, n, OnlyChild(tb.trie, n))
        parent == place.node
    IN IF kids = Bit THEN unowned
       ELSE IF kids # {} \/ place = AtRoot \/ spliced.trie[parent].owner # NoOwner THEN spliced
       ELSE Splice(spliced, parent, spliced.trie[parent].child[1 - place.bit])

RemoveByPeer(p) ==
    LET tb == FoldLeft(RemoveNode, Table, entries[p])
    IN /\ entries[p] # <<>>
       /\ trie' = tb.trie /\ root' = tb.root
       /\ entries' = [entries EXCEPT ![p] = <<>>]
       /\ routes' = [ip \in {x \in DOMAIN routes : routes[x] # p} |-> routes[ip]]

Next ==
    \/ \E ip \in Nets, p \in Owners :
          /\ ip \in DOMAIN routes \/ Cardinality(DOMAIN routes) < MaxRoutes
          /\ Insert(ip, p)
    \/ \E p \in Owners : RemoveByPeer(p)

-----------------------------------------------------------------------------
\* Shapes of the state.
TypeOK ==
    /\ DOMAIN trie \subseteq Nets
    /\ \A n \in DOMAIN trie :
          /\ trie[n].owner \in Owners \cup {NoOwner}
          /\ \A b \in Bit : trie[n].child[b] \in DOMAIN trie \cup {Nil}
          /\ trie[n].parent.node \in DOMAIN trie \cup {Nil}
    /\ root \in DOMAIN trie \cup {Nil}
    /\ \A p \in Owners : Range(entries[p]) \subseteq DOMAIN trie

\* A packet goes to the peer of the longest prefix that covers its address, after
\* any sequence of insertions, reassignments and removals of whole peers.
LongestPrefixWins ==
    \A ip \in Addresses :
        LET covering == {x \in DOMAIN routes : Covers(x, ip)}
        IN Lookup(ip) =
              IF covering = {} THEN NoOwner
              ELSE routes[CHOOSE x \in covering : \A y \in covering : Len(y) <= Len(x)]

\* The trie stays a tree that removal can take apart: every node hangs where its
\* parent pointer says, every node without an owner has two children, and the lists
\* EntriesForPeer reports are the routes of each peer, once each.
TrieIsWhole ==
    /\ \A n \in DOMAIN trie :
          /\ LET at == trie[n].parent
             IN IF at = AtRoot THEN root = n ELSE trie[at.node].child[at.bit] = n
          /\ trie[n].owner = NoOwner => \A b \in Bit : trie[n].child[b] # Nil
    /\ \A p \in Owners :
          /\ ToSet(entries[p]) = {ip \in DOMAIN routes : routes[ip] = p}
          /\ IsInjective(entries[p])

=============================================================================
