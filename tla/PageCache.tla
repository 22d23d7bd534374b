------------------------------ MODULE PageCache ------------------------------
(***************************************************************************)
(* The images of a document's pages, rendered on demand and kept in one     *)
(* ordered dictionary, the least recently used first.  Request threads read *)
(* and trim it without a lock: each call on the dictionary is atomic, two   *)
(* calls are not.  A document is one page of one item here.  It is a PDF    *)
(* that intake stored and nobody changes, or a file at the recorded path,   *)
(* which may be edited or removed.                                          *)
(***************************************************************************)
EXTENDS Naturals, Sequences, FiniteSets

CONSTANTS
    Reader,      \* request threads
    StoredDoc,   \* documents whose PDF is in the database
    FileDoc,     \* documents that are files
    CacheSize,   \* _PAGE_CACHE_SIZE
    MaxEdits     \* bound on the edits of a file

ASSUME PageAssumption ==
    /\ CacheSize \in Nat \ {0}
    /\ MaxEdits \in Nat
    /\ IsFiniteSet(Reader)
    /\ StoredDoc \intersect FileDoc = {}

VARIABLES
    version,   \* what a document shows now; 0: there is no file (external)
    pages,     \* _PAGE_CACHE: keys with their images, least recently used first
    reader     \* where each request is, with its local values

pageVars == <<version, pages, reader>>

Doc == StoredDoc \union FileDoc

Version == 0..MaxEdits + 1

\* A stored PDF's key holds its item (stamp 0), a file's the time it was modified.
Key == [doc : Doc, stamp : Version]

\* An image: what was rendered, of which document.
Image == [doc : Doc, shows : Version]

\* since: (ghost) what the document showed when the request came.
Reading == [pc : {"look", "load", "touch", "read", "render", "put", "trim", "evict",
                  "found", "missing", "failed"},
            key : Key, image : Image, since : Version]

NoReading == [pc |-> "idle"]

PageTypeOK ==
    /\ version \in [Doc -> Version]
    /\ pages \in Seq([key : Key, image : Image])
    /\ reader \in [Reader -> Reading \union {NoReading}]

PageInit ==
    /\ version = [d \in Doc |-> 1]
    /\ pages = <<>>
    /\ reader = [r \in Reader |-> NoReading]

-----------------------------------------------------------------------------
(* The dictionary *)

Cached(key) == \E i \in DOMAIN pages : pages[i].key = key

Position(key) == CHOOSE i \in DOMAIN pages : pages[i].key = key

ImageOf(key) == pages[Position(key)].image

MoveToEnd(key) ==
    LET i == Position(key)
    IN  Append(SubSeq(pages, 1, i - 1) \o SubSeq(pages, i + 1, Len(pages)), pages[i])

\* A new key goes to the end; the image of an old one is replaced where it is.
WithEntry(e) ==
    IF Cached(e.key) THEN [i \in DOMAIN pages |-> IF pages[i].key = e.key THEN e ELSE pages[i]]
    ELSE Append(pages, e)

-----------------------------------------------------------------------------
(* Files *)

\* A file is edited: it shows something new and is newer than before.
Edit(d) ==
    /\ d \in FileDoc
    /\ version[d] \in 1..MaxEdits
    /\ version' = [version EXCEPT ![d] = @ + 1]
    /\ UNCHANGED <<pages, reader>>

Remove(d) ==
    /\ d \in FileDoc
    /\ version' = [version EXCEPT ![d] = 0]
    /\ version' # version
    /\ UNCHANGED <<pages, reader>>

-----------------------------------------------------------------------------
(* get_page_image and _page_png *)

ReaderAt(r, pc) == reader[r].pc = pc

Go(r, j) == reader' = [reader EXCEPT ![r] = j] /\ UNCHANGED version

\* The first key that is tried is the one of a stored PDF.
GetPage(r, d) ==
    /\ ReaderAt(r, "idle")
    /\ Go(r, [pc |-> "look", key |-> [doc |-> d, stamp |-> 0],
              image |-> [doc |-> d, shows |-> 0], since |-> version[d]])
    /\ UNCHANGED pages

Look(r) ==
    /\ ReaderAt(r, "look")
    /\ LET key == reader[r].key
       IN  Go(r, [reader[r] EXCEPT !.pc = IF Cached(key) THEN "touch"
                                          ELSE IF key.stamp = 0 THEN "load" ELSE "render"])
    /\ UNCHANGED pages

\* (mutant) the modification time is left out of a file's key
FileKey(d) == [doc |-> d, stamp |-> 1]

PathKey(d) == [doc |-> d, stamp |-> version[d]]

\* No stored PDF: the key of the file is tried next, if there is a file.
Load(r) ==
    /\ ReaderAt(r, "load")
    /\ LET d == reader[r].key.doc
       IN  Go(r, IF d \in StoredDoc THEN [reader[r] EXCEPT !.pc = "render"]
                 ELSE IF version[d] = 0 THEN [reader[r] EXCEPT !.pc = "missing"]
                 ELSE [reader[r] EXCEPT !.pc = "look", !.key = PathKey(d)])
    /\ UNCHANGED pages

\* move_to_end; another thread may have evicted the key (KeyError, hence 500).
Touch(r) ==
    /\ ReaderAt(r, "touch")
    /\ LET key == reader[r].key
       IN  IF Cached(key)
           THEN /\ pages' = MoveToEnd(key)
                /\ Go(r, [reader[r] EXCEPT !.pc = "read"])
           ELSE /\ Go(r, [reader[r] EXCEPT !.pc = "failed"])
                /\ UNCHANGED pages

ReadPage(r) ==
    /\ ReaderAt(r, "read")
    /\ LET key == reader[r].key
       IN  Go(r, IF Cached(key)
                 THEN [reader[r] EXCEPT !.pc = "found", !.image = ImageOf(key)]
                 ELSE [reader[r] EXCEPT !.pc = "failed"])
    /\ UNCHANGED pages

\* The file is read after its time was: it may be newer than its key, or gone.
Render(r) ==
    /\ ReaderAt(r, "render")
    /\ LET d == reader[r].key.doc
       IN  Go(r, [reader[r] EXCEPT !.pc = IF version[d] = 0 THEN "missing" ELSE "put",
                                   !.image.shows = version[d]])
    /\ UNCHANGED pages

Put(r) ==
    /\ ReaderAt(r, "put")
    /\ pages' = WithEntry([key |-> reader[r].key, image |-> reader[r].image])
    /\ Go(r, [reader[r] EXCEPT !.pc = "trim"])

\* (mutant) one entry too many is let be
RoomyTrim(r) ==
    /\ ReaderAt(r, "trim")
    /\ Go(r, [reader[r] EXCEPT !.pc = IF Len(pages) > CacheSize + 1 THEN "evict" ELSE "found"])
    /\ UNCHANGED pages

Trim(r) ==
    /\ ReaderAt(r, "trim")
    /\ Go(r, [reader[r] EXCEPT !.pc = IF Len(pages) > CacheSize THEN "evict" ELSE "found"])
    /\ UNCHANGED pages

\* popitem; other threads may have made room meanwhile, or emptied the cache.
Evict(r) ==
    /\ ReaderAt(r, "evict")
    /\ IF pages = <<>>
       THEN Go(r, [reader[r] EXCEPT !.pc = "failed"]) /\ UNCHANGED pages
       ELSE pages' = Tail(pages) /\ Go(r, [reader[r] EXCEPT !.pc = "trim"])

\* 200 with the image, 404 or 500.
Answer(r) ==
    /\ reader[r].pc \in {"found", "missing", "failed"}
    /\ Go(r, NoReading)
    /\ UNCHANGED pages

Serve(r) ==
    \/ Look(r) \/ Load(r) \/ Touch(r) \/ ReadPage(r) \/ Render(r)
    \/ Put(r) \/ Trim(r) \/ Evict(r) \/ Answer(r)

PageNext ==
    \/ \E d \in Doc : Edit(d) \/ Remove(d)
    \/ \E r \in Reader : Serve(r) \/ \E d \in Doc : GetPage(r, d)

-----------------------------------------------------------------------------
(* Properties *)

\* A reviewer sees the document asked for, at least as new as it was when the page
\* was asked for, whatever other requests put in the cache meanwhile.
PageIsCurrent ==
    \A r \in Reader :
        ReaderAt(r, "found") =>
            /\ reader[r].image.doc = reader[r].key.doc
            /\ reader[r].image.shows >= reader[r].since

\* The cache outgrows its limit by no more than what the threads that have just put
\* an image have yet to trim: racing trims never let it grow for good.
CacheBounded ==
    Len(pages) <= CacheSize + Cardinality({r \in Reader : reader[r].pc \in {"trim", "evict"}})
=============================================================================
