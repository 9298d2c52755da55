----------------------------- MODULE PostFilter -----------------------------
(***************************************************************************)
(* deleteAndFilterPost and removePost, on slices that share one backing    *)
(* array.  Both range loops keep the length they start with and read each  *)
(* element when they come to it, while removePost shifts the array under   *)
(* them; its append shortens only its own slice header.                    *)
(***************************************************************************)
EXTENDS Naturals, Sequences

\* append(posts[:i-1], posts[i:]...): the elements up to len move down by one.
ShiftDown(array, i, len) ==
    [j \in DOMAIN array |-> IF i <= j /\ j < len THEN array[j + 1] ELSE array[j]]

\* removePost: the array it leaves; ok is FALSE if a slice bound panics.
RemovePost(posts, id) ==
    LET after[i \in 0..Len(posts)] ==
            IF i = 0 THEN [array |-> posts, len |-> Len(posts), ok |-> TRUE]
            ELSE LET s == after[i - 1] IN
                 IF ~s.ok \/ s.array[i].id # id THEN s
                 ELSE IF i > s.len THEN [s EXCEPT !.ok = FALSE]
                 ELSE [s EXCEPT !.array = ShiftDown(s.array, i, s.len), !.len = @ - 1]
    IN  after[Len(posts)]

\* One round of deleteAndFilterPost's loop: what it has deleted and kept.
FilterStep(s, i, text) ==
    LET post == s.array[i]
        rest == RemovePost(s.array, post.id)
    IN  IF ~s.ok THEN s
        ELSE IF post.gone
        THEN [s EXCEPT !.array = rest.array, !.ok = rest.ok,
                       !.deleted = @ \cup {post.id}]
        ELSE IF post.id \in text THEN [s EXCEPT !.kept = Append(@, post)]
        ELSE s

\* deleteAndFilterPost after each of its rounds; text are the posts that are
\* neither system messages nor empty.
Filtering(posts, text) ==
    LET after[i \in 0..Len(posts)] ==
            IF i = 0 THEN [array |-> posts, kept |-> <<>>, deleted |-> {}, ok |-> TRUE]
            ELSE FilterStep(after[i - 1], i, text)
    IN  after
=============================================================================
