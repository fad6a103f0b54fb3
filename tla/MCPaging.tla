------------------------------ MODULE MCPaging -------------------------------
(* Paging with tables of six entries: entry 0 for programs, 1 and 2 for    *)
(* the heap, 3 for the stack, 4 for the directory itself, 5 for the kernel.*)
EXTENDS Paging

Segment(a, n) == [p_vaddr |-> a, p_memsz |-> n]
Prog(s) == [compatible |-> TRUE, segments |-> s]

MCPrograms == {
    \* two segments on pages of their own, one of them of two pages
    Prog(<< Segment(4, 3), Segment(8, 7) >>),
    \* two segments on one page: the second mapping returns early
    Prog(<< Segment(4, 2), Segment(6, 2) >>),
    \* across a table boundary, into a table of the kernel's heap
    Prog(<< Segment(20, 7) >>),
    \* across a table boundary, far from the heap, in front of the stack
    Prog(<< Segment(68, 8) >>),
    \* where the stack is, which is then not mapped
    Prog(<< Segment(76, 3) >>),
    \* not at the beginning of a page
    Prog(<< Segment(6, 4) >>),
    NoProgram }
=============================================================================
