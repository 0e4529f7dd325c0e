------------------------------ MODULE MCPaging ------------------------------
EXTENDS Paging

Object(virtual, physical, bytes) ==
    [virtual |-> virtual, physical |-> physical, bytes |-> bytes]

\* With pages of 4 bytes and tables of 2 entries: allocations, at their own
\* address, of a page, and of more than one across two tables; segments that
\* begin or end inside a page, one of them in two pages; an object that wraps
\* around the address space; and an empty one.
MCObjects ==
    {Object(4, 4, 4), Object(4, 4, 5), Object(9, 5, 2), Object(7, 3, 2),
     Object(12, 4, 8), Object(8, 8, 0)}
=============================================================================
