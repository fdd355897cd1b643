------------------------------ MODULE Resource ------------------------------
(* The calculations of src/Resource.hpp. *)
EXTENDS Integers

\* (size + align - 1) & ~(align - 1), for a power of two.
align_size(size, align) == ((size + align - 1) \div align) * align

\* make_timespec(tm): the time of day tm milliseconds from now.
make_timespec(now, tm) ==
    LET nsec == (now.tv_usec + (tm % 1000) * 1000) * 1000
    IN  [tv_sec  |-> now.tv_sec + (tm \div 1000) + (nsec \div 1000000000),
         tv_nsec |-> nsec % 1000000000]
=============================================================================
